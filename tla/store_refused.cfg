\* README.md:71 against a store the server refuses.
SPECIFICATION Spec
CONSTANTS
  c1 = c1
  c2 = c2
  t1 = t1
  t2 = t2
  b1 = b1
  b2 = b2
  Junk = Junk
  NoFile = NoFile
  Client = {c1, c2}
  Thread = {t1, t2}
  host <- HostOneEach
  Block = {b1, b2}
  NSEC = 100
  ClockSteps = {1}
  Overlap = FALSE
  RetryLimit = 1
  Calls = {"write"}
  Lossy = {}
  Refusable = {"store"}
  MaxTime = 4
  MaxLen = 2
SYMMETRY SymBlock
PROPERTY ModifiedIsFlushed
