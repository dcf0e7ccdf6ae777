\* README.md:53 against a second open of the file on the same machine.
SPECIFICATION Spec
CONSTANTS
  c1 = c1
  c2 = c2
  t1 = t1
  t2 = t2
  b1 = b1
  b2 = b2
  Junk = Junk
  NoFile = NoFile
  Client = {c1}
  Thread = {t1, t2}
  host <- HostShared
  Block = {b1, b2}
  NSEC = 100
  ClockSteps = {1}
  Overlap = FALSE
  RetryLimit = 1
  Calls = {"write"}
  Lossy = {}
  Refusable = {}
  MaxTime = 4
  MaxLen = 2
SYMMETRY SymBlock
PROPERTY ModifiedIsFlushed
