\* Close-to-open consistency of three machines: no RPC fails, no handlers overlap.
SPECIFICATION Spec
CONSTANTS
  c1 = c1
  c2 = c2
  c3 = c3
  t1 = t1
  t2 = t2
  t3 = t3
  b1 = b1
  b2 = b2
  Junk = Junk
  NoFile = NoFile
  Client = {c1, c2, c3}
  Thread = {t1, t2, t3}
  host <- HostOneEach
  Block = {b1, b2}
  NSEC = 100
  ClockSteps = {1}
  Overlap = FALSE
  RetryLimit = 1
  Calls = {"write"}
  Lossy = {}
  Refusable = {}
  MaxTime = 3
  MaxLen = 1
PROPERTY ImplementsCloseToOpen
