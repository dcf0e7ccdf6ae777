\* Two descriptors on one machine, handlers that overlap, and any RPC may fail.
SPECIFICATION FairSpec
CONSTANTS
  c1 = c1
  c2 = c2
  t1 = t1
  t2 = t2
  b1 = b1
  b2 = b2
  Junk = Junk
  NoFile = NoFile
  Client = {c1}
  Thread = {t1, t2}
  host <- HostShared
  Block = {b1}
  NSEC = 100
  ClockSteps = {1}
  Overlap = TRUE
  RetryLimit = 1
  Calls = {"write", "create", "truncate"}
  Lossy = {"getattr", "fetch", "store", "create"}
  Refusable = {"getattr", "fetch", "store", "create"}
  MaxTime = 3
  MaxLen = 2
INVARIANT NoStampAhead
PROPERTY CallsReturn
