\* Flush on close with one descriptor per machine; handlers that do not overlap;
\* only stores never fail.
SPECIFICATION Spec
CONSTANTS
  c1 = c1
  c2 = c2
  t1 = t1
  t2 = t2
  b1 = b1
  b2 = b2
  Junk = Junk
  NoFile = NoFile
  Client = {c1, c2}
  Thread = {t1, t2}
  host <- HostOneEach
  Block = {b1, b2}
  NSEC = 100
  ClockSteps = {1}
  Overlap = FALSE
  RetryLimit = 1
  Calls = {"write", "create", "unlink"}
  Lossy = {"getattr", "fetch", "create", "unlink"}
  Refusable = {"getattr", "fetch", "create", "unlink"}
  MaxTime = 3
  MaxLen = 2
SYMMETRY SymBlock
INVARIANT OpenHasCachedFile
INVARIANT NoStampAhead
INVARIANT ModifiedHasOwner
PROPERTY ModifiedIsFlushed
