\* Cache validation with one descriptor per machine and handlers that do not overlap;
\* fetches and stores fail.
SPECIFICATION Spec
CONSTANTS
  c1 = c1
  c2 = c2
  t1 = t1
  t2 = t2
  b1 = b1
  b2 = b2
  Junk = Junk
  NoFile = NoFile
  Client = {c1, c2}
  Thread = {t1, t2}
  host <- HostOneEach
  Block = {b1, b2}
  NSEC = 100
  ClockSteps = {1}
  Overlap = FALSE
  RetryLimit = 1
  Calls = {"write"}
  Lossy = {"fetch", "store"}
  Refusable = {"fetch", "store"}
  MaxTime = 3
  MaxLen = 2
INVARIANT TypeOK
INVARIANT TrustedCopyIsCurrent
