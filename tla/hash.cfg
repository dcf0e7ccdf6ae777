\* Two threads on a table of two buckets, with crashes.
SPECIFICATION HashSpec
CONSTANTS
  t1 = t1
  t2 = t2
  Thread = {t1, t2}
  Key = {"a", "b", "c"}
  bucket <- TwoBuckets
  Buckets = 2
  Value = {"time", "flag"}
  digits <- Texts
  Wrong = "wrong"
  NotFound = "notfound"
  Puts <- SomePuts
  MaxNodes = 4
INVARIANT HashTypeOK
INVARIANT ChainsEnd
INVARIANT NoKeyTwice
INVARIANT GetIsRegular
INVARIANT DatabaseIsTable
PROPERTY TableIsKept
SYMMETRY Threads
CHECK_DEADLOCK FALSE
