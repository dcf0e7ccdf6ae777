\* Three descriptors on one machine that may be killed at any time.
SPECIFICATION LocalSpec
CONSTANTS
  t1 = t1
  t2 = t2
  t3 = t3
  Thread = {t1, t2, t3}
  NoFile = NoFile
  Empty = Empty
  Torn = Torn
  MaxVersion = 4
  MaxFd = 6
SYMMETRY Threads
CONSTRAINT StillUndisturbed
INVARIANT LocalTypeOK
INVARIANT RestartIsSafe
INVARIANT OnlyWholeFilesAreStored
INVARIANT DescriptorsAreAccounted
