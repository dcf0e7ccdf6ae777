\* README.md:59 against two stores, each of which takes the time by path
\* after the other's write.
SPECIFICATION ServerSpec
CONSTANTS
  h1 = h1
  h2 = h2
  h3 = h3
  i1 = i1
  i2 = i2
  b1 = b1
  b2 = b2
  Junk = Junk
  NoInode = NoInode
  Handler = {h1, h2}
  Inode = {i1, i2}
  Block = {b1, b2}
  Image <- Uneven
  NSEC = 100
  ClockSteps = {1}
  JunkTime <- AnyJunk
  MaxTime = 5
SYMMETRY SymThreads
INVARIANT AnswersVouch
