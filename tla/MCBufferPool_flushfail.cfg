\* Three threads, one creator; write-backs on eviction may fail.
CONSTANTS
  t1 = t1
  t2 = t2
  t3 = t3
  None = None
  NoPage = NoPage
  Threads <- ThreeThreads
  Creators <- OneCreator
  NPages = 3
  Frames = 2
  MaxOps = 3
  FlushCanFail = TRUE
  CreateCanFail = FALSE
SPECIFICATION Spec
INVARIANT NoLostWrite
CHECK_DEADLOCK FALSE
