\* Three threads write pages of a two-frame pool, then the pool is torn
\* down while dirty pages are resident.
CONSTANTS
  t1 = t1
  t2 = t2
  t3 = t3
  None = None
  NoPage = NoPage
  Threads <- ThreeThreads
  Creators <- OneCreator
  NPages = 3
  Frames = 2
  MaxOps = 3
  FlushCanFail = FALSE
  CreateCanFail = TRUE
SPECIFICATION Spec
INVARIANT DurableAtShutdown
CHECK_DEADLOCK FALSE
