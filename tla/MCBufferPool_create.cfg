\* Two threads both create pages; a zero-page write fails between them.
CONSTANTS
  t1 = t1
  t2 = t2
  t3 = t3
  None = None
  NoPage = NoPage
  Threads <- TwoThreads
  Creators <- TwoThreads
  NPages = 3
  Frames = 2
  MaxOps = 3
  FlushCanFail = FALSE
  CreateCanFail = TRUE
SPECIFICATION Spec
INVARIANT CreatedDistinct
CHECK_DEADLOCK FALSE
