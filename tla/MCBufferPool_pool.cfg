\* Three threads, three page numbers, two frames; one thread creates pages,
\* and its zero-page write may fail; write-backs succeed.
CONSTANTS
  t1 = t1
  t2 = t2
  t3 = t3
  None = None
  NoPage = NoPage
  Threads <- ThreeThreads
  Creators <- OneCreator
  NPages = 3
  Frames = 2
  MaxOps = 3
  FlushCanFail = FALSE
  CreateCanFail = TRUE
SPECIFICATION Spec
INVARIANT TypeOK
INVARIANT NoLostWrite
INVARIANT PinCountExact
PROPERTY NoSpuriousPinFailure
