CONSTANTS
  t1 = t1
  t2 = t2
  Threads <- TwoThreads
  LogbufSize = 3
  HdrSize = 1
  Lengths <- PayloadLengths
  MaxCalls = 2
  IOCanFail = FALSE
SPECIFICATION Spec
SYMMETRY ThreadSymmetry
INVARIANT BufferBound
