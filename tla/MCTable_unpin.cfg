\* A table client and a file client on a pool that may be full: a failed
\* pin of the new data page makes AllocatePage unpin its directory page twice.
CONSTANTS
  PinCanFail = TRUE
  CreateCanFail = FALSE
  NoPage = NoPage
  t1 = t1
  t2 = t2
  t3 = t3
  None = None
  Threads <- TwoThreads
  TableClients <- OneTable
  FileClients <- FileT2
  E = 3
  Cap = 1
  NData = 3
  MaxOps = 2
  LogCanFail = FALSE
SPECIFICATION Spec
INVARIANT PinBalanced
CHECK_DEADLOCK FALSE
