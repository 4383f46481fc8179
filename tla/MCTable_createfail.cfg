\* A table client and a file client; the data file's CreatePage may fail
\* inside AllocatePage, which goes on with page number 0xFFFF.
CONSTANTS
  PinCanFail = FALSE
  CreateCanFail = TRUE
  NoPage = NoPage
  t1 = t1
  t2 = t2
  t3 = t3
  None = None
  Threads <- TwoThreads
  TableClients <- OneTable
  FileClients <- FileT2
  E = 3
  Cap = 1
  NData = 3
  MaxOps = 2
  LogCanFail = FALSE
SPECIFICATION Spec
INVARIANT AllocationExact
CHECK_DEADLOCK FALSE
