\* One table client and two file clients; one-slot data pages, so that
\* the file grows to five data pages over two directory pages.
CONSTANTS
  PinCanFail = FALSE
  CreateCanFail = FALSE
  NoPage = NoPage
  t1 = t1
  t2 = t2
  t3 = t3
  None = None
  Threads <- ThreeThreads
  TableClients <- OneTable
  FileClients <- FileT2T3
  E = 3
  Cap = 1
  NData = 5
  MaxOps = 3
  LogCanFail = FALSE
SPECIFICATION Spec
INVARIANT AllocationExact
CHECK_DEADLOCK FALSE
