\* One table client and two file clients share a paged file of three
\* entries per directory page, two-slot data pages and at most four data
\* pages: the fourth needs a second directory page.
CONSTANTS
  PinCanFail = FALSE
  CreateCanFail = FALSE
  NoPage = NoPage
  t1 = t1
  t2 = t2
  t3 = t3
  None = None
  Threads <- ThreeThreads
  TableClients <- OneTable
  FileClients <- FileT2T3
  E = 3
  Cap = 2
  NData = 4
  MaxOps = 3
  LogCanFail = FALSE
SPECIFICATION Spec
INVARIANT TypeOK
INVARIANT AllocationExact
INVARIANT FreeSlotsExact
INVARIANT RidReadsBack
