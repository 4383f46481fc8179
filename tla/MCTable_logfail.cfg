\* The table run with failing log calls: a failed LogInsert leaves its
\* record in the page.
CONSTANTS
  PinCanFail = FALSE
  CreateCanFail = FALSE
  NoPage = NoPage
  t1 = t1
  t2 = t2
  t3 = t3
  None = None
  Threads <- ThreeThreads
  TableClients <- OneTable
  FileClients <- FileT2T3
  E = 3
  Cap = 2
  NData = 4
  MaxOps = 3
  LogCanFail = TRUE
SPECIFICATION Spec
INVARIANT FreeSlotsExact
CHECK_DEADLOCK FALSE




