\* Two table clients insert, read, update and delete on one-slot pages.
CONSTANTS
  PinCanFail = FALSE
  CreateCanFail = FALSE
  NoPage = NoPage
  t1 = t1
  t2 = t2
  t3 = t3
  None = None
  Threads <- TwoThreads
  TableClients <- TwoTable
  FileClients <- NoThreads
  E = 3
  Cap = 1
  NData = 4
  MaxOps = 2
  LogCanFail = FALSE
SPECIFICATION Spec
INVARIANT RidReadsBack
CHECK_DEADLOCK FALSE
