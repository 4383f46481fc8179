\* Two threads insert, update and search: Update writes under a read latch.
CONSTANTS
  t1 = t1
  t2 = t2
  v1 = v1
  v2 = v2
  None = None
  Nil = Nil
  Absent = Absent
  Threads <- TwoThreads
  Keys <- TwoKeys
  Vals <- TwoVals
  MaxLevel = 2
  MaxNodes = 3
  MaxOps = 2
  Ops <- InsertUpdateSearch
  ScanN = 2
SPECIFICATION Spec
INVARIANT SearchNeverTorn
CHECK_DEADLOCK FALSE
