\* Two threads insert and delete: Delete's unlatched height read.
CONSTANTS
  t1 = t1
  t2 = t2
  v1 = v1
  v2 = v2
  None = None
  Nil = Nil
  Absent = Absent
  Threads <- TwoThreads
  Keys <- TwoKeys
  Vals <- TwoVals
  MaxLevel = 2
  MaxNodes = 3
  MaxOps = 2
  Ops <- InsertDelete
  ScanN = 2
SPECIFICATION Spec
INVARIANT NoDanglingLink
CHECK_DEADLOCK FALSE
