\* Two threads insert and scan: Scan unlocks the upper levels twice.
CONSTANTS
  t1 = t1
  t2 = t2
  v1 = v1
  v2 = v2
  None = None
  Nil = Nil
  Absent = Absent
  Threads <- TwoThreads
  Keys <- TwoKeys
  Vals <- TwoVals
  MaxLevel = 2
  MaxNodes = 3
  MaxOps = 2
  Ops <- ScanOps
  ScanN = 2
SPECIFICATION Spec
INVARIANT LatchDiscipline
CHECK_DEADLOCK FALSE
