\* Two threads each insert once: the unlatched height read in Insert.
CONSTANTS
  t1 = t1
  t2 = t2
  v1 = v1
  v2 = v2
  None = None
  Nil = Nil
  Absent = Absent
  Threads <- TwoThreads
  Keys <- TwoKeys
  Vals <- TwoVals
  MaxLevel = 2
  MaxNodes = 3
  MaxOps = 1
  Ops <- InsertOnly
  ScanN = 2
SPECIFICATION Spec
INVARIANT LevelsSorted
CHECK_DEADLOCK FALSE
