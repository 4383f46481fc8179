\* One thread, every operation, four calls, two keys, two levels.
CONSTANTS
  t1 = t1
  t2 = t2
  v1 = v1
  v2 = v2
  None = None
  Nil = Nil
  Absent = Absent
  Threads <- OneThread
  Keys <- TwoKeys
  Vals <- TwoVals
  MaxLevel = 2
  MaxNodes = 3
  MaxOps = 4
  Ops <- AllOps
  ScanN = 2
SPECIFICATION Spec
INVARIANT TypeOK
INVARIANT LevelsSorted
INVARIANT NoDanglingLink
PROPERTY RefinesAbstractMap
PROPERTY SearchLinearizable
