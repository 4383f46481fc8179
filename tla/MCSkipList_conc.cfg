\* Two threads, Insert, Search and Scan, two calls each (concurrent
\* Updates tear payloads: MCSkipList_torn.cfg).
CONSTANTS
  t1 = t1
  t2 = t2
  v1 = v1
  v2 = v2
  None = None
  Nil = Nil
  Absent = Absent
  Threads <- TwoThreads
  Keys <- TwoKeys
  Vals <- TwoVals
  MaxLevel = 2
  MaxNodes = 3
  MaxOps = 2
  Ops <- InsertSearchScan
  ScanN = 2
SPECIFICATION Spec
PROPERTY RefinesAbstractMap
PROPERTY SearchLinearizable
