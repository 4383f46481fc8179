---------------------------- MODULE MCSkipList ----------------------------
EXTENDS SkipList, TLC

CONSTANTS t1, t2, v1, v2

OneThread  == {t1}
TwoThreads == {t1, t2}
TwoVals    == {v1, v2}
OneVal     == {v1}
TwoKeys    == {1, 2}
OneKey     == {1}

AllOps     == {"Insert", "Search", "Update", "Delete", "Scan"}
NoDelete   == {"Insert", "Search", "Update", "Scan"}
InsertOnly == {"Insert"}
InsertDelete == {"Insert", "Delete"}
InsertUpdateSearch == {"Insert", "Update", "Search"}
ScanOps    == {"Insert", "Scan"}
InsertSearchScan == {"Insert", "Search", "Scan"}

=============================================================================
