------------------------------- MODULE MCTable -------------------------------
EXTENDS Table, TLC

CONSTANTS t1, t2, t3

NoThreads    == {}

OneTable     == {t1}
TwoTable     == {t1, t2}
FileT2       == {t2}
FileT2T3     == {t2, t3}
TwoThreads   == {t1, t2}
ThreeThreads == {t1, t2, t3}

=============================================================================
