---------------------------- MODULE MCBufferPool ----------------------------
EXTENDS BufferPool, TLC

CONSTANTS t1, t2, t3

TwoThreads   == {t1, t2}
ThreeThreads == {t1, t2, t3}
OneCreator   == {t1}

=============================================================================
