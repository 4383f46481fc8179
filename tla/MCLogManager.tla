---------------------------- MODULE MCLogManager ----------------------------
EXTENDS LogManager, TLC

CONSTANTS t1, t2

TwoThreads == {t1, t2}

\* Record payloads of one unit fit; one of three units does not fit a
\* buffer of three units once the header is added, and is rejected.
PayloadLengths == {1, 3}

ThreadSymmetry == Permutations(TwoThreads)

=============================================================================
