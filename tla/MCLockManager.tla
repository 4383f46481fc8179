---------------------------- MODULE MCLockManager ----------------------------
(* Instantiates LockManager for TLC: record ids and sentinels are model    *)
(* values, transactions are the timestamps 1..N.                           *)
EXTENDS LockManager

CONSTANTS r1, r2

\* Two transactions, one of them older.
Txns2 == {1, 2}
\* Three transactions: the smallest number of actors a waits-for or latch
\* cycle across two records needs under wait-die.
Txns3 == {1, 2, 3}
\* Bounds on AcquireLock calls per transaction.
Ops2x1 == [t \in Txns2 |-> 1]
Ops2x2 == [t \in Txns2 |-> 2]
Ops3x2 == [t \in Txns3 |-> 2]
\* The oldest transaction makes one call, the two younger ones two.
Ops3Latch == (1 :> 1) @@ (2 :> 2) @@ (3 :> 2)
OneRid == {r1}
TwoRids == {r1, r2}
BothModes == {"SH", "XL"}
XLOnly == {"XL"}
AnyTry == BOOLEAN
NoTry == {FALSE}
\* The two records are interchangeable (invariant checking only).
RidSymmetry == Permutations(TwoRids)
=============================================================================
