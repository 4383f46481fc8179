----------------------------- MODULE LockManager -----------------------------
(***************************************************************************)
(* The record lock manager of YASE and the transactions that use it       *)
(* (src/yase-main/Lock/lock_manager.{h,cc}, src/yase-main/yase_internal.h).*)
(*                                                                         *)
(* Every transaction runs on a thread of its own.  The thread calls        *)
(* LockManager::AcquireLock on records and then Transaction::Commit or     *)
(* Transaction::Abort.  A lock head is a FIFO queue of requests guarded by *)
(* a head latch; AcquireLock holds that latch for its whole body (a        *)
(* condition wait releases it), and when AcquireLock decides under the     *)
(* wait-die rule that its transaction must die it calls Transaction::Abort *)
(* while still holding the latch, so that Abort's log calls and its        *)
(* ReleaseLock calls run with that latch held.  The lock-table latch only  *)
(* guards the map from RID to lock head; heads are never removed, so it   *)
(* orders nothing the model can observe and is left out.                   *)
(*                                                                         *)
(* The log manager is seen through the three calls the commit protocol     *)
(* makes: appending a control record, and Flush, which makes every record  *)
(* appended so far durable.  A record is [type, id].                       *)
(***************************************************************************)
EXTENDS Integers, Sequences, FiniteSets, SequencesExt, Relation

CONSTANTS
  Txns,            \* transaction timestamps; a smaller one is older
  Rids,            \* valid record ids
  InvalidRid,      \* RID(): the kInvalidValue sentinel
  NoTx,            \* no thread holds the head latch
  Modes,           \* lock modes the callers request, a subset of {"SH","XL"}
  MaxOps,          \* MaxOps[t]: AcquireLock calls transaction t makes at most
  TryValues,       \* values of try_lock the callers pass
  CallInvalid,     \* whether callers also pass RID() to AcquireLock
  AppAborts,       \* whether the application itself calls Abort
  IOCanFail,       \* whether a log append or a log flush may fail
  AllowReRequest   \* whether a caller may lock a record it already queued on

ASSUME /\ Txns \subseteq Nat /\ Txns # {}
       /\ InvalidRid \notin Rids /\ NoTx \notin Txns
       /\ Modes \subseteq {"SH", "XL"} /\ Modes # {}
       /\ MaxOps \in [Txns -> Nat] /\ TryValues \subseteq BOOLEAN
       /\ CallInvalid \in BOOLEAN /\ AppAborts \in BOOLEAN
       /\ IOCanFail \in BOOLEAN /\ AllowReRequest \in BOOLEAN

VARIABLES
  queue,     \* queue[r]: LockHead::requests, a sequence of LockRequest
  curMode,   \* curMode[r]: LockHead::current_mode
  latch,     \* latch[r]: the thread holding LockHead::latch across Abort
  locks,     \* locks[t]: Transaction::locks, a sequence of RIDs
  tstate,    \* tstate[t]: Transaction::state
  active,    \* Transaction::active_transactions, as a set
  wal,       \* every log record appended, in LSN order
  durable,   \* number of records of wal on stable storage (durable_lsn)
  pc,        \* pc[t]: where the thread of t is
  req,       \* req[t]: <<rid, mode>> of the AcquireLock t is in
  idx,       \* idx[t]: position of the range-for over locks in Commit/Abort
  allOk,     \* allOk[t]: Commit's all_locks_released
  ops,       \* ops[t]: AcquireLock calls made by t
  holding    \* holding[t]: <<rid, mode>> pairs AcquireLock returned true for
             \* and that t has not released since (the caller's view)

vars == <<queue, curMode, latch, locks, tstate, active, wal, durable,
          pc, req, idx, allOk, ops, holding>>

Request == [tx : Txns, mode : Modes, granted : BOOLEAN]
LogRecord == [type : {"Commit", "Abort", "End"}, id : Txns]
Pcs == {"idle", "waiting", "c_logcommit", "c_flush", "c_logend", "c_release",
        "c_remove", "a_logabort", "a_flush", "a_logend", "a_release",
        "a_remove", "done"}

-----------------------------------------------------------------------------
(* Helpers over a request queue.                                           *)

\* Index of the first request of t in q (the find_if over requests), or 0.
FirstReqOf(q, t) == SelectInSeq(q, LAMBDA e : e.tx = t)

\* The predicate of the condition wait in AcquireLock.
GrantedTo(q, t) == FirstReqOf(q, t) # 0 /\ q[FirstReqOf(q, t)].granted

\* A new request in mode m conflicts with a held request in mode h.
Conflicts(m, h) == m = "XL" \/ h = "XL"

\* AcquireLock's granted_lock: the queue is empty, or the request and every
\* queued request are SH.
\* (Mutant: the all-SH test over the queue dropped.)
GrantableAnySH(q, m) == q = <<>> \/ m = "SH"
Grantable(q, m) == q = <<>> \/ (m = "SH" /\ \A i \in DOMAIN q : q[i].mode = "SH")

\* Wait-die: a granted request conflicting with mode m belongs to a
\* transaction older than t, so t must abort itself.
\* (Mutant: the wait-die scan left out.)
DiesNever(q, t, m) == FALSE
Dies(q, t, m) ==
  \E i \in DOMAIN q : q[i].granted /\ Conflicts(m, q[i].mode) /\ t > q[i].tx

\* (Mutant: a new front XL request is not granted.)
GrantCountNoXL(q) ==
  IF q = <<>> \/ q[1].mode = "XL" THEN 0
  ELSE LET nonSH == {i \in DOMAIN q : q[i].mode # "SH"}
       IN  IF nonSH = {} THEN Len(q) ELSE Min(nonSH) - 1
\* How many requests at the front of q ReleaseLock grants: the head if it
\* is XL, otherwise every SH request up to the first non-SH one.
GrantCount(q) ==
  IF q = <<>> THEN 0
  ELSE IF q[1].mode = "XL" THEN 1
  ELSE LET nonSH == {i \in DOMAIN q : q[i].mode # "SH"}
       IN  IF nonSH = {} THEN Len(q) ELSE Min(nonSH) - 1

\* Release the latch t holds, if any (the unique_lock going out of scope).
Unlatch(t) == [r \in Rids |-> IF latch[r] = t THEN NoTx ELSE latch[r]]

Init ==
  /\ queue = [r \in Rids |-> <<>>]
  /\ curMode = [r \in Rids |-> "NL"]
  /\ latch = [r \in Rids |-> NoTx]
  /\ locks = [t \in Txns |-> <<>>]
  /\ tstate = [t \in Txns |-> "InProgress"]
  /\ active = Txns
  /\ wal = <<>>
  /\ durable = 0
  /\ pc = [t \in Txns |-> "idle"]
  /\ req = [t \in Txns |-> <<InvalidRid, "SH">>]
  /\ idx = [t \in Txns |-> 1]
  /\ allOk = [t \in Txns |-> TRUE]
  /\ ops = [t \in Txns |-> 0]
  /\ holding = [t \in Txns |-> {}]

\* ReleaseLock appends r to the lock list of every transaction it grants.
\* (Mutant: the lock lists are left alone.)
GrantLocksNone(r, grantees) == locks
GrantLocks(r, grantees) ==
  [u \in Txns |-> IF u \in grantees THEN Append(locks[u], r) ELSE locks[u]]

-----------------------------------------------------------------------------
(* LockManager::ReleaseLock(t, r), run with the head latch free.  It       *)
(* removes the first request of t, grants the new front of the queue,      *)
(* appends r to the lock list of every transaction it grants (whether or  *)
(* not that request was granted already) and sets current_mode.           *)
(* ok is its return value.                                                 *)
ReleaseLock(t, r, ok) ==
  LET i == FirstReqOf(queue[r], t)
      q == RemoveAt(queue[r], i)
      n == GrantCount(q)
      grantees == {q[k].tx : k \in 1..n}
  IN  /\ latch[r] = NoTx
      /\ ok = (i # 0)
      /\ IF i = 0
           THEN UNCHANGED <<queue, curMode, locks, holding>>
           ELSE /\ queue' = [queue EXCEPT ![r] =
                     [k \in DOMAIN q |->
                        IF k <= n THEN [q[k] EXCEPT !.granted = TRUE] ELSE q[k]]]
                /\ curMode' = [curMode EXCEPT ![r] =
                     IF q = <<>> THEN "NL" ELSE IF q[1].mode = "XL" THEN "XL" ELSE "SH"]
                /\ locks' = GrantLocks(r, grantees)
                /\ holding' = [holding EXCEPT ![t] = {h \in @ : h[1] # r}]

-----------------------------------------------------------------------------
(* LockManager::AcquireLock(t, r, m, try_lock) up to the point where it    *)
(* returns or blocks, all under the head latch of r.                       *)

\* The call returns to the caller, with result res.
Return(t, r, m, res) ==
  /\ pc' = [pc EXCEPT ![t] = "idle"]
  /\ holding' = IF res THEN [holding EXCEPT ![t] = @ \cup {<<r, m>>}] ELSE holding

\* AcquireLock on RID(): rid.IsValid() fails.
AcquireInvalid(t) ==
  /\ CallInvalid
  /\ pc[t] = "idle" /\ ops[t] < MaxOps[t]
  /\ ops' = [ops EXCEPT ![t] = @ + 1]
  /\ UNCHANGED <<queue, curMode, latch, locks, tstate, active, wal, durable,
                 pc, req, idx, allOk, holding>>

AcquireLock(t, r, m, try) ==
  LET q == queue[r]
      again == \E i \in DOMAIN q : q[i].tx = t /\ q[i].mode = m
      grantable == Grantable(q, m)
      dies == Dies(q, t, m)
      q2 == Append(q, [tx |-> t, mode |-> m, granted |-> grantable])
  IN
  /\ pc[t] = "idle" /\ ops[t] < MaxOps[t]
  /\ latch[r] = NoTx
  /\ AllowReRequest \/ FirstReqOf(q, t) = 0
  /\ ops' = [ops EXCEPT ![t] = @ + 1]
  /\ req' = [req EXCEPT ![t] = <<r, m>>]
  /\ \/ /\ try /\ q # <<>>
        /\ Return(t, r, m, FALSE)
        /\ UNCHANGED <<queue, curMode, latch, locks>>
     \/ /\ ~(try /\ q # <<>>) /\ again
        /\ Return(t, r, m, TRUE)
        /\ UNCHANGED <<queue, curMode, latch, locks>>
     \/ \* wait-die: the younger requester calls tx->Abort() holding the latch
        /\ ~(try /\ q # <<>>) /\ ~again /\ dies
        /\ latch' = [latch EXCEPT ![r] = t]
        /\ pc' = [pc EXCEPT ![t] = "a_logabort"]
        /\ UNCHANGED <<queue, curMode, locks, holding>>
     \/ /\ ~(try /\ q # <<>>) /\ ~again /\ ~dies /\ grantable
        /\ queue' = [queue EXCEPT ![r] = q2]
        /\ locks' = [locks EXCEPT ![t] = Append(@, r)]
        /\ curMode' = [curMode EXCEPT ![r] = m]
        /\ Return(t, r, m, TRUE)
        /\ UNCHANGED latch
     \/ \* enqueue and wait; the wait predicate is tested before sleeping
        /\ ~(try /\ q # <<>>) /\ ~again /\ ~dies /\ ~grantable
        /\ queue' = [queue EXCEPT ![r] = q2]
        /\ IF GrantedTo(q2, t)
             THEN Return(t, r, m, TRUE)
             ELSE pc' = [pc EXCEPT ![t] = "waiting"] /\ UNCHANGED holding
        /\ UNCHANGED <<curMode, latch, locks>>
  /\ UNCHANGED <<tstate, active, wal, durable, idx, allOk>>

\* The condition wait in AcquireLock returns: the latch is free again and
\* the first request of t on the head is granted.
WakeUp(t) ==
  LET r == req[t][1] IN
  /\ pc[t] = "waiting"
  /\ latch[r] = NoTx
  /\ GrantedTo(queue[r], t)
  /\ Return(t, r, req[t][2], TRUE)
  /\ UNCHANGED <<queue, curMode, latch, locks, tstate, active, wal, durable,
                 req, idx, allOk, ops>>

-----------------------------------------------------------------------------
(* Transaction::Commit and Transaction::Abort.  Each log call and each     *)
(* ReleaseLock is a step.  A failed log call sets state to aborted and     *)
(* returns at once, releasing nothing.  Returning from Abort ends the      *)
(* AcquireLock that called it, which drops the head latch.                 *)

\* The thread's transaction call returns and the thread has nothing left.
Finish(t) ==
  /\ pc' = [pc EXCEPT ![t] = "done"]
  /\ latch' = Unlatch(t)

\* A log call fails: state = kStateAborted; return.
FailLocally(t) ==
  /\ tstate' = [tstate EXCEPT ![t] = "Aborted"]
  /\ Finish(t)

\* Transaction::Commit: IsInProgress() holds for a thread that is idle.
Commit(t) ==
  /\ pc[t] = "idle" /\ tstate[t] = "InProgress"
  /\ pc' = [pc EXCEPT ![t] = "c_logcommit"]
  /\ UNCHANGED <<queue, curMode, latch, locks, tstate, active, wal, durable,
                 req, idx, allOk, ops, holding>>

\* Transaction::Abort called by the application.
Abort(t) ==
  /\ AppAborts
  /\ pc[t] = "idle" /\ tstate[t] = "InProgress"
  /\ pc' = [pc EXCEPT ![t] = "a_logabort"]
  /\ UNCHANGED <<queue, curMode, latch, locks, tstate, active, wal, durable,
                 req, idx, allOk, ops, holding>>

\* LogCommit / LogAbort / LogEnd (at pc from, next pc to).
LogControl(t, from, type, to) ==
  /\ pc[t] = from
  /\ \/ /\ wal' = Append(wal, [type |-> type, id |-> t])
        /\ pc' = [pc EXCEPT ![t] = to]
        /\ UNCHANGED <<latch, tstate>>
     \/ /\ IOCanFail
        /\ FailLocally(t)
        /\ UNCHANGED wal
  /\ UNCHANGED <<queue, curMode, locks, active, durable, req, idx, allOk,
                 ops, holding>>

\* (Mutant: Flush reports success without advancing durable_lsn.)
FlushLogNoAdvance(t, from, to) ==
  /\ pc[t] = from
  /\ pc' = [pc EXCEPT ![t] = to]
  /\ UNCHANGED <<queue, curMode, latch, locks, tstate, active, wal, durable,
                 req, idx, allOk, ops, holding>>

\* (Mutant: durable_lsn += current_lsn, adding the end of the log to the
\* old durable point instead of taking it.)
FlushLogAddLsn(t, from, to) ==
  /\ pc[t] = from
  /\ \/ /\ durable' = durable + Len(wal)
        /\ pc' = [pc EXCEPT ![t] = to]
        /\ UNCHANGED <<latch, tstate>>
     \/ /\ IOCanFail
        /\ FailLocally(t)
        /\ UNCHANGED durable
  /\ UNCHANGED <<queue, curMode, locks, active, wal, req, idx, allOk,
                 ops, holding>>

\* LogManager::Flush: the whole buffer becomes durable, or nothing does.
FlushLog(t, from, to) ==
  /\ pc[t] = from
  /\ \/ /\ durable' = Len(wal)
        /\ pc' = [pc EXCEPT ![t] = to]
        /\ UNCHANGED <<latch, tstate>>
     \/ /\ IOCanFail
        /\ FailLocally(t)
        /\ UNCHANGED durable
  /\ UNCHANGED <<queue, curMode, locks, active, wal, req, idx, allOk,
                 ops, holding>>

\* One iteration of `for (auto &rid : locks) ReleaseLock(this, rid)`.  The
\* loop reads the list as it grows: ReleaseLock may append to it.
ReleaseNext(t, from) ==
  /\ pc[t] = from
  /\ idx[t] <= Len(locks[t])
  /\ \E ok \in BOOLEAN :
       /\ ReleaseLock(t, locks[t][idx[t]], ok)
       /\ allOk' = IF from = "c_release"
                     THEN [allOk EXCEPT ![t] = @ /\ ok] ELSE allOk
  /\ idx' = [idx EXCEPT ![t] = @ + 1]
  /\ UNCHANGED <<latch, tstate, active, wal, durable, pc, req, ops>>

\* The loop over locks ends.
ReleaseDone(t, from, to) ==
  /\ pc[t] = from
  /\ idx[t] > Len(locks[t])
  /\ pc' = [pc EXCEPT ![t] = to]
  /\ UNCHANGED <<queue, curMode, latch, locks, tstate, active, wal, durable,
                 req, idx, allOk, ops, holding>>

\* Commit leaves active_transactions; committed iff every release succeeded.
CommitRemove(t) ==
  /\ pc[t] = "c_remove"
  /\ active' = active \ {t}
  /\ tstate' = [tstate EXCEPT ![t] = IF allOk[t] THEN "Committed" ELSE "Aborted"]
  /\ Finish(t)
  /\ UNCHANGED <<queue, curMode, locks, wal, durable, req, idx, allOk, ops,
                 holding>>

\* Abort leaves active_transactions and returns its timestamp.
AbortRemove(t) ==
  /\ pc[t] = "a_remove"
  /\ active' = active \ {t}
  /\ tstate' = [tstate EXCEPT ![t] = "Aborted"]
  /\ Finish(t)
  /\ UNCHANGED <<queue, curMode, locks, wal, durable, req, idx, allOk, ops,
                 holding>>

\* Every thread has returned: the workload is over.
Terminated ==
  /\ \A t \in Txns : pc[t] = "done"
  /\ UNCHANGED vars

Thread(t) ==
  \/ AcquireInvalid(t)
  \/ \E r \in Rids, m \in Modes, try \in TryValues : AcquireLock(t, r, m, try)
  \/ WakeUp(t)
  \/ Commit(t)
  \/ Abort(t)
  \/ LogControl(t, "c_logcommit", "Commit", "c_flush")
  \/ FlushLog(t, "c_flush", "c_logend")
  \/ LogControl(t, "c_logend", "End", "c_release")
  \/ ReleaseNext(t, "c_release")
  \/ ReleaseDone(t, "c_release", "c_remove")
  \/ CommitRemove(t)
  \/ LogControl(t, "a_logabort", "Abort", "a_flush")
  \/ FlushLog(t, "a_flush", "a_logend")
  \/ LogControl(t, "a_logend", "End", "a_release")
  \/ ReleaseNext(t, "a_release")
  \/ ReleaseDone(t, "a_release", "a_remove")
  \/ AbortRemove(t)

Next == (\E t \in Txns : Thread(t)) \/ Terminated

\* Threads are preemptive OS threads: a thread that can run keeps running.
Spec == Init /\ [][Next]_vars /\ \A t \in Txns : WF_vars(Thread(t))

-----------------------------------------------------------------------------
(* Properties.                                                             *)

TypeOK ==
  /\ queue \in [Rids -> Seq(Request)]
  /\ curMode \in [Rids -> {"NL", "SH", "XL"}]
  /\ latch \in [Rids -> Txns \cup {NoTx}]
  /\ locks \in [Txns -> Seq(Rids)]
  /\ tstate \in [Txns -> {"InProgress", "Committed", "Aborted"}]
  /\ active \subseteq Txns
  /\ wal \in Seq(LogRecord)
  /\ durable \in 0..Len(wal)
  /\ pc \in [Txns -> Pcs]
  /\ \A t \in Txns : ops[t] \in 0..MaxOps[t]
  /\ holding \in [Txns -> SUBSET (Rids \X Modes)]

\* Position of the record <<type, t>> in the log, 0 if it is not there.
RecIdx(type, t) == SelectInSeq(wal, LAMBDA e : e = [type |-> type, id |-> t])

\* Rids on which t has a granted request.
GrantedRids(t) ==
  {r \in Rids : \E i \in DOMAIN queue[r] : queue[r][i].tx = t /\ queue[r][i].granted}

\* AcquireLock(t, r, XL) returned true and t has not released r: then no
\* other transaction was told it holds r, in any mode.  This is what the
\* table layer relies on; it needs the grant test, the wait-die scan, the
\* condition-wait predicate and ReleaseLock's grants to agree.
LockCompatibility ==
  \A r \in Rids, t, u \in Txns :
    (t # u /\ <<r, "XL">> \in holding[t]) => \A m \in Modes : <<r, m>> \notin holding[u]

\* While a transaction runs, Transaction::locks lists exactly the records
\* on which it has a granted request (spec 8.1).  Grants are made both by
\* AcquireLock, for its own transaction, and by ReleaseLock of another
\* transaction, for a waiter.
LockListExact ==
  \A t \in Txns : pc[t] \in {"idle", "waiting"} => ToSet(locks[t]) = GrantedRids(t)

\* Write-ahead commit: a transaction releases its first lock, or ends
\* committed, only after its Commit record is durable, and its End record
\* follows the Commit record.
CommitDurableBeforeRelease ==
  \A t \in Txns :
    (pc[t] \in {"c_release", "c_remove"} \/ tstate[t] = "Committed") =>
      /\ RecIdx("Commit", t) \in 1..durable
      /\ RecIdx("Commit", t) < RecIdx("End", t)

\* Commit's outcome agrees with the durable log: a transaction whose
\* Commit record is on stable storage does not end aborted.
CommitOutcomeMatchesLog ==
  \A t \in Txns : tstate[t] = "Aborted" => RecIdx("Commit", t) \notin 1..durable

\* t is blocked in AcquireLock behind a conflicting request of u that is
\* ahead of it in the FIFO queue; only u's own thread can remove it.
WaitsFor ==
  [t, u \in Txns |->
     /\ pc[t] = "waiting"
     /\ LET q == queue[req[t][1]]
        IN  \E i \in 1..(FirstReqOf(q, t) - 1) :
              q[i].tx = u /\ Conflicts(req[t][2], q[i].mode)]

\* Wait-die keeps the waits-for graph acyclic (spec 5, "Deadlock handling").
NoWaitCycle ==
  LET tc == TransitiveClosure(WaitsFor, Txns) IN \A t \in Txns : ~tc[t, t]

\* t, releasing its locks, needs the head latch that u holds while u runs
\* Abort from inside AcquireLock.
LatchWait ==
  [t, u \in Txns |->
     /\ pc[t] \in {"c_release", "a_release"}
     /\ idx[t] <= Len(locks[t])
     /\ latch[locks[t][idx[t]]] = u]

\* No thread waits, directly or through others, for a head latch that it
\* holds itself: Abort's releases never deadlock on latches.
NoLatchCycle ==
  LET tc == TransitiveClosure(LatchWait, Txns) IN \A t \in Txns : ~tc[t, t]

\* Every transaction's thread eventually returns from Commit or Abort.
AllFinish == \A t \in Txns : <>(pc[t] = "done")

=============================================================================
