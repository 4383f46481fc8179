----------------------------- MODULE LogManager -----------------------------
(***************************************************************************)
(* The write-ahead log manager of YASE (Log/log_manager.cc), at byte      *)
(* granularity.  Each thread makes up to MaxCalls calls of LogInsert,     *)
(* LogUpdate, LogDelete, LogCommit, LogAbort, LogEnd or Flush.            *)
(*                                                                         *)
(* Every section under logbuf_latch is one atomic step, so the latch      *)
(* itself needs no variable.  A Log* call is three steps: the room test  *)
(* under the latch, an optional Flush when the record does not fit, and   *)
(* the append under the latch, which is taken again.  Other threads may   *)
(* run between them.                                                       *)
(***************************************************************************)
EXTENDS Naturals, Sequences

CONSTANTS
  Threads,        \* the calling threads; a record's id is its caller
  LogbufSize,     \* logbuf_size, in units of HdrSize bytes
  HdrSize,        \* sizeof(LogRecord) + sizeof(LSN)
  Lengths,        \* payload lengths passed to LogInsert / LogUpdate
  MaxCalls,       \* calls per thread
  IOCanFail       \* pwrite / fsync may fail

ASSUME HdrSize \in Nat \ {0} /\ LogbufSize \in Nat /\ Lengths \subseteq Nat

Types == {"Insert", "Update", "Delete", "Commit", "Abort", "End"}

VARIABLES
  logbuf,         \* records placed in the buffer: [type, id, off, lsn, size]
  logbuf_offset,
  current_lsn,
  durable_lsn,
  file,           \* records written and fsynced: [type, id, at, lsn, size]
  pc,             \* "idle", "flush" (room test failed), "append"
  rec,            \* the record a Log* call is writing: [type, size]
  calls,
  alive           \* the LogManager singleton has not been destroyed

vars == <<logbuf, logbuf_offset, current_lsn, durable_lsn, file, pc, rec, calls,
          alive>>

Init ==
  /\ logbuf = <<>>
  /\ logbuf_offset = 0
  /\ current_lsn = 0
  /\ durable_lsn = 0
  /\ file = <<>>
  /\ pc = [t \in Threads |-> "idle"]
  /\ rec = [t \in Threads |-> [type |-> "End", size |-> HdrSize]]
  /\ calls = [t \in Threads |-> 0]
  /\ alive = TRUE

-----------------------------------------------------------------------------
(* LogManager::Flush, under logbuf_latch: write logbuf[0..logbuf_offset)   *)
(* at durable_lsn, fsync, then durable_lsn = current_lsn and              *)
(* logbuf_offset = 0.  A failed pwrite or fsync returns false and changes  *)
(* nothing that a later Flush does not overwrite.  ok is the result.      *)

\* (Mutant: durable_lsn += current_lsn instead of durable_lsn = current_lsn.)
FlushAddLsn(ok) ==
  \/ /\ ok /\ logbuf_offset = 0
     /\ UNCHANGED <<logbuf, logbuf_offset, durable_lsn, file>>
  \/ /\ ok /\ logbuf_offset # 0
     /\ file' = file \o [i \in DOMAIN logbuf |->
                  [type |-> logbuf[i].type, id |-> logbuf[i].id, lsn |-> logbuf[i].lsn,
                   size |-> logbuf[i].size, at |-> durable_lsn + logbuf[i].off]]
     /\ durable_lsn' = durable_lsn + current_lsn
     /\ logbuf' = <<>>
     /\ logbuf_offset' = 0
  \/ /\ ~ok /\ logbuf_offset # 0 /\ IOCanFail
     /\ UNCHANGED <<logbuf, logbuf_offset, durable_lsn, file>>

\* (Mutant: the buffer is written but logbuf_offset is never reset.)
FlushKeepBuffer(ok) ==
  \/ /\ ok /\ logbuf_offset = 0
     /\ UNCHANGED <<logbuf, logbuf_offset, durable_lsn, file>>
  \/ /\ ok /\ logbuf_offset # 0
     /\ file' = file \o [i \in DOMAIN logbuf |->
                  [type |-> logbuf[i].type, id |-> logbuf[i].id, lsn |-> logbuf[i].lsn,
                   size |-> logbuf[i].size, at |-> durable_lsn + logbuf[i].off]]
     /\ durable_lsn' = current_lsn
     /\ UNCHANGED <<logbuf, logbuf_offset>>
  \/ /\ ~ok /\ logbuf_offset # 0 /\ IOCanFail
     /\ UNCHANGED <<logbuf, logbuf_offset, durable_lsn, file>>

FlushBuffer(ok) ==
  \/ /\ ok /\ logbuf_offset = 0
     /\ UNCHANGED <<logbuf, logbuf_offset, durable_lsn, file>>
  \/ /\ ok /\ logbuf_offset # 0
     /\ file' = file \o [i \in DOMAIN logbuf |->
                  [type |-> logbuf[i].type, id |-> logbuf[i].id, lsn |-> logbuf[i].lsn,
                   size |-> logbuf[i].size, at |-> durable_lsn + logbuf[i].off]]
     /\ durable_lsn' = current_lsn
     /\ logbuf' = <<>>
     /\ logbuf_offset' = 0
  \/ /\ ~ok /\ logbuf_offset # 0 /\ IOCanFail
     /\ UNCHANGED <<logbuf, logbuf_offset, durable_lsn, file>>

-----------------------------------------------------------------------------
(* The Log* entry points, up to the end of the room test.  The test is    *)
(* taken under logbuf_latch, and the latch is dropped before the flush.   *)

\* A call's argument checks fail (length <= 0, null record, invalid RID).
Reject(t) ==
  /\ pc[t] = "idle" /\ calls[t] < MaxCalls
  /\ calls' = [calls EXCEPT ![t] = @ + 1]
  /\ UNCHANGED <<logbuf, logbuf_offset, current_lsn, durable_lsn, file, pc, rec, alive>>

\* Start a Log* call for a record of the given type and size; the room
\* test decides whether it flushes first.
RoomTest(t, type, size) ==
  /\ pc[t] = "idle" /\ calls[t] < MaxCalls
  /\ calls' = [calls EXCEPT ![t] = @ + 1]
  /\ rec' = [rec EXCEPT ![t] = [type |-> type, size |-> size]]
  /\ pc' = [pc EXCEPT ![t] =
              IF logbuf_offset + size > LogbufSize THEN "flush" ELSE "append"]
  /\ UNCHANGED <<logbuf, logbuf_offset, current_lsn, durable_lsn, file, alive>>

\* LogInsert and LogUpdate reject a record larger than the whole buffer.
LogInsert(t, len) ==
  /\ len > 0
  /\ \/ HdrSize + len > LogbufSize /\ Reject(t)
     \/ HdrSize + len <= LogbufSize /\ RoomTest(t, "Insert", HdrSize + len)

LogUpdate(t, len) ==
  /\ len > 0
  /\ \/ HdrSize + len > LogbufSize /\ Reject(t)
     \/ HdrSize + len <= LogbufSize /\ RoomTest(t, "Update", HdrSize + len)

LogDelete(t) == RoomTest(t, "Delete", HdrSize)
LogCommit(t) == RoomTest(t, "Commit", HdrSize)
LogAbort(t)  == RoomTest(t, "Abort", HdrSize)
LogEnd(t)    == RoomTest(t, "End", HdrSize)

\* `if (should_flush) { if (!Flush()) return false; }`
FlushBeforeAppend(t) ==
  /\ pc[t] = "flush"
  /\ \E ok \in BOOLEAN :
       /\ FlushBuffer(ok)
       /\ pc' = [pc EXCEPT ![t] = IF ok THEN "append" ELSE "idle"]
  /\ UNCHANGED <<current_lsn, rec, calls, alive>>

\* (Mutant: current_lsn advanced before it is copied into the record.)
AppendRecordLsnLate(t) ==
  /\ pc[t] = "append"
  /\ logbuf' = Append(logbuf, [type |-> rec[t].type, id |-> t, off |-> logbuf_offset,
                               lsn |-> current_lsn + rec[t].size, size |-> rec[t].size])
  /\ current_lsn' = current_lsn + rec[t].size
  /\ logbuf_offset' = logbuf_offset + rec[t].size
  /\ pc' = [pc EXCEPT ![t] = "idle"]
  /\ UNCHANGED <<durable_lsn, file, rec, calls, alive>>

\* Under logbuf_latch again: place the record at logbuf + logbuf_offset,
\* its trailing LSN = current_lsn, then advance both counters.  Nothing
\* re-tests the room.
AppendRecord(t) ==
  /\ pc[t] = "append"
  /\ logbuf' = Append(logbuf, [type |-> rec[t].type, id |-> t, off |-> logbuf_offset,
                               lsn |-> current_lsn, size |-> rec[t].size])
  /\ current_lsn' = current_lsn + rec[t].size
  /\ logbuf_offset' = logbuf_offset + rec[t].size
  /\ pc' = [pc EXCEPT ![t] = "idle"]
  /\ UNCHANGED <<durable_lsn, file, rec, calls, alive>>

\* A caller's own Flush() (Transaction::Commit and Abort call it).
Flush(t) ==
  /\ pc[t] = "idle" /\ calls[t] < MaxCalls
  /\ calls' = [calls EXCEPT ![t] = @ + 1]
  /\ \E ok \in BOOLEAN : FlushBuffer(ok)
  /\ UNCHANGED <<current_lsn, pc, rec, alive>>

\* ~LogManager at engine shutdown, after every caller is done: Flush(),
\* whose result is ignored, then fsync.
Destroy ==
  /\ alive
  /\ \A t \in Threads : pc[t] = "idle" /\ calls[t] = MaxCalls
  /\ \E ok \in BOOLEAN : FlushBuffer(ok)
  /\ alive' = FALSE
  /\ UNCHANGED <<current_lsn, pc, rec, calls>>

Terminated == ~alive /\ UNCHANGED vars

Thread(t) ==
  \/ Reject(t)
  \/ \E len \in Lengths : LogInsert(t, len) \/ LogUpdate(t, len)
  \/ LogDelete(t) \/ LogCommit(t) \/ LogAbort(t) \/ LogEnd(t)
  \/ FlushBeforeAppend(t)
  \/ AppendRecord(t)
  \/ Flush(t)

Next == (\E t \in Threads : Thread(t)) \/ Destroy \/ Terminated

Spec == Init /\ [][Next]_vars

-----------------------------------------------------------------------------
(* Properties.                                                             *)

TypeOK ==
  /\ logbuf \in Seq([type : Types, id : Threads, off : Nat, lsn : Nat, size : Nat])
  /\ file \in Seq([type : Types, id : Threads, at : Nat, lsn : Nat, size : Nat])
  /\ {logbuf_offset, current_lsn} \subseteq Nat
  /\ durable_lsn \in 0..current_lsn
  /\ pc \in [Threads -> {"idle", "flush", "append"}]
  /\ calls \in [Threads -> 0..MaxCalls]

\* Reading the log file back gives the records in append order, packed
\* end to end from offset 0, each with a trailing LSN equal to its own
\* file offset (spec: byte offsets equal LSNs).  It ties the LSN copied
\* in by the Log* calls to the offset Flush writes at.
LogFileReplayable ==
  /\ \A i \in DOMAIN file : file[i].lsn = file[i].at
  /\ file # <<>> => file[1].at = 0
  /\ \A i \in 1..Len(file) - 1 : file[i + 1].at = file[i].at + file[i].size

\* Every record placed in the buffer lies inside the logbuf_size bytes
\* allocated for it: the room test and the append are one decision.
BufferBound == \A i \in DOMAIN logbuf : logbuf[i].off + logbuf[i].size <= LogbufSize

\* The log manager implements the abstract log: the records of the file
\* followed by those of the buffer are the log, and the file is its
\* durable prefix.
Strip(r) == [type |-> r.type, id |-> r.id]
Abs == INSTANCE AbstractLog WITH
         Records <- [type : Types, id : Threads],
         log <- [i \in 1..Len(file \o logbuf) |-> Strip((file \o logbuf)[i])],
         ndurable <- Len(file)
RefinesAbstractLog == Abs!Spec

=============================================================================
