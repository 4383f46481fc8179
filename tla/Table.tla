-------------------------------- MODULE Table --------------------------------
(***************************************************************************)
(* The table of YASE (Storage/table.cc) over its paged file.  Table       *)
(* clients insert, read, update and delete records; file clients use the *)
(* paged file's API on the same file.  Each section of Table code that    *)
(* holds a data or directory page latch is one step; the table latch,    *)
(* held across AllocatePage, is the variable tlatch.  Log calls succeed   *)
(* unless LogCanFail; the log itself is modelled in LogManager.tla.       *)
(*                                                                         *)
(* A RID is a pair <<page, slot>>; a record is a fresh positive number.   *)
(* DataPage (page.h) is not in the sources: its Insert takes the first    *)
(* free slot, Read, Update and Delete act on a live slot (spec 3.2).      *)
(***************************************************************************)
EXTENDS PagedFile

CONSTANTS
  TableClients,  \* threads that call Table operations
  LogCanFail,    \* LogInsert, LogDelete and LogUpdate may fail
  None

VARIABLES
  nfp,       \* Table::next_free_pid
  tlatch,    \* Table::latch: its holder or None
  local,     \* Insert: local_free_pid; Delete: the page of its rid
  rid,       \* Insert: the RID it built
  rec,       \* Insert: the record being inserted
  nextRec,   \* the next fresh record
  tret,      \* result of the last Read: the record, or 0 for false
  rids       \* history: the RIDs Insert returned and their current records

vars == <<fileVars, nfp, tlatch, local, rid, rec, nextRec, tret, rids>>

LogOutcomes == IF LogCanFail THEN BOOLEAN ELSE {TRUE}

\* File::File, then Table::Table's AllocatePage, which on the new file
\* creates page 0 and marks entry 0 of directory page 0.
Init ==
  /\ FileInit(1)
  /\ nfp = 0 /\ tlatch = None
  /\ local = [t \in Threads |-> 0]
  /\ rid = [t \in Threads |-> <<0, 0>>]
  /\ rec = [t \in Threads |-> 0]
  /\ nextRec = 1
  /\ tret = [t \in Threads |-> 0]
  /\ rids = {}

-----------------------------------------------------------------------------
(* Table::Insert.                                                          *)

Idle(t) == t \in TableClients /\ pc[t] = "idle" /\ ops[t] < MaxOps

InsertCall(t) ==
  /\ Idle(t)
  /\ ops' = [ops EXCEPT ![t] = @ + 1]
  /\ rec' = [rec EXCEPT ![t] = nextRec]
  /\ nextRec' = nextRec + 1
  /\ pc' = [pc EXCEPT ![t] = "i_snap"]
  /\ UNCHANGED <<dpc, dirpc, entry, slots, retpc, sdir, dnum, dpid, fret, owned,
                 mine, crashed, overUnpin, nfp, tlatch, local, rid, tret, rids>>

\* retry: local_free_pid = next_free_pid.
Snapshot(t) ==
  /\ pc[t] = "i_snap"
  /\ local' = [local EXCEPT ![t] = nfp]
  /\ pc' = [pc EXCEPT ![t] = "i_ins"]
  /\ UNCHANGED <<dpc, dirpc, entry, slots, retpc, sdir, dnum, dpid, fret, ops, owned,
                 mine, crashed, overUnpin, nfp, tlatch, rid, rec, nextRec, tret, rids>>

\* Pin local_free_pid (nullptr, also for PageId(): return RID()) and, under
\* its page latch, DataPage::Insert.  On success build RID(next_free_pid,
\* slot) -- next_free_pid read again, not local_free_pid -- and LogInsert;
\* a failed log returns RID() with the record left in the page.  A full
\* page: unlock, unpin, and go for the table latch.
InsertSlot(t) ==
  LET p    == local[t]
      free == {s \in Slots : slots[p][s] = 0}
  IN
  /\ pc[t] = "i_ins"
  /\ \E pinned \in PinOutcomes, ok \in LogOutcomes :
       IF p = NoPage \/ ~pinned
         THEN pc' = [pc EXCEPT ![t] = "idle"] /\ UNCHANGED <<slots, rid>>
       ELSE IF free # {}
         THEN LET s == Min(free) IN
              /\ slots' = [slots EXCEPT ![p][s] = rec[t]]
              /\ rid' = [rid EXCEPT ![t] = <<nfp, s>>]
              /\ pc' = [pc EXCEPT ![t] = IF ok THEN "i_dir" ELSE "idle"]
         ELSE /\ pc' = [pc EXCEPT ![t] = "i_latch"]
              /\ UNCHANGED <<slots, rid>>
  /\ UNCHANGED <<dpc, dirpc, entry, retpc, sdir, dnum, dpid, fret, ops, owned, mine,
                 crashed, overUnpin, nfp, tlatch, local, rec, nextRec, tret, rids>>

\* Under Table::latch: if next_free_pid moved since the snapshot, retry;
\* else next_free_pid = file.AllocatePage(), the latch held throughout.
TableLatch(t) ==
  /\ pc[t] = "i_latch" /\ tlatch = None
  /\ IF nfp # local[t]
       THEN /\ pc' = [pc EXCEPT ![t] = "i_snap"]
            /\ UNCHANGED <<retpc, sdir, tlatch>>
       ELSE /\ AllocCall(t, "i_next")
            /\ tlatch' = t
  /\ UNCHANGED <<dpc, dirpc, entry, slots, dnum, dpid, fret, ops, owned, mine,
                 crashed, overUnpin, nfp, local, rid, rec, nextRec, tret, rids>>

\* next_free_pid = the page AllocatePage returned and the latch released;
\* retry, or return RID() if that page is invalid.
SetNextFree(t) ==
  /\ pc[t] = "i_next"
  /\ nfp' = dpid[t]
  /\ tlatch' = None
  /\ pc' = [pc EXCEPT ![t] = IF dpid[t] = NoPage THEN "idle" ELSE "i_snap"]
  /\ UNCHANGED <<dpc, dirpc, entry, slots, retpc, sdir, dnum, dpid, fret, ops, owned,
                 mine, crashed, overUnpin, local, rid, rec, nextRec, tret, rids>>

\* Pin the directory page of next_free_pid (read a third time; a failed
\* pin returns RID()) and, under its latch, return RID() if its entry has
\* no free slot, else decrement free_slots and return the RID.
InsertDir(t) ==
  LET n == nfp IN
  /\ pc[t] = "i_dir"
  /\ \E pinned \in PinOutcomes :
       IF pinned /\ DirPinned(n) /\ entry[n].free # 0
         THEN /\ entry' = [entry EXCEPT ![n].free = @ - 1]
              /\ rids' = rids \cup {[p |-> rid[t][1], s |-> rid[t][2], r |-> rec[t]]}
         ELSE UNCHANGED <<entry, rids>>
  /\ pc' = [pc EXCEPT ![t] = "idle"]
  /\ UNCHANGED <<dpc, dirpc, slots, retpc, sdir, dnum, dpid, fret, ops, owned, mine,
                 crashed, overUnpin, nfp, tlatch, local, rid, rec, nextRec, tret>>

-----------------------------------------------------------------------------
(* Table::Read, Update and Delete of a RID an Insert returned.  A failed  *)
(* PinPage returns false.                                                  *)

\* Table::Read: PageExists(rid.GetPageNum()) converts the page number to a
\* PageId value, whose own page number is that number >> 16, and pins its
\* directory page; then pin the page and DataPage::Read the slot.
Read(t, x) ==
  LET q == x.p \div 65536 IN
  \E dirOk, dataOk \in PinOutcomes :
  /\ tret' = [tret EXCEPT ![t] =
                IF DirPinned(q) /\ dirOk /\ entry[q].allocated /\ dataOk
                  THEN slots[x.p][x.s] ELSE 0]
  /\ UNCHANGED <<slots, nfp, local, nextRec, rids>>

\* Table::Update: pin, LogUpdate, and on success DataPage::Update of a
\* live slot.
Update(t, x) ==
  \E pinned \in PinOutcomes, ok \in LogOutcomes :
    LET done == pinned /\ ok /\ slots[x.p][x.s] # 0 IN
    /\ slots' = IF done THEN [slots EXCEPT ![x.p][x.s] = nextRec] ELSE slots
    /\ rids' = IF done THEN (rids \ {x}) \cup {[x EXCEPT !.r = nextRec]} ELSE rids
    /\ nextRec' = nextRec + 1
    /\ UNCHANGED <<tret, nfp, local>>

\* (Mutant: Delete returns without updating the directory.)
DeleteNoDir(t, x) ==
  \E pinned \in PinOutcomes, ok \in LogOutcomes :
    LET done == pinned /\ ok /\ slots[x.p][x.s] # 0 IN
    /\ slots' = IF done THEN [slots EXCEPT ![x.p][x.s] = 0] ELSE slots
    /\ rids' = IF done THEN rids \ {x} ELSE rids
    /\ local' = [local EXCEPT ![t] = x.p]
    /\ pc' = [pc EXCEPT ![t] = "idle"]
    /\ UNCHANGED <<tret, nfp, nextRec>>

\* Table::Delete, data page part: pin, LogDelete, and on success
\* DataPage::Delete of a live slot; then unlock, unpin.
Delete(t, x) ==
  \E pinned \in PinOutcomes, ok \in LogOutcomes :
    LET done == pinned /\ ok /\ slots[x.p][x.s] # 0 IN
    /\ slots' = IF done THEN [slots EXCEPT ![x.p][x.s] = 0] ELSE slots
    /\ rids' = IF done THEN rids \ {x} ELSE rids
    /\ local' = [local EXCEPT ![t] = x.p]
    /\ pc' = [pc EXCEPT ![t] = IF done THEN "d_dir" ELSE "idle"]
    /\ UNCHANGED <<tret, nfp, nextRec>>

\* Table::Delete, directory part: pin the directory page of the rid (a
\* failed pin returns false with the record already deleted) and
\* increment free_slots unless it is already at capacity.
DeleteDir(t) ==
  LET n == local[t] IN
  /\ pc[t] = "d_dir"
  /\ \E pinned \in PinOutcomes :
       entry' = IF pinned /\ entry[n].free < Cap
                  THEN [entry EXCEPT ![n].free = @ + 1] ELSE entry
  /\ pc' = [pc EXCEPT ![t] = "idle"]
  /\ UNCHANGED <<dpc, dirpc, slots, retpc, sdir, dnum, dpid, fret, ops, owned, mine,
                 crashed, overUnpin, nfp, tlatch, local, rid, rec, nextRec, tret, rids>>

RecordCall(t) ==
  /\ Idle(t)
  /\ ops' = [ops EXCEPT ![t] = @ + 1]
  /\ \E x \in rids :
       \/ Read(t, x) /\ UNCHANGED pc
       \/ Update(t, x) /\ UNCHANGED pc
       \/ Delete(t, x)
  /\ UNCHANGED <<dpc, dirpc, entry, retpc, sdir, dnum, dpid, fret, owned, mine,
                 crashed, overUnpin, tlatch, rid, rec>>

-----------------------------------------------------------------------------

TableClient(t) ==
  \/ InsertCall(t) \/ Snapshot(t) \/ InsertSlot(t) \/ TableLatch(t)
  \/ SetNextFree(t) \/ InsertDir(t) \/ RecordCall(t) \/ DeleteDir(t)

FileStep(t) ==
  \/ AllocStep(t) /\ UNCHANGED <<nfp, tlatch, local, rid, rec, nextRec, tret, rids>>
  \/ FileClient(t) /\ UNCHANGED <<nfp, tlatch, local, rid, rec, nextRec, tret, rids>>

\* Every thread has made its calls and returned.
Done == \A t \in Threads : pc[t] = "idle" /\ ops[t] = MaxOps

\* One step of thread t; a crashed process runs nothing more.
Thread(t) == ~crashed /\ (TableClient(t) \/ FileStep(t))

Next ==
  \/ \E t \in Threads : Thread(t)
  \/ (Done \/ crashed) /\ UNCHANGED vars

Spec == Init /\ [][Next]_vars

-----------------------------------------------------------------------------
(* Properties.                                                             *)

TypeOK ==
  /\ FileTypeOK
  /\ nfp \in Nums \cup {NoPage} /\ tlatch \in Threads \cup {None}
  /\ rids \subseteq [p : Nums, s : Slots, r : Nat]
  /\ slots \in [Nums -> [Slots -> Nat]]

\* Every RID an Insert returned reads back the record last written at it
\* (spec 8.2: read(rid) == r until deleted or updated; spec 3.1: a RID's
\* page is the page storing the record).
RidReadsBack == \A x \in rids : slots[x.p][x.s] = x.r

\* The pages whose directory entry an Insert or Delete is about to update.
Pending ==
  UNION {IF pc[t] = "i_dir" THEN {local[t], nfp}
         ELSE IF pc[t] = "d_dir" THEN {local[t]} ELSE {} : t \in Threads}

\* The directory's free-slot count of every allocated page is its capacity
\* minus its live records (spec 8.1), once no Insert or Delete is between
\* its data page and its directory page.
FreeSlotsExact ==
  \A n \in Nums \ Pending :
    entry[n].allocated =>
      entry[n].free = Cap - Cardinality({s \in Slots : slots[n][s] # 0})

=============================================================================
