------------------------------ MODULE PagedFile ------------------------------
(***************************************************************************)
(* The paged file of YASE (Storage/file.cc): a data BaseFile and a        *)
(* directory BaseFile "name.dir" whose pages hold one entry per data page *)
(* {created, allocated, free_slots}.  Data page n has entry n % E of      *)
(* directory page n \div E.                                                *)
(*                                                                         *)
(* Every section that pins a directory page, locks its page latch, works *)
(* on the entries and unlocks and unpins it is one step: the entries are *)
(* only touched under that latch.  AllocatePage is a procedure of several *)
(* steps (the reads of page counts and the fetch_add of CreatePage run    *)
(* without a latch); it returns to retpc[t], so that Table::Insert can    *)
(* call it as well as a client of the file.  PinPage fails for a page    *)
(* past the end of its file and, when PinCanFail, for any page: the pool  *)
(* returns nullptr when every frame is pinned (BufferPool.tla).  A        *)
(* nullptr the code dereferences kills the process: crashed, after which *)
(* nothing runs.                                                          *)
(***************************************************************************)
EXTENDS Naturals, FiniteSets, FiniteSetsExt

CONSTANTS
  Threads,
  FileClients,   \* threads that call the File API directly
  E,             \* entries per directory page: PAGE_SIZE / sizeof(Entry)
  Cap,           \* DataPage::GetCapacity(record_size)
  NData,         \* data pages the data BaseFile may hold in a run
  MaxOps,        \* calls per thread
  PinCanFail,    \* PinPage may return nullptr because the pool is full
  CreateCanFail, \* CreatePage may fail its zero-page write
  NoPage         \* PageId(): the invalid page id

ASSUME E >= 2 /\ Cap >= 1 /\ NData >= 1

\* Directory pages needed for NData data pages, and the data page numbers
\* their entries describe.
NDir == (NData - 1) \div E + IF CreateCanFail THEN 2 ELSE 1
Nums == 0 .. NDir * E - 1
Slots == 0 .. Cap - 1
DirOf(n) == n \div E

\* Entry values: as File::File and the new-directory branch initialise
\* them, and as AllocatePage and ScavengePage leave them.
Fresh == [created |-> FALSE, allocated |-> FALSE, free |-> Cap]
Taken == [created |-> TRUE, allocated |-> TRUE, free |-> Cap]
\* An entry of a directory page that CreatePage zeroed and nobody
\* initialised.
Zeroed == [created |-> FALSE, allocated |-> FALSE, free |-> 0]

\* The outcomes of one PinPage call.
PinOutcomes == IF PinCanFail THEN BOOLEAN ELSE {TRUE}
CreateOutcomes == IF CreateCanFail THEN BOOLEAN ELSE {TRUE}

\* PageId::GetPageNum(): 0xFFFF for PageId().
PageNum(p) == IF p = NoPage THEN 65535 ELSE p

\* A data page is its slot array: 0 is a free slot, a positive number a
\* record.
EmptyPage == [s \in Slots |-> 0]

VARIABLES
  dpc,       \* page_count of the data BaseFile
  dirpc,     \* page_count of the directory BaseFile
  entry,     \* entry[n]: the directory entry of data page n
  slots,     \* slots[n]: the records of data page n
  pc,        \* per thread: "idle" or a step label
  retpc,     \* where AllocatePage returns to
  sdir,      \* ScavengePage's loop index i
  dnum,      \* AllocatePage's dir_page_num (file.cc:89)
  dpid,      \* AllocatePage's data_pid, then its result
  fret,      \* result of the last DeallocatePage or PageExists
  ops,
  owned,     \* history: times AllocatePage returned n minus successful
             \* DeallocatePage(n) calls
  mine,      \* history: the pages a file client holds
  crashed,   \* a thread dereferenced a nullptr frame
  overUnpin  \* directory pages unpinned once more than they were pinned

fileVars == <<dpc, dirpc, entry, slots, pc, retpc, sdir, dnum, dpid, fret, ops,
              owned, mine, crashed, overUnpin>>

\* The state File::File leaves (directory page 0 created, every entry
\* fresh), after which the owner has allocated data pages 0 .. k-1 in turn.
FileInit(k) ==
  /\ dpc = k /\ dirpc = 1
  /\ entry = [n \in Nums |-> IF n < k THEN Taken ELSE Fresh]
  /\ slots = [n \in Nums |-> EmptyPage]
  /\ pc = [t \in Threads |-> "idle"]
  /\ retpc = [t \in Threads |-> "idle"]
  /\ sdir = [t \in Threads |-> 0]
  /\ dnum = [t \in Threads |-> 0]
  /\ dpid = [t \in Threads |-> 0]
  /\ fret = [t \in Threads |-> FALSE]
  /\ ops = [t \in Threads |-> 0]
  /\ owned = [n \in Nums |-> IF n < k THEN 1 ELSE 0]
  /\ mine = [t \in Threads |-> {}]
  /\ crashed = FALSE /\ overUnpin = {}

-----------------------------------------------------------------------------
(* AllocatePage.                                                           *)

\* Enter AllocatePage; ScavengePage starts with i = 0.
AllocCall(t, ret) ==
  /\ pc' = [pc EXCEPT ![t] = "a_scan"]
  /\ retpc' = [retpc EXCEPT ![t] = ret]
  /\ sdir' = [sdir EXCEPT ![t] = 0]

\* Return page n to the caller.
AllocReturn(t, n) ==
  /\ dpid' = [dpid EXCEPT ![t] = n]
  /\ owned' = [owned EXCEPT ![n] = @ + 1]
  /\ mine' = [mine EXCEPT ![t] = IF retpc[t] = "idle" THEN @ \cup {n} ELSE @]
  /\ pc' = [pc EXCEPT ![t] = retpc[t]]

\* Return PageId() to the caller.
AllocFail(t) ==
  /\ dpid' = [dpid EXCEPT ![t] = NoPage]
  /\ pc' = [pc EXCEPT ![t] = retpc[t]]
  /\ UNCHANGED <<owned, mine>>

\* A nullptr frame is dereferenced: the process dies.
Crash(t) ==
  /\ crashed' = TRUE
  /\ UNCHANGED <<dpid, owned, mine, pc>>

\* (Mutant: ScavengePage takes any created entry, allocated or not.)
ScavengeableAny(d) == {n \in Nums : DirOf(n) = d /\ entry[n].created}

\* The created but not allocated entries of directory page d.
Scavengeable(d) ==
  {n \in Nums : DirOf(n) = d /\ entry[n].created /\ ~entry[n].allocated}

\* One iteration of ScavengePage's loop over directory pages, the bound
\* i < dir.GetPageCount() read afresh.  Pin page i (a failure returns an
\* invalid PageId) and take its first scavengeable entry, or go on to page
\* i + 1; past the last page it returns an invalid PageId.  AllocatePage
\* then pins the scavenged page and calls SetDirty on it, on nullptr if
\* the pin failed; on an invalid PageId it goes on to create a page.
ScavengePage(t) ==
  \E dirOk, dataOk \in PinOutcomes :
  /\ pc[t] = "a_scan"
  /\ IF sdir[t] < dirpc /\ dirOk /\ Scavengeable(sdir[t]) # {}
       THEN LET n == Min(Scavengeable(sdir[t])) IN
            /\ entry' = [entry EXCEPT ![n] = Taken]
            /\ IF dataOk THEN AllocReturn(t, n) /\ UNCHANGED crashed ELSE Crash(t)
            /\ UNCHANGED sdir
       ELSE /\ IF sdir[t] < dirpc /\ dirOk
                 THEN sdir' = [sdir EXCEPT ![t] = @ + 1] /\ UNCHANGED pc
                 ELSE pc' = [pc EXCEPT ![t] = "a_count"] /\ UNCHANGED sdir
            /\ UNCHANGED <<entry, dpid, owned, mine, crashed>>
  /\ UNCHANGED <<dpc, dirpc, slots, retpc, dnum, fret, ops, overUnpin>>

\* dir_page_num = dir.GetPageCount() / entries_per_dir_page, read without
\* a latch before the data page is created.
CountDirPages(t) ==
  /\ pc[t] = "a_count"
  /\ dnum' = [dnum EXCEPT ![t] = dirpc \div E]
  /\ pc' = [pc EXCEPT ![t] = "a_create"]
  /\ UNCHANGED <<dpc, dirpc, entry, slots, retpc, sdir, dpid, fret, ops, owned, mine,
                 crashed, overUnpin>>

\* data_pid = this->CreatePage(): the fetch_add and the zero-page write;
\* a failed write decrements page_count and yields PageId().  (Each
\* failure makes AllocatePage create a directory page: failures stop at
\* the bound NDir.)
CreateDataPage(t) ==
  /\ pc[t] = "a_create"
  /\ dpc < NData
  /\ \E ok \in CreateOutcomes :
       IF ok THEN dpid' = [dpid EXCEPT ![t] = dpc] /\ dpc' = dpc + 1
       ELSE dirpc < NDir /\ dpid' = [dpid EXCEPT ![t] = NoPage] /\ UNCHANGED dpc
  /\ pc' = [pc EXCEPT ![t] = "a_dir"]
  /\ UNCHANGED <<dirpc, entry, slots, retpc, sdir, dnum, fret, ops, owned, mine,
                 crashed, overUnpin>>

\* (Mutant: the directory is taken to cover one page fewer than it has.)
NeedsNewDirOffByOne(p) == p >= E * (dirpc - 1)

\* data_pid is past what the directory covers.
NeedsNewDir(p) == p >= E * dirpc

\* Under file_latch: when data_pid is past what the directory covers,
\* dir.CreatePage(), pin the new page and initialise all its entries, else
\* pin directory page dir_page_num; a failed pin (of PageId() too, when
\* dir.CreatePage failed) returns PageId(), a new directory page left
\* zeroed.  Then, under the page latch, mark entry
\* data_pid % E of the pinned page created and allocated, unlock, unpin.
\* Pin the data page (PinPage of PageId() is nullptr) and construct it
\* empty; if that pin fails, unpin the directory page a second time.
\* Return data_pid.
DirEntry(t) ==
  \E dirOk, pinOk \in PinOutcomes, made \in CreateOutcomes :
  LET p      == dpid[t]
      num    == PageNum(p)
      dataOk == pinOk /\ p # NoPage
      newdir == NeedsNewDir(num)
      grown  == newdir /\ made
      held   == dirOk /\ (made \/ ~newdir)
      d      == IF newdir THEN dirpc ELSE dnum[t]
      init   == IF dirOk THEN Fresh ELSE Zeroed
      base   == IF grown
                  THEN [n \in Nums |-> IF DirOf(n) = d THEN init ELSE entry[n]]
                  ELSE entry
  IN
  /\ pc[t] = "a_dir"
  /\ dirpc' = IF grown THEN dirpc + 1 ELSE dirpc
  /\ IF held
       THEN /\ entry' = [base EXCEPT ![d * E + (num % E)] = Taken]
            /\ slots' = IF dataOk THEN [slots EXCEPT ![p] = EmptyPage] ELSE slots
            /\ overUnpin' = IF dataOk THEN overUnpin ELSE overUnpin \cup {d}
            /\ IF p = NoPage THEN AllocFail(t) ELSE AllocReturn(t, p)
       ELSE /\ entry' = base
            /\ AllocFail(t)
            /\ UNCHANGED <<slots, overUnpin>>
  /\ UNCHANGED <<dpc, retpc, sdir, dnum, fret, ops, crashed>>

AllocStep(t) ==
  \/ ScavengePage(t) \/ CountDirPages(t) \/ CreateDataPage(t) \/ DirEntry(t)

-----------------------------------------------------------------------------
(* DeallocatePage and PageExists, each one latch section.                 *)

\* The directory page of n can be pinned: it is in the directory file.
DirPinned(n) == DirOf(n) < dirpc

\* (Mutant: the entry keeps its allocated flag.)
DeallocKeepsEntry(t, n) ==
  \E dirOk, dataOk \in PinOutcomes :
  LET ok == ~(n > E * dirpc) /\ DirPinned(n) /\ dirOk
            /\ entry[n].created /\ entry[n].allocated
  IN
  /\ entry' = entry
  /\ slots' = IF ok /\ dataOk THEN [slots EXCEPT ![n] = EmptyPage] ELSE slots
  /\ owned' = IF ok /\ dataOk THEN [owned EXCEPT ![n] = @ - 1] ELSE owned
  /\ mine' = [mine EXCEPT ![t] = @ \ {n}]
  /\ fret' = [fret EXCEPT ![t] = ok]
  /\ crashed' = (ok /\ ~dataOk)

\* DeallocatePage: reject n > E * dir.GetPageCount(); pin the directory
\* page (fails past its end, or for room: return false); if the entry is
\* created and allocated, clear allocated, then pin the data page and
\* zero its record count (Lock on nullptr if that pin fails).  Returns
\* whether the page was allocated.
DeallocatePage(t, n) ==
  \E dirOk, dataOk \in PinOutcomes :
  LET ok == ~(n > E * dirpc) /\ DirPinned(n) /\ dirOk
            /\ entry[n].created /\ entry[n].allocated
  IN
  /\ entry' = IF ok THEN [entry EXCEPT ![n].allocated = FALSE] ELSE entry
  /\ slots' = IF ok /\ dataOk THEN [slots EXCEPT ![n] = EmptyPage] ELSE slots
  /\ owned' = IF ok /\ dataOk THEN [owned EXCEPT ![n] = @ - 1] ELSE owned
  /\ mine' = [mine EXCEPT ![t] = @ \ {n}]
  /\ fret' = [fret EXCEPT ![t] = ok]
  /\ crashed' = (ok /\ ~dataOk)

\* PageExists: the entry's allocated flag, or false when the directory
\* page cannot be pinned.
PageExists(t, n) ==
  \E dirOk \in PinOutcomes :
  /\ fret' = [fret EXCEPT ![t] = DirPinned(n) /\ dirOk /\ entry[n].allocated]
  /\ UNCHANGED <<entry, slots, owned, mine, crashed>>

\* A file client: AllocatePage when it holds no page, DeallocatePage of a
\* page it holds or of one nobody holds, PageExists of any page up to one
\* past the last.
FileClient(t) ==
  /\ t \in FileClients /\ pc[t] = "idle" /\ ops[t] < MaxOps
  /\ ops' = [ops EXCEPT ![t] = @ + 1]
  /\ \/ /\ mine[t] = {}
        /\ AllocCall(t, "idle")
        /\ UNCHANGED <<entry, slots, dnum, dpid, fret, owned, mine, crashed>>
     \/ /\ \E n \in {m \in 0 .. NData : m \notin Nums \/ m \in mine[t] \/ owned[m] = 0} :
             DeallocatePage(t, n) \/ PageExists(t, n)
        /\ UNCHANGED <<pc, retpc, sdir, dnum, dpid>>
  /\ UNCHANGED <<dpc, dirpc, overUnpin>>

-----------------------------------------------------------------------------
(* Properties.                                                             *)

FileTypeOK ==
  /\ dpc \in 0 .. NData /\ dirpc \in 1 .. NDir
  /\ entry \in [Nums -> [created : BOOLEAN, allocated : BOOLEAN, free : 0 .. Cap]]
  /\ owned \in [Nums -> Nat]
  /\ crashed \in BOOLEAN /\ overUnpin \subseteq 0 .. NDir - 1

\* The directory says exactly which pages are handed out: a page's entry
\* is allocated iff AllocatePage returned it and no DeallocatePage has
\* taken it back since, and no page is handed out twice (spec 4.3, and
\* the mapping of page n to entry n % E of directory page n / E).
AllocationExact ==
  \A n \in Nums : owned[n] <= 1 /\ entry[n].allocated = (owned[n] = 1)

\* No frame is used through a nullptr: every PinPage result AllocatePage
\* and DeallocatePage dereference was checked (file.cc:82, file.cc:179).
NoNullFrame == ~crashed

\* Every UnpinPage of a directory page matches one PinPage of it by the
\* same call: no pin count is decremented below what its holders own
\* (AllocatePage's failed data-page pin, file.cc:133).
PinBalanced == overUnpin = {}

=============================================================================
