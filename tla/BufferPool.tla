----------------------------- MODULE BufferPool -----------------------------
(***************************************************************************)
(* The buffer pool of YASE (Storage/buffer_manager.cc) over one base file *)
(* (Storage/basefile.cc).  Threads pin a page, may overwrite it and mark  *)
(* it dirty, and unpin it; they also create pages in the base file.       *)
(*                                                                         *)
(* PinPage and UnpinPage run whole under buffer_mutex, the I/O of a miss  *)
(* and of an eviction included, so each is one step.  CreatePage takes a  *)
(* page number with fetch_add and then writes the zero page without any   *)
(* latch: two steps.  A page image is abstracted to a version number:    *)
(* 0 is the zero page, and every client write makes a fresh version.      *)
(***************************************************************************)
EXTENDS Naturals, Sequences, FiniteSets, SequencesExt

CONSTANTS
  Threads,
  Creators,        \* the threads that call CreatePage
  NPages,          \* page numbers 0 .. NPages-1 are the ones threads pin
  Frames,          \* BufferManager::page_count, the pool capacity
  MaxOps,          \* calls per thread
  FlushCanFail,    \* pwrite in FlushPage may write short
  CreateCanFail,   \* the zero-page write of CreatePage may fail
  None,            \* no page held
  NoPage           \* no byte of the page is in the file

PageNums == 0 .. NPages - 1

VARIABLES
  page_count,      \* BaseFile::page_count (std::atomic)
  disk,            \* disk[n]: version stored at page n of the file, or NoPage
  pool,            \* the page ids in page_map
  pin, dirty, data,\* the frame of each page in pool
  lru,             \* BufferManager::lru, a sequence of pages
  pc,              \* "idle", "pinned", "create"
  held,            \* the page a thread has pinned, or None
  cpid,            \* the number CreatePage's fetch_add returned
  ops,
  nextVer,         \* the next fresh page version
  latest,          \* history: the last version any thread wrote to a page
  created,         \* history: the page numbers CreatePage returned, in order
  pinFull,         \* history: the last pin of each thread failed for room
  alive

vars == <<page_count, disk, pool, pin, dirty, data, lru, pc, held, cpid, ops,
          nextVer, latest, created, pinFull, alive>>

Init ==
  /\ page_count = 0
  /\ disk = [n \in PageNums |-> NoPage]
  /\ pool = {}
  /\ pin = [n \in PageNums |-> 0]
  /\ dirty = [n \in PageNums |-> FALSE]
  /\ data = [n \in PageNums |-> 0]
  /\ lru = <<>>
  /\ pc = [t \in Threads |-> "idle"]
  /\ held = [t \in Threads |-> None]
  /\ cpid = [t \in Threads |-> 0]
  /\ ops = [t \in Threads |-> 0]
  /\ nextVer = 1
  /\ latest = [n \in PageNums |-> 0]
  /\ created = <<>>
  /\ pinFull = [t \in Threads |-> FALSE]
  /\ alive = TRUE

-----------------------------------------------------------------------------
(* BaseFile.                                                               *)

\* pread of PAGE_SIZE bytes at n * PAGE_SIZE is whole iff some page at or
\* after n has been written; a hole reads as zeros.
Loadable(n) == \E m \in PageNums : m >= n /\ disk[m] # NoPage
DiskImage(n) == IF disk[n] = NoPage THEN 0 ELSE disk[n]

\* FlushPage: fsync, then pwrite; the result is whether pwrite was whole.
FlushOutcomes == IF FlushCanFail THEN BOOLEAN ELSE {TRUE}
Flush(d, n, v, ok) == IF ok THEN [d EXCEPT ![n] = v] ELSE d

\* CreatePage, first half: PageId pid(id, page_count.fetch_add(1)).
CreateStart(t) ==
  /\ t \in Creators /\ pc[t] = "idle" /\ ops[t] < MaxOps /\ alive
  /\ page_count < NPages
  /\ cpid' = [cpid EXCEPT ![t] = page_count]
  /\ page_count' = page_count + 1
  /\ pc' = [pc EXCEPT ![t] = "create"]
  /\ ops' = [ops EXCEPT ![t] = @ + 1]
  /\ UNCHANGED <<disk, pool, pin, dirty, data, lru, held, nextVer, latest, created,
                 pinFull, alive>>

\* CreatePage, second half: FlushPage(pid, zeros); on failure page_count--
\* and an invalid PageId.  The decrement undoes whatever fetch_add is
\* latest, not this call's own.
CreateWrite(t) ==
  /\ pc[t] = "create"
  /\ \/ /\ disk' = [disk EXCEPT ![cpid[t]] = 0]
        /\ created' = Append(created, cpid[t])
        /\ UNCHANGED page_count
     \/ /\ CreateCanFail
        /\ page_count' = page_count - 1
        /\ UNCHANGED <<disk, created>>
  /\ pc' = [pc EXCEPT ![t] = "idle"]
  /\ UNCHANGED <<pool, pin, dirty, data, lru, held, cpid, ops, nextVer, latest,
                 pinFull, alive>>

-----------------------------------------------------------------------------
(* BufferManager::PinPage, whole under buffer_mutex.                      *)

\* The eviction loop: pop the LRU front until a page with pin count 0 is
\* found.  Pinned pages popped on the way leave the list.  0 = none found.
VictimIdx == SelectInSeq(lru, LAMBDA q : pin[q] = 0)

\* (Mutant: a hit does not count the new pin.)
PinHitNoInc(t, n) ==
  /\ n \in pool
  /\ lru' = Append(Remove(lru, n), n)
  /\ held' = [held EXCEPT ![t] = n]
  /\ pc' = [pc EXCEPT ![t] = "pinned"]
  /\ pinFull' = [pinFull EXCEPT ![t] = FALSE]
  /\ UNCHANGED <<disk, pool, pin, dirty, data>>

\* A hit: pin count + 1 and move the page to the MRU end.
PinHit(t, n) ==
  /\ n \in pool
  /\ pin' = [pin EXCEPT ![n] = @ + 1]
  /\ lru' = Append(Remove(lru, n), n)
  /\ held' = [held EXCEPT ![t] = n]
  /\ pc' = [pc EXCEPT ![t] = "pinned"]
  /\ pinFull' = [pinFull EXCEPT ![t] = FALSE]
  /\ UNCHANGED <<disk, pool, dirty, data>>

\* Allocate a frame for n in a pool with room, load it, and return it, or
\* discard it when the read is short.  pool0/disk0/lru0 are the state the
\* eviction left.
LoadInto(t, n, pool0, disk0, lru0) ==
  \/ /\ Loadable(n)
     /\ pool' = pool0 \cup {n}
     /\ pin' = [pin EXCEPT ![n] = 1]
     /\ dirty' = [dirty EXCEPT ![n] = FALSE]
     /\ data' = [data EXCEPT ![n] = DiskImage(n)]
     /\ lru' = Append(lru0, n)
     /\ held' = [held EXCEPT ![t] = n]
     /\ pc' = [pc EXCEPT ![t] = "pinned"]
     /\ disk' = disk0
  \/ /\ ~Loadable(n)
     /\ pool' = pool0 /\ disk' = disk0 /\ lru' = lru0
     /\ UNCHANGED <<pin, dirty, data, held, pc>>

\* (Mutant: a dirty victim is dropped without being written back.)
EvictNoFlush(v, ok) == disk

\* Write back the victim if it is dirty.  The result of FlushPage is
\* ignored.
EvictFlush(v, ok) == IF dirty[v] THEN Flush(disk, v, data[v], ok) ELSE disk

\* `page_map.size() >= page_count` decides whether to evict.
\* (Mutant: the pool is taken to have room when exactly full.)
HasRoomOffByOne == Cardinality(pool) <= Frames
HasRoom == Cardinality(pool) < Frames

\* A miss.  When page_map is full, evict the first unpinned page of the
\* LRU, or fail if none is left, then load.
PinMiss(t, n) ==
  /\ n \notin pool
  /\ pinFull' = [pinFull EXCEPT ![t] = ~HasRoom /\ VictimIdx = 0]
  /\ IF HasRoom
       THEN LoadInto(t, n, pool, disk, lru)
       ELSE LET i == VictimIdx IN
            IF i = 0
              THEN /\ lru' = <<>>
                   /\ UNCHANGED <<disk, pool, pin, dirty, data, held, pc>>
              ELSE LET v == lru[i] IN
                   \E ok \in FlushOutcomes :
                     LoadInto(t, n, pool \ {v}, EvictFlush(v, ok),
                              SubSeq(lru, i + 1, Len(lru)))

PinPage(t, n) ==
  /\ pc[t] = "idle" /\ ops[t] < MaxOps /\ alive
  /\ ops' = [ops EXCEPT ![t] = @ + 1]
  /\ PinHit(t, n) \/ PinMiss(t, n)
  /\ UNCHANGED <<page_count, cpid, nextVer, latest, created, alive>>

\* The caller overwrites the pinned page under its page latch and calls
\* SetDirty(true).
WritePage(t) ==
  LET n == held[t] IN
  /\ pc[t] = "pinned"
  /\ data' = [data EXCEPT ![n] = nextVer]
  /\ dirty' = [dirty EXCEPT ![n] = TRUE]
  /\ latest' = [latest EXCEPT ![n] = nextVer]
  /\ nextVer' = nextVer + 1
  /\ pc' = [pc EXCEPT ![t] = "written"]
  /\ UNCHANGED <<page_count, disk, pool, pin, lru, held, cpid, ops, created, pinFull,
                 alive>>

\* (Mutant: the requeue test reads the pin count before the decrement.)
UnpinStaleCount(t) ==
  LET n == held[t] IN
  /\ pc[t] \in {"pinned", "written"}
  /\ pin' = [pin EXCEPT ![n] = @ - 1]
  /\ lru' = IF pin[n] = 0 /\ n \notin ToSet(lru) THEN Append(lru, n) ELSE lru
  /\ held' = [held EXCEPT ![t] = None]
  /\ pc' = [pc EXCEPT ![t] = "idle"]
  /\ UNCHANGED <<page_count, disk, pool, dirty, data, cpid, ops, nextVer, latest,
                 created, pinFull, alive>>

\* BufferManager::UnpinPage: pin count - 1; at 0 put the page on the LRU
\* unless it is there.
UnpinPage(t) ==
  LET n == held[t] IN
  /\ pc[t] \in {"pinned", "written"}
  /\ pin' = [pin EXCEPT ![n] = @ - 1]
  /\ lru' = IF pin[n] - 1 = 0 /\ n \notin ToSet(lru) THEN Append(lru, n) ELSE lru
  /\ held' = [held EXCEPT ![t] = None]
  /\ pc' = [pc EXCEPT ![t] = "idle"]
  /\ UNCHANGED <<page_count, disk, pool, dirty, data, cpid, ops, nextVer, latest,
                 created, pinFull, alive>>

\* ~BufferManager, after every thread is done.  Its flush loop walks
\* page_frames, the array the constructor filled with default Page objects
\* (clean, invalid id), which PinPage never uses: it writes nothing.  It
\* then deletes every page_map page, dirty or not, and clears the LRU.
Shutdown ==
  /\ alive
  /\ \A t \in Threads : pc[t] = "idle" /\ ops[t] = MaxOps
  /\ pool' = {} /\ lru' = <<>>
  /\ alive' = FALSE
  /\ UNCHANGED <<page_count, disk, pin, dirty, data, pc, held, cpid, ops, nextVer,
                 latest, created, pinFull>>

Terminated == ~alive /\ UNCHANGED vars

Thread(t) ==
  \/ CreateStart(t) \/ CreateWrite(t)
  \/ \E n \in PageNums : PinPage(t, n)
  \/ WritePage(t) \/ UnpinPage(t)

Next == (\E t \in Threads : Thread(t)) \/ Shutdown \/ Terminated

Spec == Init /\ [][Next]_vars

-----------------------------------------------------------------------------
(* Properties.                                                             *)

TypeOK ==
  /\ page_count \in 0 .. NPages
  /\ disk \in [PageNums -> Nat \cup {NoPage}]
  /\ pool \subseteq PageNums /\ Cardinality(pool) <= Frames
  /\ pin \in [PageNums -> Nat] /\ dirty \in [PageNums -> BOOLEAN]
  /\ lru \in Seq(PageNums)
  /\ pc \in [Threads -> {"idle", "pinned", "written", "create"}]
  /\ held \in [Threads -> PageNums \cup {None}]

\* The image a reader would get for page n: its frame when it is in the
\* pool, else the file.
Stored(n) == IF n \in pool THEN data[n] ELSE DiskImage(n)

\* No write is lost while the pool runs: every page reads back as the
\* version last written to it, across evictions, reloads and failed
\* creates.  It ties the dirty bit callers set to the write-back on
\* eviction and to LoadPage of the file.
NoLostWrite == alive => \A n \in PageNums : Stored(n) = latest[n]

\* After ~BufferManager the file holds the last version written to every
\* page (spec: the pool flushes a frame on teardown).
DurableAtShutdown == ~alive => \A n \in PageNums : DiskImage(n) = latest[n]

\* The pin count of every resident page is the number of threads holding
\* it (spec: a pin/unpin pair returns the count to its prior value), so a
\* page in use is never evicted and an unused one always can be.
PinCountExact ==
  \A n \in pool : pin[n] = Cardinality({t \in Threads : held[t] = n})

\* PinPage fails for lack of room only when every frame is pinned (spec:
\* eviction failure is all frames pinned).  The eviction loop drops the
\* pinned pages it pops from the LRU; UnpinPage must put each back.
NoSpuriousPinFailure ==
  [][\A t \in Threads :
       (ops'[t] = ops[t] + 1 /\ pinFull'[t]) => \A n \in pool : pin[n] > 0]_vars

\* CreatePage never returns one page number twice (spec: concurrent
\* create_page calls receive distinct numbers).
CreatedDistinct == IsInjective(created)

=============================================================================
