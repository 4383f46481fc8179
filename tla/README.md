# TLA+ models of YASE

YASE (`src/yase-main/`) is a small storage engine written in C++. This
directory holds TLA+ models of its concurrent parts, the TLC configurations
that check them, and `PROJECT.json`. That file maps every model definition to
the source lines it translates, and lists the runs, mutants, findings and
hazards.

## The system

| Part | Source | Role |
|---|---|---|
| Base file | `Storage/basefile.cc/.h` | A file of fixed-size pages. `CreatePage` takes a number with `fetch_add` and writes a zeroed page. `FlushPage` and `LoadPage` use pwrite and pread. |
| Buffer pool | `Storage/buffer_manager.cc/.h` | A page map and an LRU queue. `PinPage` either finds the page or evicts an unpinned frame (flushing it if dirty) and loads the page. `UnpinPage` puts the page back on the LRU. |
| Paged file | `Storage/file.cc/.h` | A data file with a directory file. `AllocatePage` scavenges a page that has free space, or creates one and its directory entry. Also `DeallocatePage` and `PageExists`. |
| Table | `Storage/table.cc` | Records on data pages. `Insert`, `Read`, `Delete` and `Update` pin pages through the buffer pool and log through the log manager. |
| Log manager | `Log/log_manager.cc` | An in-memory log buffer under `logbuf_latch`. `Log*` append records. `Flush` writes the buffer at `durable_lsn`, fsyncs, and advances `durable_lsn`. |
| Lock manager | `Lock/lock_manager.cc/.h` | Record locks with wait-die, described below. |
| Transaction | `yase_internal.h`, `Lock/lock_manager.cc` | Timestamps from a global counter. `Commit` and `Abort` log, flush, release the transaction's locks, and leave `active_transactions`. |
| Skip list | `Index/skiplist.cc/.h` | An ordered index with one reader-writer latch per level. |

How the lock manager works:

- Each RID has a `LockHead`. It holds a FIFO queue of requests, a latch and a
  condition variable.
- A request is granted at once when the queue is empty, or when it is SH and
  every queued request is SH.
- Wait-die applies to conflicting *granted* requests. A younger requester calls
  `tx->Abort()` while it still holds the head latch.
- Any other request is appended and waits until the transaction's first request
  on the head is granted.
- A release erases the transaction's request and grants the new front: one XL,
  or every leading SH. It appends the RID to each grantee's `locks` list and
  notifies the waiters.

`Commit` and `Abort` call into the log manager and the lock manager. `Table`
calls into the buffer pool, the paged file and the log manager. The buffer pool
calls into the base file.

## Modules

### LockManager.tla (lock manager + transactions + commit/abort log calls)

State:

| Variable | Models |
|---|---|
| `queue[r]` | `LockHead::requests`, as a sequence of `[tx, mode, granted]` |
| `curMode[r]` | `current_mode` |
| `latch[r]` | The head latch: the transaction holding it, or `NoTx` |
| `locks[t]` | `Transaction::locks`, as a sequence, with duplicates kept |
| `tstate[t]` | `state` |
| `active` | `active_transactions` |
| `wal` | The log records appended so far |
| `durable` | The length of the durable prefix of `wal`: `durable_lsn` at record granularity |
| `pc[t]` | Where thread `t` is |
| `req`, `idx`, `allOk` | Locals: the waited-for request, the release-loop position, `all_locks_released` |
| `holding[t]` | A history variable: the locks the caller has been told it holds |

There is one thread per transaction. Transactions are the timestamps `Txns`, so
smaller means older.

`AcquireLock` is one action, from the latch being taken to the point where the
call returns or blocks. It has one disjunct for each outcome:

- try-lock failure;
- idempotent re-request;
- wait-die abort, which keeps the latch and jumps into Abort;
- immediate grant;
- enqueue. When the predicate already holds it returns at once; otherwise the
  thread sleeps.

`WakeUp` is the return from `cv.wait`. `ReleaseLock` is one atomic step under
the head latch. It requires the latch to be free, which is how a thread that
holds another latch is blocked.

Commit and Abort take one step per call:

- `LogControl` models `LogCommit`, `LogAbort` and `LogEnd`;
- `FlushLog` models `Flush`;
- `ReleaseNext` is one iteration of the range-for over `locks`, which reads the
  list as it grows;
- `ReleaseDone` ends that loop;
- `CommitRemove` and `AbortRemove` remove the transaction from the active list
  and set its final state.

When `IOCanFail` holds, each log call may fail. A failure is `FailLocally`: the
state becomes aborted and the call returns with every lock still held.

Constants:

- `Rids`, `Modes` and `TryValues`;
- `MaxOps[t]`, the number of lock calls each thread makes;
- `CallInvalid`, which allows calls on an invalid RID;
- `AppAborts`, which lets the application call Abort;
- `IOCanFail`, which lets log I/O fail;
- `AllowReRequest`, which lets a transaction request a RID it already has a
  request on.

`MCLockManager.tla` gives these constants values: model values `r1` and `r2`,
two or three transactions, and per-transaction operation budgets.

### LogManager.tla (log manager) and AbstractLog.tla

The log buffer is modelled at byte granularity, with `HdrSize` standing for
`sizeof(LogRecord) + sizeof(LSN)`.

| Variable | Models |
|---|---|
| `logbuf` | The records placed in the buffer: type, caller, offset in the buffer, trailing LSN, size |
| `logbuf_offset`, `current_lsn`, `durable_lsn` | The fields of the same names |
| `file` | The records written and fsynced, with the file offset each was written at |
| `pc[t]`, `rec[t]` | Where a `Log*` call is (room test done, must flush, must append) and the record it writes |
| `calls[t]` | Calls made, bounded by `MaxCalls` |
| `alive` | The singleton has not been destroyed |

Every section under `logbuf_latch` is one atomic step, so the latch needs no
variable. A `Log*` call is the steps the code takes under the latch:

- `RoomTest` (through `LogInsert`, `LogUpdate`, `LogDelete`, `LogCommit`,
  `LogAbort`, `LogEnd`) tests `logbuf_offset + size > logbuf_size`;
- `FlushBeforeAppend` is the `Flush()` it then calls when there is no room;
- `AppendRecord` retakes the latch and writes the record without testing
  again.

`Flush` and `Destroy` (the destructor's final flush) share `FlushBuffer`. When
`IOCanFail` holds, a flush may fail and change nothing.

`AbstractLog` is what callers are promised: a sequence of records and the
length of its durable prefix, with an append and a sync action.
`LogManager` maps to it by `log <- file \o logbuf` (each record stripped to
type and caller) and `ndurable <- Len(file)`; `RefinesAbstractLog` checks the
mapping as a property.

### SkipList.tla (skip-list index) and AbstractMap.tla

| Variable | Models |
|---|---|
| `nodes[n]` | Node `n` (ids `1..MaxNodes`; `HeadNode` is `head`, `TailNode` is `&tail`): key, `nlevels`, `next[i]`, payload |
| `alloc`, `freed` | Nodes `NewNode` returned, and nodes `delete`d |
| `height` | `SkipList::height` |
| `latches[i]` | `latches[i]` as a writer (or `None`) and a set of readers |
| `pc`, `op`, `local_height`, `lv`, `curr`, `node`, `nn` | The locals of the running operation: its arguments, the height it read, the level it is at, `curr`, `node[]`, the new node |
| `misuse` | Some thread has unlocked a latch it did not hold |
| `srch[t]` | The payload the last `Search` copied out, or `Absent` |

A payload is a pair of words, so that a copy made while an `Update` is half
done is visible. A key is an integer. The random level of `Insert` is an input
chosen with `\E`. `node[i]` of `Delete` is `Nil` until written; reading it
chooses any node (the code reads an uninitialized pointer).

Each operation is one action per latch step:

- `InsertStart` (random level, unlatched height read), `InsertTop` (write-latch
  the new levels), `InsertLevel` (one descent level: read latch at or above the
  node's level, write latch below; at level 0 the duplicate check and
  `NewNode`), `InsertLink` (splice one level, raise `height`, unlock);
- `SearchStart`, `SearchFirst`, `SearchLevel` (latch coupling downward, copy the
  payload at level 0);
- `UpdateStart`, `UpdateLevel`, `UpdateWrite2` (the `memcpy` in two halves, under
  the level-0 read latch);
- `DeleteStart`, `DeleteLock` (write-latch `local_height` levels, descend, test,
  release the levels above the victim), `DeleteUnlink` (one level per step, then
  `delete`);
- `ScanStart`, `ScanLevel`, `ScanEmit` (the second unlock of the upper levels,
  then the level-0 read).

`AbstractMap` is the map the index promises: an absent key can be put, a
present one set or removed. `SkipList` maps to it by reading level 0: each key
linked there maps to its whole payload, and a key linked twice, or a payload
mixed from two writes, maps to a value no operation writes. An Update
linearizes at its first word write: while it is between its two writes to a
node (`Updating`), the node stands for the first word twice.

### BufferPool.tla (buffer pool and base file)

| Variable | Models |
|---|---|
| `page_count` | `BaseFile::page_count`, the atomic counter |
| `disk[n]` | The version stored at page `n` of the file, or `NoPage` when no byte of it was written |
| `pool` | The keys of `page_map` |
| `pin[n]`, `dirty[n]`, `data[n]` | The frame of a resident page: `pin_count`, `is_dirty`, `page_data` |
| `lru` | `BufferManager::lru` |
| `pc`, `held`, `cpid` | What a caller is doing, the page it has pinned, the number `fetch_add` gave its `CreatePage` |
| `latest`, `created`, `pinFull` | History for the properties: the last version written to each page, the numbers `CreatePage` returned, whether a thread's last pin failed for room |

A page image is a version number: 0 is the zero page, and each write by a
caller makes a fresh one. `PinPage` and `UnpinPage` are one step each, because
`buffer_mutex` covers all of them, the victim's write-back and the new page's
read included. `PinPage` is a hit (`PinHit`) or a miss (`PinMiss`). A miss in
a full pool scans the LRU with `VictimIdx` and drops the pinned pages it pops.
It writes back a dirty victim (`EvictFlush`, result ignored), or fails with
the LRU emptied when every frame is pinned. `LoadInto` then reads the page,
or discards the frame when `pread` is short. The read is short past the end
of the file; a hole before a written page reads as zeros (`Loadable`,
`DiskImage`).

`CreatePage` is two steps, because nothing latches it: `CreateStart` is the
`fetch_add`, and `CreateWrite` writes the zero page or, on failure, decrements
`page_count`. `WritePage` is a caller overwriting a pinned page and calling
`SetDirty(true)`, as `File::AllocatePage` does. `Shutdown` is
`~BufferManager`. Its flush loop walks `page_frames`, the array the
constructor fills with default pages, which are clean and have an invalid id;
`PinPage` never uses them, so the loop writes nothing. It then deletes every
`page_map` page unflushed (buffer_manager.cc:36-45), and the model does the
same.

### PagedFile.tla (paged file) and Table.tla (table)

| Variable | Models |
|---|---|
| `dpc`, `dirpc` | `page_count` of the data file and of the directory file |
| `entry[n]` | Directory entry `n % E` of directory page `n / E`: `created`, `allocated`, `free_slots` |
| `slots[n]` | The slots of data page `n`: 0 when free, else the record in it |
| `pc`, `retpc`, `sdir`, `dnum`, `dpid`, `fret` | Where a thread is in `AllocatePage` or `ScavengePage`, where it returns to, the directory page it scans, the unlatched `dir_page_num`, the new page, and the last bool result |
| `owned`, `mine`, `ops` | History: how many calls hold each page; a file client's own pages; calls made |
| `crashed`, `overUnpin` | The process died dereferencing a nullptr frame; the directory pages some call unpinned once more than it pinned them |
| `nfp`, `tlatch` | `Table::next_free_pid`, `Table::latch` |
| `local`, `rid`, `rec`, `rids` | `Insert`'s `local_free_pid` (or `Delete`'s page), the RID it built, its record, and the RIDs `Insert` returned with their current records |

`E` is `entries_per_dir_page` (512 in the code), `Cap` a data page's capacity
and `NData` the bound on data pages. A step is the code between two
acquisitions of a shared latch:

- `ScavengePage` scans one directory page per step under its latch.
- `CountDirPages` is the unlatched read of `dir.GetPageCount()` at file.cc:89.
- `CreateDataPage` is the data file's `CreatePage`.
- `DirEntry` is the block under `file_latch`. It may create a directory page,
  then marks entry `data_pid % E` of directory page `dir_page_num`.

Pinning and page latches are one step with what they protect. The buffer pool
is modelled separately, so each page behaves as one shared frame. A pin fails
for a page past the end of its file. With `PinCanFail` it may fail at any
call, as `PinPage` does when every frame is pinned, and each call then takes
the code's nullptr branch:

- returning `PageId()`, `RID()` or false;
- unpinning the directory page a second time (`overUnpin`, file.cc:133);
- dereferencing nullptr (file.cc:82, 179), which kills the process
  (`crashed`), after which nothing runs.

With `CreateCanFail`, `CreatePage` of either file may fail. The data file's
failure gives `PageId()`, whose page number `PageNum` is 0xFFFF, and
`AllocatePage` goes on with it. Each such failure creates a directory page,
so failures stop at the bound `NDir`, which then includes a spare directory
page.

A thread of the paged file or the table holds at most two pins at once
(`DeallocatePage` holds the directory page and the data page). The pool
run shows that a pin fails only when every frame is pinned
(NoSpuriousPinFailure). So with at least twice as many frames as threads no
pin fails, and the `table` run assumes such a pool: `PinCanFail` and
`CreateCanFail` are FALSE there. The faults are explored in the further
counterexamples below. `Table` extends `PagedFile`: `Init` is the
constructor's first `AllocatePage`; `Insert` is `InsertCall`, `Snapshot`,
`InsertSlot`, `TableLatch` (with `AllocatePage` under the table latch),
`SetNextFree` (an invalid page from `AllocatePage` is stored, and the call
returns `RID()`) and `InsertDir`. `Read`, `Update` and `Delete` (with
`DeleteDir`) act on a RID an `Insert` returned. `Read` includes the
`PageExists(rid.GetPageNum())` conversion, which looks at page number `>> 16`.
File clients call `AllocatePage`, `DeallocatePage` and `PageExists` directly,
as the `File` API allows. `page.h` is not in the repository, so
`DataPage::Insert` taking the first free slot is taken from the spec.

## Runs

| Run | Module | Expect | Properties | What it shows |
|---|---|---|---|---|
| safety | MCLockManager | pass | TypeOK, LockListExact, CommitDurableBeforeRelease | Uses 2 txs, 2 RIDs, both modes, try-lock, invalid RIDs, re-requests and log I/O failure. The lock list of an idle or waiting transaction names exactly the RIDs it is granted on. Locks are released, and a Commit is reported, only after the Commit record is durable and the End record follows it. |
| live | MCLockManager | pass | LockCompatibility, NoWaitCycle, AllFinish | Uses 2 txs and no re-requests, under weak fairness per thread. Held locks are always compatible. The waits-for graph stays acyclic. Every thread finishes. |
| upgrade | MCLockManager | violation | LockCompatibility | An SH→XL upgrade returns at once because the wait predicate sees the old granted SH request. |
| waitcycle | MCLockManager | violation | NoWaitCycle | Uses 3 txs, 2 RIDs and XL only. Wait-die on granted requests alone, with FIFO grants, deadlocks. |
| log | MCLogManager | pass | TypeOK, LogFileReplayable, RefinesAbstractLog | Two threads, every record type, failing I/O. The file reads back as records packed from offset 0 with LSN = offset, and the manager implements the abstract log. The type invariant bounds `durable_lsn` by `current_lsn`. |
| overflow | MCLogManager | violation | BufferBound | Two threads pass the room test for the last free bytes, then both append: the second record is written past the buffer. |
| sl_seq | MCSkipList | pass | TypeOK, LevelsSorted, NoDanglingLink, RefinesAbstractMap, SearchLinearizable | One thread, four calls of every operation: every level sorted, nothing freed is linked, the list implements the abstract map, and Search returns the map's value. |
| sl_conc | MCSkipList | pass | RefinesAbstractMap, SearchLinearizable | Two threads interleaving Insert, Search and Scan: level 0 still implements the map of whole payloads, and every Search returns the map's value. Update is left out: concurrent Updates tear payloads (`MCSkipList_torn.cfg`). |
| sl_dangle | MCSkipList | violation | NoDanglingLink | Delete read the height before an Insert raised it, unlinks level 1 through an uninitialized predecessor, and frees a node still linked there. |
| pool | MCBufferPool | pass | TypeOK, NoLostWrite, PinCountExact, NoSpuriousPinFailure | Three threads pin, write and unpin three pages in a two-frame pool while one of them creates pages, and creation may fail. While the pool runs, no write is lost across evictions, reloads and failed creates. Pin counts equal the number of holders. A pin fails for room only when every frame is pinned. |
| table | MCTable | pass | TypeOK, AllocationExact, FreeSlotsExact, RidReadsBack | One table client and two file clients, E = 3, Cap = 2, four data pages, three calls each; the file grows a second directory page. The directory marks allocated exactly the pages a call holds. Each allocated page's free-slot count matches its slots. Every returned RID reads back its record. |
| direntry | MCTable | violation | AllocationExact | A file client computes `dir_page_num` from a directory page count read before another allocation added a directory page. It marks entry 0 of directory page 0 for its page 3, so page 3 is handed out while its entry says unallocated. |

Further counterexamples, whose configurations are kept beside the runs:

- `MCLockManager_regrant.cfg` (CommitOutcomeMatchesLog): re-granted SH requests
  push the RID twice; the second release fails, so a transaction with a durable
  Commit record ends Aborted.
- `MCLockManager_latchcycle.cfg` (NoLatchCycle): 3 txs, 2 RIDs; two dying
  transactions each hold one head latch and each need the other's to release.
- `MCLockManager_selflatch.cfg` (NoLatchCycle): a transaction dies on a head it
  holds a request on, and its Abort blocks on the latch it already holds.
- `MCLockManager_iofail.cfg` (AllFinish): a failed log call in Commit keeps
  the locks, so the waiter never wakes.
- `MCSkipList_scan.cfg` (LatchDiscipline): Scan unlocks the read latches of
  levels above 0 a second time.
- `MCSkipList_race.cfg` (LevelsSorted): two Inserts read height 1 and both
  add level 1; the second links after the head it latched, out of key order.
- `MCBufferPool_flushfail.cfg` (NoLostWrite): an eviction whose write-back is
  short drops the dirty page, and the next pin reads the old image.
- `MCSkipList_torn.cfg` (SearchNeverTorn): Update writes the payload under a
  read latch, and a Search copies it half written. With `RefinesAbstractMap`
  instead, two Updates of one key leave a payload mixed from both.
- `MCBufferPool_teardown.cfg` (DurableAtShutdown): a page written and still
  resident when the pool is destroyed is never written back. The spec says
  the pool flushes a frame on teardown; the destructor flushes only the
  unused `page_frames` array (buffer_manager.cc:36-45).
- `MCBufferPool_create.cfg` (CreatedDistinct): A takes page 0 and B page 1;
  A's zero-page write fails and its `page_count--` undoes B's increment; the
  next CreatePage returns page 1 again and zeroes it.
- `MCTable_ridrace.cfg` (RidReadsBack): two table clients. One deletes from
  the full page 0 and snapshots it while the other moves `next_free_pid` to
  page 1. The insert lands in page 0 but returns `RID(1, 0)`, which points at
  an empty slot (table.cc:53).
- `MCTable_logfail.cfg` (FreeSlotsExact): `LogInsert` fails after
  `DataPage::Insert`, so the record stays in the page and `free_slots` is
  not decremented (table.cc:54).
- `MCTable_unpin.cfg` (PinBalanced): with `PinCanFail`, a file client's
  `AllocatePage` cannot pin its new data page and unpins directory page 0 a
  second time (file.cc:133). Its `uint16_t` pin count drops below what its
  holders own.
- `MCTable_nullframe.cfg` (NoNullFrame): with `PinCanFail`, `AllocatePage`
  calls `SetDirty` on the nullptr pin of a scavenged page (file.cc:82), or
  `DeallocatePage` calls `Lock` on one (file.cc:179).
- `MCTable_createfail.cfg` (AllocationExact): with `CreateCanFail`, the data
  file's `CreatePage` fails. `AllocatePage` takes page number 0xFFFF as past
  the directory, creates directory page 1 and marks entry `0xFFFF % E` of it
  allocated. It then returns `PageId()`, so the directory holds an allocated
  page that nobody owns (file.cc:93).
- `MCLockManager_endfail.cfg` (CommitOutcomeMatchesLog): `LogEnd` fails
  after the Commit record was flushed. Commit returns false with state
  aborted and keeps its locks, while the durable log says committed
  (lock_manager.cc:141-146).

Findings (see `PROJECT.json`): the lock manager breaks mutual exclusion on
upgrade and can deadlock despite wait-die; the log manager can write past its
buffer; the skip list can free a node still linked; and `AllocatePage`
records a new page's directory entry in the wrong directory page. The further
counterexamples above show the remaining defects:

- an unsorted level and a torn payload in the skip list;
- one page number handed out twice by the base file;
- a wrong RID and a stray record from `Table::Insert`;
- a double unpin, two nullptr dereferences and a phantom allocated page in
  the paged file under a full pool or a failed `CreatePage`;
- a durable Commit reported as aborted;
- dirty pages dropped unwritten by `~BufferManager`.

**Bounds.**

- Lock manager: two RIDs and two or three transactions with up to two lock
  calls each cover every case in the code (a grant to a queue of SH requests,
  an XL behind SH, an upgrade, a die, a wait chain across two heads). The
  smallest cycle, of locks or of latches, needs three transactions on two
  records. The invariant-only runs use symmetry over the RIDs; transactions
  are not symmetric, because their timestamps order them.
- Log manager: a 3-unit buffer, a 1-unit header and payloads of 1 and 3 units,
  two calls per thread. A record fits exactly, one does not fit behind
  another, and an oversize one is rejected, so each branch of the room test
  is taken; threads are symmetric.
- Skip list: two levels, three node slots, two keys and two values. Two levels
  are the least at which the height changes; three slots allow two live nodes
  and one freed one.
- Buffer pool: two frames, three page numbers and three threads with three
  calls each. Three pages against two frames force eviction; three threads are
  the least with which two can hold both frames while a third misses, so the
  pool-full failure happens. The CreatePage race needs two creators and three
  creations.
- Paged file and table: `E = 3` and four data pages. The directory then needs
  a second page (page 3 creates it), and scavenging, deallocation and
  re-allocation all happen. `Cap = 2` lets a page fill and a delete free a
  slot in it. Two file clients are the least that allocate concurrently with
  the table's own allocation. The table run keeps data page `E + 1`
  unreachable, because with it `AllocationExact` fails sequentially (the
  direntry finding), and has one table client, because with two the RID race
  breaks `RidReadsBack` first.

**Fairness.** Each transaction is a preemptive OS thread, so each gets
`WF_vars(Thread(t))`. The workload is finite: `MaxOps` bounds it, and Commit
and Abort end every thread. Weak fairness is therefore enough for a latch or a
condition wait whose condition stays true. The model has no timeouts. The log
manager, skip-list, pool and table runs check safety only and assume no
fairness.

**CHECK_DEADLOCK.**

- live, log, sl_seq, sl_conc, pool and table check deadlock; their workloads end in a
  terminal state that stutters.
- safety switches it off because its configuration lets a failed log call or a
  dying upgrade block a thread for ever (the iofail and selflatch
  counterexamples).
- The violation runs switch it off so that TLC reports the property named.

## Plan (later sittings)

1. Skip list: `Delete` in the concurrent run once the dangling-link finding is
   separated from the map property.
2. The `Transaction` constructor's unlatched `push_back` onto
   `active_transactions`, once transactions are created during a run.

## Not modelled

- The lock-table latch. It is held only for the `unordered_map` lookup or
  insert, and the head pointers are stable.
- The lock manager's destructor.
- Raw I/O and memory: file open and close, `new` and `delete`.
- Recovery. The code never replays the log.
- The data race on `active_transactions` in the `Transaction` constructor. It
  runs unlatched, but the model creates every transaction before the run.
- The skip list's destructor, which runs single-threaded after every user is
  done, and the key and payload copies `Scan` pushes into its output vector.
- The table constructor's failing allocation: the model starts from a table
  whose constructor returned page 0.
- Invalid RIDs passed to `Table::Read`, `Update` or `Delete`. Every call in
  the model passes a RID an `Insert` returned.
- The byte layout of data and directory pages (`page.h` is absent).
- `BufferManager::RegisterFile`: the `File` constructor registers both base
  files before any of their pages is pinned, so `PinPage` never meets an
  unregistered file.
- The `fsync` calls of the base file. Files are opened with `O_TRUNC` and
  nothing is ever read back after a restart, so durability across a crash
  has no observable effect.
