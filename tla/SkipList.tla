------------------------------ MODULE SkipList ------------------------------
(***************************************************************************)
(* The concurrent skip list of YASE (Index/skiplist.cc).  One             *)
(* reader/writer latch per level; nodes carry a key, a two-word payload   *)
(* (so that a torn copy can be seen) and one forward pointer per level.   *)
(*                                                                         *)
(* Each latch acquisition is a step, and so is each pointer change or     *)
(* payload word written.  Inside a step a thread walks one level under     *)
(* that level's latch, which every writer of the level also takes.  The   *)
(* list height is read without a latch.  Reading an uninitialized node[]  *)
(* slot is a choice of any node; unlocking a latch the thread does not    *)
(* hold is recorded in misuse and otherwise has no effect.                *)
(***************************************************************************)
EXTENDS Naturals, FiniteSets, Sequences

CONSTANTS
  Threads, Keys,        \* Keys: naturals, compared as memcmp compares keys
  Vals,                 \* payload words
  MaxLevel,             \* SKIP_LIST_MAX_LEVEL
  MaxNodes,             \* node allocations available
  MaxOps,               \* operations per thread
  Ops,                  \* the operations threads call
  ScanN,                \* nkeys passed to Scan
  None, Nil, Absent     \* no thread; uninitialized pointer; no value

Levels  == 0 .. MaxLevel - 1
NodeIds == 1 .. MaxNodes
HeadNode    == 0
TailNode    == MaxNodes + 1
Ptr     == NodeIds \cup {HeadNode, TailNode}

VARIABLES
  nodes,          \* nodes[n] = [key, nlevels, next, payload] for n in NodeIds \cup {HeadNode}
  alloc,          \* node ids allocated by NewNode
  freed,          \* node ids deleted
  height,
  latches,        \* latches[i] = [w |-> writer or None, r |-> readers]
  pc, op,         \* op = [k, L, v, incl]: key, nodeLevel, payload, inclusive
  local_height, lv, curr,
  node,           \* the node[] array of predecessors
  nn,             \* the new node of an Insert
  ops,
  misuse,         \* some thread unlocked a latch it did not hold
  srch            \* srch[t]: the payload the last Search returned, or Absent

vars == <<nodes, alloc, freed, height, latches, pc, op, local_height, lv, curr,
          node, nn, ops, misuse, srch>>

-----------------------------------------------------------------------------
(* Helpers.                                                                *)

\* The walk `while (curr->next[i] != &tail && key(curr->next[i]) < key)`.
\* fuel bounds it on a corrupted list.
RECURSIVE WalkLe(_, _, _, _)
WalkLe(c, i, k, fuel) ==
  LET n == nodes[c].next[i] IN
  IF fuel > 0 /\ n # TailNode /\ nodes[n].key <= k THEN WalkLe(n, i, k, fuel - 1) ELSE c

RECURSIVE Walk(_, _, _, _)
Walk(c, i, k, fuel) ==
  LET n == nodes[c].next[i] IN
  IF fuel > 0 /\ n # TailNode /\ nodes[n].key < k THEN Walk(n, i, k, fuel - 1) ELSE c

Fuel == MaxNodes + 1

\* The nodes reachable from c along level i (c excluded).
RECURSIVE ReachFrom(_, _, _)
ReachFrom(c, i, fuel) ==
  LET n == nodes[c].next[i] IN
  IF fuel = 0 \/ n = TailNode \/ n = Nil THEN {} ELSE {n} \cup ReachFrom(n, i, fuel - 1)

Reach(i) == ReachFrom(HeadNode, i, Fuel)

NoWriter(i) == latches[i].w = None
Free(i)     == latches[i].w = None /\ latches[i].r = {}
Holds(t, i) == latches[i].w = t \/ t \in latches[i].r
WrLock(L, t, i) == [L EXCEPT ![i].w = t]
RdLock(L, t, i) == [L EXCEPT ![i].r = @ \cup {t}]

\* pthread_rwlock_unlock on every level of S.
UnlockAll(L, t, S) ==
  [i \in Levels |-> IF i \notin S THEN L[i]
                    ELSE IF L[i].w = t THEN [L[i] EXCEPT !.w = None]
                    ELSE [L[i] EXCEPT !.r = @ \ {t}]]
Unlock(L, t, i) == UnlockAll(L, t, {i})
Misused(t, S) == misuse \/ \E i \in S : ~Holds(t, i)

\* The lookup at level 0: curr->next[0] holds key.
\* (Mutant: the key compared is the predecessor's.)
FoundAtPred(c, k) == c # HeadNode /\ nodes[c].key = k
Found(c, k) == LET nx == nodes[c].next[0] IN nx # TailNode /\ nodes[nx].key = k

Init ==
  /\ nodes = [n \in NodeIds \cup {HeadNode} |->
               [key |-> 0, nlevels |-> IF n = HeadNode THEN MaxLevel ELSE 0,
                next |-> [i \in Levels |-> IF n = HeadNode THEN TailNode ELSE Nil],
                payload |-> <<Absent, Absent>>]]
  /\ alloc = {} /\ freed = {}
  /\ height = 1
  /\ latches = [i \in Levels |-> [w |-> None, r |-> {}]]
  /\ pc = [t \in Threads |-> "idle"]
  /\ op = [t \in Threads |-> [k |-> 0, L |-> 1, v |-> Absent, incl |-> TRUE]]
  /\ local_height = [t \in Threads |-> 1]
  /\ lv = [t \in Threads |-> 0]
  /\ curr = [t \in Threads |-> HeadNode]
  /\ node = [t \in Threads |-> [i \in Levels |-> Nil]]
  /\ nn = [t \in Threads |-> Nil]
  /\ ops = [t \in Threads |-> 0]
  /\ misuse = FALSE
  /\ srch = [t \in Threads |-> Absent]

\* A thread starts an operation.
Begin(t, name) == name \in Ops /\ pc[t] = "idle" /\ ops[t] < MaxOps
                  /\ ops' = [ops EXCEPT ![t] = @ + 1]

-----------------------------------------------------------------------------
(* SkipList::Insert(key, payload).                                         *)

\* Draw nodeLevel, read height without a latch, and enter the loop that
\* write-latches the new levels nodeLevel-1 .. local_height top-down.
InsertStart(t, k, L, v) ==
  /\ Begin(t, "Insert")
  /\ op' = [op EXCEPT ![t] = [k |-> k, L |-> L, v |-> v, incl |-> TRUE]]
  /\ local_height' = [local_height EXCEPT ![t] = height]
  /\ curr' = [curr EXCEPT ![t] = HeadNode]
  /\ node' = [node EXCEPT ![t] = [i \in Levels |-> Nil]]
  /\ IF L > height
       THEN pc' = [pc EXCEPT ![t] = "ins_top"] /\ lv' = [lv EXCEPT ![t] = L - 1]
       ELSE pc' = [pc EXCEPT ![t] = "ins_lvl"] /\ lv' = [lv EXCEPT ![t] = height - 1]
  /\ UNCHANGED <<nodes, alloc, freed, height, latches, nn, misuse, srch>>

\* wrlock(latches[i]); node[i] = &head.
InsertTop(t) ==
  LET i == lv[t] IN
  /\ pc[t] = "ins_top" /\ Free(i)
  /\ latches' = WrLock(latches, t, i)
  /\ node' = [node EXCEPT ![t][i] = HeadNode]
  /\ IF i - 1 >= local_height[t]
       THEN lv' = [lv EXCEPT ![t] = i - 1] /\ UNCHANGED pc
       ELSE /\ lv' = [lv EXCEPT ![t] = local_height[t] - 1]
            /\ pc' = [pc EXCEPT ![t] = "ins_lvl"]
  /\ UNCHANGED <<nodes, alloc, freed, height, op, local_height, curr, nn, ops,
                 misuse, srch>>

\* `node[i] = curr` after the walk at level i.
\* (Mutant: node[i] records the node the walk started from.)
RecordPredStale(t, i, c) == [node EXCEPT ![t][i] = curr[t]]
RecordPred(t, i, c) == [node EXCEPT ![t][i] = c]

\* Levels at or above nodeLevel are only navigated: read-latched.
\* (Mutant: the top level of the new node is read-latched too.)
ReadLatchedOffByOne(i, L) == i >= L - 1
ReadLatched(i, L) == i >= L

\* One iteration of the descent from local_height-1 to 0: read-latch the
\* levels above nodeLevel, write-latch the others, walk, record node[i].
\* At level 0 the key is looked up: a duplicate unlocks everything and
\* returns false; otherwise NewNode(nodeLevel, key, payload).
InsertLevel(t) ==
  LET i == lv[t]  k == op[t].k  L == op[t].L
      c == Walk(curr[t], i, k, Fuel)
      held == IF ReadLatched(i, L) THEN RdLock(latches, t, i) ELSE WrLock(latches, t, i)
      nx == nodes[c].next[0]
      new == CHOOSE n \in NodeIds \ alloc : \A m \in NodeIds \ alloc : n <= m
  IN
  /\ pc[t] = "ins_lvl"
  /\ IF ReadLatched(i, L) THEN NoWriter(i) ELSE Free(i)
  /\ node' = RecordPred(t, i, c)
  /\ curr' = [curr EXCEPT ![t] = c]
  /\ IF i > 0
       THEN /\ latches' = held /\ lv' = [lv EXCEPT ![t] = i - 1]
            /\ UNCHANGED <<nodes, alloc, pc, nn, misuse>>
     ELSE IF Found(c, k)
       THEN LET S == 0 .. (IF L > local_height[t] THEN L ELSE local_height[t]) - 1 IN
            /\ latches' = UnlockAll(held, t, S)
            /\ pc' = [pc EXCEPT ![t] = "idle"]
            /\ UNCHANGED <<nodes, alloc, lv, nn, misuse>>
       ELSE /\ alloc # NodeIds
            /\ latches' = held
            /\ nodes' = [nodes EXCEPT ![new] = [key |-> k, nlevels |-> L,
                          next |-> [j \in Levels |-> Nil], payload |-> <<op[t].v, op[t].v>>]]
            /\ alloc' = alloc \cup {new}
            /\ nn' = [nn EXCEPT ![t] = new]
            /\ pc' = [pc EXCEPT ![t] = "ins_link"]
            /\ lv' = [lv EXCEPT ![t] = 0]
            /\ UNCHANGED misuse
  /\ UNCHANGED <<freed, height, op, local_height, ops, srch>>

\* (Mutant: height raised on every level linked, without the test.)
InsertLinkAlwaysRaise(t) ==
  LET i == lv[t]  p == node[t][i]  n == nn[t]  L == op[t].L IN
  /\ pc[t] = "ins_link"
  /\ nodes' = [nodes EXCEPT ![n].next[i] = nodes[p].next[i], ![p].next[i] = n]
  /\ height' = height + 1
  /\ IF i + 1 < L
       THEN latches' = Unlock(latches, t, i) /\ lv' = [lv EXCEPT ![t] = i + 1]
            /\ UNCHANGED pc
       ELSE /\ latches' = UnlockAll(latches, t, {i} \cup (L .. local_height[t] - 1))
            /\ pc' = [pc EXCEPT ![t] = "idle"] /\ UNCHANGED lv
  /\ UNCHANGED <<alloc, freed, op, local_height, curr, node, nn, ops, misuse, srch>>

\* (Mutant: the new node's successor is the tail, not its predecessor's.)
InsertLinkNoSucc(t) ==
  LET i == lv[t]  p == node[t][i]  n == nn[t]  L == op[t].L IN
  /\ pc[t] = "ins_link"
  /\ nodes' = [nodes EXCEPT ![n].next[i] = TailNode, ![p].next[i] = n]
  /\ height' = IF i > height - 1 THEN height + 1 ELSE height
  /\ IF i + 1 < L
       THEN latches' = Unlock(latches, t, i) /\ lv' = [lv EXCEPT ![t] = i + 1]
            /\ UNCHANGED pc
       ELSE /\ latches' = UnlockAll(latches, t, {i} \cup (L .. local_height[t] - 1))
            /\ pc' = [pc EXCEPT ![t] = "idle"] /\ UNCHANGED lv
  /\ UNCHANGED <<alloc, freed, op, local_height, curr, node, nn, ops, misuse, srch>>

\* Splice the new node in at level i, raise height when i > height - 1
\* (the live height, not local_height), unlock level i; after the last
\* level unlock the read-latched levels nodeLevel .. local_height-1.
InsertLink(t) ==
  LET i == lv[t]  p == node[t][i]  n == nn[t]  L == op[t].L IN
  /\ pc[t] = "ins_link"
  /\ nodes' = [nodes EXCEPT ![n].next[i] = nodes[p].next[i], ![p].next[i] = n]
  /\ height' = IF i > height - 1 THEN height + 1 ELSE height
  /\ IF i + 1 < L
       THEN latches' = Unlock(latches, t, i) /\ lv' = [lv EXCEPT ![t] = i + 1]
            /\ UNCHANGED pc
       ELSE /\ latches' = UnlockAll(latches, t, {i} \cup (L .. local_height[t] - 1))
            /\ pc' = [pc EXCEPT ![t] = "idle"] /\ UNCHANGED lv
  /\ UNCHANGED <<alloc, freed, op, local_height, curr, node, nn, ops, misuse, srch>>

-----------------------------------------------------------------------------
(* SkipList::Search(key, out_payload): hand-over-hand read latches.        *)


SearchStart(t, k) ==
  /\ Begin(t, "Search")
  /\ op' = [op EXCEPT ![t] = [k |-> k, L |-> 1, v |-> Absent, incl |-> TRUE]]
  /\ local_height' = [local_height EXCEPT ![t] = height]
  /\ curr' = [curr EXCEPT ![t] = HeadNode]
  /\ pc' = [pc EXCEPT ![t] = "s_first"]
  /\ UNCHANGED <<nodes, alloc, freed, height, latches, lv, node, nn, misuse, srch>>

\* rdlock(latches[local_height - 1]).
SearchFirst(t) ==
  LET i == local_height[t] - 1 IN
  /\ pc[t] = "s_first" /\ NoWriter(i)
  /\ latches' = RdLock(latches, t, i)
  /\ lv' = [lv EXCEPT ![t] = i]
  /\ pc' = [pc EXCEPT ![t] = "s_lvl"]
  /\ UNCHANGED <<nodes, alloc, freed, height, op, local_height, curr, node, nn,
                 ops, misuse, srch>>

\* Walk level i; above level 0 read-latch level i-1, then unlock level i.
\* At level 0 compare, copy the payload and unlock.
SearchLevel(t) ==
  LET i == lv[t]  k == op[t].k
      c == Walk(curr[t], i, k, Fuel)
      nx == nodes[c].next[0]
  IN
  /\ pc[t] = "s_lvl"
  /\ curr' = [curr EXCEPT ![t] = c]
  /\ IF i > 0
       THEN /\ NoWriter(i - 1)
            /\ latches' = Unlock(RdLock(latches, t, i - 1), t, i)
            /\ lv' = [lv EXCEPT ![t] = i - 1]
            /\ UNCHANGED <<pc, srch>>
       ELSE /\ srch' = [srch EXCEPT ![t] = IF Found(c, k) THEN nodes[nx].payload ELSE Absent]
            /\ latches' = Unlock(latches, t, 0)
            /\ pc' = [pc EXCEPT ![t] = "idle"]
            /\ UNCHANGED lv
  /\ UNCHANGED <<nodes, alloc, freed, height, op, local_height, node, nn, ops, misuse>>

-----------------------------------------------------------------------------
(* SkipList::Update(key, payload): read latches only, level by level; the  *)
(* payload is overwritten under the read latch of level 0, a word a step. *)

UpdateStart(t, k, v) ==
  /\ Begin(t, "Update")
  /\ op' = [op EXCEPT ![t] = [k |-> k, L |-> 1, v |-> v, incl |-> TRUE]]
  /\ local_height' = [local_height EXCEPT ![t] = height]
  /\ lv' = [lv EXCEPT ![t] = height - 1]
  /\ curr' = [curr EXCEPT ![t] = HeadNode]
  /\ pc' = [pc EXCEPT ![t] = "u_lvl"]
  /\ UNCHANGED <<nodes, alloc, freed, height, latches, node, nn, misuse, srch>>

\* rdlock level i, walk, unlock it unless i = 0; at level 0 on a hit write
\* the first payload word.
UpdateLevel(t) ==
  LET i == lv[t]  k == op[t].k
      c == Walk(curr[t], i, k, Fuel)
      nx == nodes[c].next[0]
  IN
  /\ pc[t] = "u_lvl" /\ NoWriter(i)
  /\ IF i > 0
       THEN /\ curr' = [curr EXCEPT ![t] = c] /\ lv' = [lv EXCEPT ![t] = i - 1]
            /\ UNCHANGED <<nodes, latches, pc>>
     ELSE IF Found(c, k)
       THEN /\ nodes' = [nodes EXCEPT ![nx].payload[1] = op[t].v]
            /\ latches' = RdLock(latches, t, 0)
            /\ curr' = [curr EXCEPT ![t] = nx]
            /\ pc' = [pc EXCEPT ![t] = "u_write2"]
            /\ UNCHANGED lv
       ELSE /\ pc' = [pc EXCEPT ![t] = "idle"]
            /\ UNCHANGED <<nodes, latches, lv, curr>>
  /\ UNCHANGED <<alloc, freed, height, op, local_height, node, nn, ops, misuse, srch>>

\* The rest of the memcpy, then unlock level 0.
UpdateWrite2(t) ==
  /\ pc[t] = "u_write2"
  /\ nodes' = [nodes EXCEPT ![curr[t]].payload[2] = op[t].v]
  /\ latches' = Unlock(latches, t, 0)
  /\ pc' = [pc EXCEPT ![t] = "idle"]
  /\ UNCHANGED <<alloc, freed, height, op, local_height, lv, curr, node, nn, ops,
                 misuse, srch>>

-----------------------------------------------------------------------------
(* SkipList::Delete(key): write-latch levels local_height-1 .. 0, collect  *)
(* the predecessors, unlink the victim level by level, free it.            *)

\* node[i] for the levels n-1 .. 0, walking down from c.
RECURSIVE Preds(_, _, _, _)
Preds(n, c, k, acc) ==
  IF n = 0 THEN acc
  ELSE LET d == Walk(c, n - 1, k, Fuel)
       IN  Preds(n - 1, d, k, [acc EXCEPT ![n - 1] = d])

DeleteStart(t, k) ==
  /\ Begin(t, "Delete")
  /\ op' = [op EXCEPT ![t] = [k |-> k, L |-> 1, v |-> Absent, incl |-> TRUE]]
  /\ local_height' = [local_height EXCEPT ![t] = height]
  /\ lv' = [lv EXCEPT ![t] = height - 1]
  /\ node' = [node EXCEPT ![t] = [i \in Levels |-> Nil]]
  /\ pc' = [pc EXCEPT ![t] = "d_lock"]
  /\ UNCHANGED <<nodes, alloc, freed, height, latches, curr, nn, misuse, srch>>

\* wrlock(latches[i]); once level 0 is held, walk every level, then either
\* unlock all and return false, or unlock the levels above the victim's.
DeleteLock(t) ==
  LET i == lv[t]  k == op[t].k  lh == local_height[t]
      held == WrLock(latches, t, i)
      preds == Preds(lh, HeadNode, k, [j \in Levels |-> Nil])
      victim == nodes[preds[0]].next[0]
  IN
  /\ pc[t] = "d_lock" /\ Free(i)
  /\ IF i > 0
       THEN /\ latches' = held /\ lv' = [lv EXCEPT ![t] = i - 1]
            /\ UNCHANGED <<pc, curr, node>>
     ELSE IF ~Found(preds[0], k)
       THEN /\ latches' = UnlockAll(held, t, 0 .. lh - 1)
            /\ pc' = [pc EXCEPT ![t] = "idle"]
            /\ UNCHANGED <<lv, curr, node>>
       ELSE /\ latches' = UnlockAll(held, t, nodes[victim].nlevels .. lh - 1)
            /\ node' = [node EXCEPT ![t] = preds]
            /\ curr' = [curr EXCEPT ![t] = victim]
            /\ pc' = [pc EXCEPT ![t] = "d_unlink"]
            /\ UNCHANGED lv
  /\ UNCHANGED <<nodes, alloc, freed, height, op, local_height, nn, ops, misuse, srch>>

\* One iteration of the unlink loop over the victim's levels: if
\* node[i]->next[i] is the victim, bypass it; unlock level i.  node[i] is
\* uninitialized for i >= local_height.  After the last level, delete.
\* (Mutant: the loop stops after level 0.)
DeleteUnlinkBottomOnly(t) ==
  LET i == lv[t]  v == curr[t]  p0 == node[t][i] IN
  /\ pc[t] = "d_unlink"
  /\ \E p \in IF p0 = Nil THEN {HeadNode} \cup alloc ELSE {p0} :
       nodes' = IF nodes[p].next[i] = v
                  THEN [nodes EXCEPT ![p].next[i] = nodes[v].next[i]] ELSE nodes
  /\ misuse' = Misused(t, {i})
  /\ latches' = Unlock(latches, t, i)
  /\ freed' = freed \cup {v}
  /\ pc' = [pc EXCEPT ![t] = "idle"]
  /\ UNCHANGED <<alloc, height, op, local_height, lv, curr, node, nn, ops, srch>>

DeleteUnlink(t) ==
  LET i == lv[t]  v == curr[t]  p0 == node[t][i] IN
  /\ pc[t] = "d_unlink"
  /\ \E p \in IF p0 = Nil THEN {HeadNode} \cup alloc ELSE {p0} :
       nodes' = IF nodes[p].next[i] = v
                  THEN [nodes EXCEPT ![p].next[i] = nodes[v].next[i]] ELSE nodes
  /\ misuse' = Misused(t, {i})
  /\ latches' = Unlock(latches, t, i)
  /\ IF i + 1 < nodes[v].nlevels
       THEN lv' = [lv EXCEPT ![t] = i + 1] /\ UNCHANGED <<freed, pc>>
       ELSE /\ freed' = freed \cup {v}
            /\ pc' = [pc EXCEPT ![t] = "idle"]
            /\ UNCHANGED lv
  /\ UNCHANGED <<alloc, height, op, local_height, curr, node, nn, ops, srch>>

-----------------------------------------------------------------------------
(* SkipList::Scan(start_key, nkeys, inclusive, out): locate the first key *)
(* like Update, then read along level 0 under its read latch.  The copies *)
(* emitted are not modelled.                                               *)

\* `if (head.next[0] == &tail) return;` then read height; both unlatched.
ScanStart(t, k, incl) ==
  /\ Begin(t, "Scan")
  /\ op' = [op EXCEPT ![t] = [k |-> k, L |-> 1, v |-> Absent, incl |-> incl]]
  /\ IF nodes[HeadNode].next[0] = TailNode
       THEN UNCHANGED <<pc, local_height, lv, curr>>
       ELSE /\ local_height' = [local_height EXCEPT ![t] = height]
            /\ lv' = [lv EXCEPT ![t] = height - 1]
            /\ curr' = [curr EXCEPT ![t] = HeadNode]
            /\ pc' = [pc EXCEPT ![t] = "sc_lvl"]
  /\ UNCHANGED <<nodes, alloc, freed, height, latches, node, nn, misuse, srch>>

\* rdlock level i, walk, unlock it unless i = 0; at level 0 position the
\* cursor on the first key >= start_key (> if not inclusive).
ScanLevel(t) ==
  LET i == lv[t]  k == op[t].k
      c == Walk(curr[t], i, k, Fuel)
      c0 == nodes[c].next[0]
      c1 == IF ~op[t].incl /\ c0 # TailNode /\ nodes[c0].key = k THEN nodes[c0].next[0] ELSE c0
  IN
  /\ pc[t] = "sc_lvl" /\ NoWriter(i)
  /\ IF i > 0
       THEN /\ curr' = [curr EXCEPT ![t] = c] /\ lv' = [lv EXCEPT ![t] = i - 1]
            /\ UNCHANGED <<latches, pc>>
     ELSE IF c1 = TailNode
       THEN pc' = [pc EXCEPT ![t] = "idle"] /\ UNCHANGED <<latches, lv, curr>>
       ELSE /\ latches' = RdLock(latches, t, 0)
            /\ curr' = [curr EXCEPT ![t] = c1]
            /\ pc' = [pc EXCEPT ![t] = "sc_emit"]
            /\ UNCHANGED lv
  /\ UNCHANGED <<nodes, alloc, freed, height, op, local_height, node, nn, ops, misuse, srch>>

\* `for (i = local_height - 1; i >= 1; --i) unlock(latches[i])` (levels
\* the descent already unlocked), copy up to nkeys records along level 0,
\* unlock level 0.
ScanEmit(t) ==
  LET S == 1 .. local_height[t] - 1 IN
  /\ pc[t] = "sc_emit"
  /\ misuse' = Misused(t, S)
  /\ latches' = Unlock(UnlockAll(latches, t, S), t, 0)
  /\ pc' = [pc EXCEPT ![t] = "idle"]
  /\ UNCHANGED <<nodes, alloc, freed, height, op, local_height, lv, curr, node, nn,
                 ops, srch>>

-----------------------------------------------------------------------------

Terminated ==
  /\ \A t \in Threads : pc[t] = "idle" /\ ops[t] = MaxOps
  /\ UNCHANGED vars

Thread(t) ==
  \/ \E k \in Keys, L \in 1 .. MaxLevel, v \in Vals : InsertStart(t, k, L, v)
  \/ InsertTop(t) \/ InsertLevel(t) \/ InsertLink(t)
  \/ \E k \in Keys : SearchStart(t, k) \/ DeleteStart(t, k)
  \/ SearchFirst(t) \/ SearchLevel(t)
  \/ \E k \in Keys, v \in Vals : UpdateStart(t, k, v)
  \/ UpdateLevel(t) \/ UpdateWrite2(t)
  \/ DeleteLock(t) \/ DeleteUnlink(t)
  \/ \E k \in Keys, incl \in BOOLEAN : ScanStart(t, k, incl)
  \/ ScanLevel(t) \/ ScanEmit(t)

Next == (\E t \in Threads : Thread(t)) \/ Terminated

Spec == Init /\ [][Next]_vars

-----------------------------------------------------------------------------
(* Properties.                                                             *)

Pcs == {"idle", "ins_top", "ins_lvl", "ins_link", "s_first", "s_lvl", "u_lvl",
        "u_write2", "d_lock", "d_unlink", "sc_lvl", "sc_emit"}

TypeOK ==
  /\ height \in 1 .. MaxLevel
  /\ alloc \subseteq NodeIds /\ freed \subseteq alloc
  /\ latches \in [Levels -> [w : Threads \cup {None}, r : SUBSET Threads]]
  /\ pc \in [Threads -> Pcs]
  /\ ops \in [Threads -> 0 .. MaxOps]
  /\ misuse \in BOOLEAN

\* Every level is strictly sorted, and head.next[i] is the tail for every
\* level at or above height (spec, testable properties).  Insert links
\* the levels it adds after a head it looked at before another Insert
\* raised the height.
LevelsSorted ==
  /\ \A i \in Levels : \A n \in Reach(i) :
       LET m == nodes[n].next[i] IN m \in NodeIds => nodes[m].key > nodes[n].key
  /\ \A i \in height .. MaxLevel - 1 : nodes[HeadNode].next[i] = TailNode

\* No level links to a node Delete has freed: Delete unlinks the victim
\* from every level it occupies.
NoDanglingLink == \A i \in Levels : Reach(i) \cap freed = {}

\* No thread unlocks a latch it does not hold (pthread_rwlock_unlock on
\* such a latch is undefined).
LatchDiscipline == ~misuse

\* A Search never returns a torn payload: readers never see half of an
\* Update's overwrite (spec, skip-list concurrency).
SearchNeverTorn == \A t \in Threads : srch[t] # Absent => srch[t][1] = srch[t][2]

\* The map the list stands for: the nodes linked at level 0, each key with
\* its whole payload.  An Update linearizes at its first word write: while
\* some Update is between its two writes to a node, the node stands for
\* the first word twice.  Two nodes with one key, or a payload mixed from
\* two writes, map to a value no operation can write.
Updating(n) == \E t \in Threads : pc[t] = "u_write2" /\ curr[t] = n

AbsVal(k) ==
  LET S == {n \in Reach(0) : nodes[n].key = k}
      n == CHOOSE m \in S : TRUE
  IN
  IF S = {} THEN Absent
  ELSE IF \E a, b \in S : a # b THEN <<Nil, Nil>>
  ELSE IF Updating(n) THEN <<nodes[n].payload[1], nodes[n].payload[1]>>
  ELSE nodes[n].payload

\* The skip list implements the abstract map of whole payloads: Insert adds
\* an absent key at the moment it links level 0, Update overwrites, Delete
\* removes.
Abs == INSTANCE AbstractMap WITH map <- [k \in Keys |-> AbsVal(k)],
                                 Vals <- {<<v, v>> : v \in Vals}
RefinesAbstractMap == Abs!Spec

\* A Search returns, at the step where it reads level 0, exactly what the
\* abstract map holds for its key: Absent or the whole payload.
SearchLinearizable ==
  [][\A t \in Threads :
       (pc[t] = "s_lvl" /\ lv[t] = 0 /\ pc'[t] = "idle") =>
          srch'[t] = AbsVal(op[t].k)]_vars

=============================================================================
