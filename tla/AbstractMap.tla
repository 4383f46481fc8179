---------------------------- MODULE AbstractMap ----------------------------
(***************************************************************************)
(* What the skip list promises: an ordered map from keys to payloads in   *)
(* which insert adds an absent key, update overwrites a present key's     *)
(* payload and delete removes a present key, each atomically.             *)
(***************************************************************************)
CONSTANTS Keys, Vals, Absent

VARIABLE map            \* map[k] is k's payload, or Absent

Init == map = [k \in Keys |-> Absent]

Put(k, v)    == map[k] = Absent /\ map' = [map EXCEPT ![k] = v]
Set(k, v)    == map[k] # Absent /\ map' = [map EXCEPT ![k] = v]
Remove(k)    == map[k] # Absent /\ map' = [map EXCEPT ![k] = Absent]

Next == \E k \in Keys : Remove(k) \/ \E v \in Vals : Put(k, v) \/ Set(k, v)

Spec == Init /\ [][Next]_map

=============================================================================
