---------------------------- MODULE AbstractLog ----------------------------
(***************************************************************************)
(* What the log manager promises its callers: an append-only sequence of  *)
(* records whose durable part is a prefix that only grows, and that a     *)
(* flush extends to the whole sequence.  A record is never lost,          *)
(* duplicated or reordered.                                                *)
(***************************************************************************)
EXTENDS Naturals, Sequences

CONSTANT Records          \* the records callers may append

VARIABLES
  log,                    \* every record appended, in append order
  ndurable                \* length of the durable prefix of log

Init == log = <<>> /\ ndurable = 0

\* A log call appends one record.
AppendRecord == \E r \in Records : log' = Append(log, r) /\ UNCHANGED ndurable

\* A successful flush makes everything appended so far durable.
Sync == ndurable' = Len(log) /\ UNCHANGED log

Next == AppendRecord \/ Sync

Spec == Init /\ [][Next]_<<log, ndurable>>

=============================================================================
