------------------------------ MODULE AuditLog ------------------------------
(***************************************************************************)
(* What an audit sink promises (docs/audit-store.md): a log that only ever *)
(* grows by one event at a time, and checkpoints, each of which vouches    *)
(* for everything the log held when it was made.                           *)
(***************************************************************************)
EXTENDS Naturals, Sequences

CONSTANT Events
VARIABLES log, vouched

Init == log = <<>> /\ vouched = {}

Record(e) == log' = Append(log, e) /\ UNCHANGED vouched

Vouch == vouched' = vouched \cup {log} /\ UNCHANGED log

Next == Vouch \/ \E e \in Events : Record(e)

Spec == Init /\ [][Next]_<<log, vouched>>
=============================================================================
