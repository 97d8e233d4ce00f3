------------------------------ MODULE EventLog ------------------------------
(***************************************************************************)
(* What the ledger of a run promises: an append-only list of events.       *)
(***************************************************************************)
EXTENDS Sequences

CONSTANT Events

VARIABLE log

Init == log = <<>>

Next == \E e \in Events : log' = Append(log, e)

Spec == Init /\ [][Next]_log
=============================================================================
