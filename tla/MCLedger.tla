------------------------------ MODULE MCLedger ------------------------------
(***************************************************************************)
(* Two writers of one process and one of another on the same database.     *)
(***************************************************************************)
EXTENDS Ledger

MCWriters == {"w1", "w2", "v1"}
MCProcesses == {"w", "v"}
MCProcessOf == [x \in MCWriters |-> IF x = "v1" THEN "v" ELSE "w"]
=============================================================================
