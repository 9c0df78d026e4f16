----------------------------- MODULE MCWorkerManager -----------------------------
(* WorkerManager for TLC. *)
EXTENDS WorkerManager

CONSTANTS o1, o2

=============================================================================
