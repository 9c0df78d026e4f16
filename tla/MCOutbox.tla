------------------------------ MODULE MCOutbox ------------------------------
(* Instance of Outbox for TLC. *)
EXTENDS Outbox

CONSTANTS k1, k2, p1, w1, w2, noWorker

MCKeys == {k1, k2}
MCPayloads == {p1}
MCWorkers == {w1, w2}

=============================================================================
