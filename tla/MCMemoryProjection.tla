------------------------- MODULE MCMemoryProjection -------------------------
(* Two memories, each written at most twice. *)
EXTENDS MemoryProjection

CONSTANTS k1, k2, w1, w2, noWorker

MCKeys == {k1, k2}
MCPayloads == 1..2
MCWorkers == {w1, w2}

=============================================================================
