----------------------------- MODULE MCActionGateway -----------------------------
(* ActionGateway for TLC: a REAL action and a FIXTURE on one body. *)
EXTENDS ActionGateway, TLC

CONSTANTS c1, c2, c3, a1, a2, b1

MCBodyOf == [a \in {a1, a2} |-> b1]
MCRequired == [a \in {a1, a2} |-> IF a = a1 THEN 4 ELSE 2]

Symmetry == Permutations(Caller)

=============================================================================
