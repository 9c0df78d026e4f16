----------------------------- MODULE MCControlPlane -----------------------------
(* ControlPlane for TLC. *)
EXTENDS ControlPlane, TLC

CONSTANTS a1, a2, s1

MCOneSession == [a \in {a1, a2} |-> s1]

MCOneAction == [a \in {a1} |-> s1]

Symmetry == Permutations({a1, a2})

=============================================================================
