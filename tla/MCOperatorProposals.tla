---------------------------- MODULE MCOperatorProposals ----------------------------
(* Instances of OperatorProposals for TLC. *)
EXTENDS OperatorProposals, TLC

Symmetry == Permutations(Proposal) \cup Permutations(Lister)

=============================================================================
