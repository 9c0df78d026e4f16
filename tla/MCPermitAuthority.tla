--------------------------- MODULE MCPermitAuthority ---------------------------
(* PermitAuthority for TLC: two permits of one session, the second good for   *)
(* two uses, and three actions, one of which the first permit does not match. *)
EXTENDS PermitAuthority

CONSTANTS p1, p2, a1, a2, a3, s1

MCPermit == {p1, p2}
MCAction == {a1, a2, a3}
MCSession == {s1}
MCSessionOf == [p \in MCPermit |-> s1]
MCMaxUses == [p \in MCPermit |-> IF p = p1 THEN 1 ELSE 2]
MCBinds == (MCPermit \X MCAction) \ {<<p1, a3>>}

=============================================================================
