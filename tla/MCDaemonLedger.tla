---------------------------- MODULE MCDaemonLedger ----------------------------
(* DaemonLedger for TLC: two events, a creation row and up to three more. *)
EXTENDS DaemonLedger

=============================================================================
