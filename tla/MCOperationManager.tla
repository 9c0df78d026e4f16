------------------------- MODULE MCOperationManager -------------------------
(* Two processes and a ROS 2 action. *)
EXTENDS OperationManager

CONSTANTS p1, p2, a1

MCProcesses == {p1, p2}
MCActions == {a1}
OneProcess == {p1}

=============================================================================
