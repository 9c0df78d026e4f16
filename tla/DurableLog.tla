------------------------------- MODULE DurableLog -------------------------------
(***************************************************************************)
(* What the rest of rosclawd may rely on when it uses the daemon ledger:   *)
(* an append-only log that survives crashes.  An append either becomes     *)
(* durable, or is refused without a trace, or fails and takes the handle   *)
(* down with it (the outcome of the failed append being unknown until the  *)
(* next open).  Whoever opens or reads the log sees all of it.             *)
(*                                                                         *)
(* DaemonLedger is shown to implement this module; PermitAuthority and     *)
(* ControlPlane are built on its actions.                                  *)
(***************************************************************************)
EXTENDS Sequences

CONSTANT Event      \* what is appended

VARIABLES
    log,            \* the durable sequence of events
    status,         \* of the process's handle: "down", "open" or "failed"
    seen            \* what the last open or read returned

vars == <<log, status, seen>>

TypeOK ==
    /\ log \in Seq(Event)
    /\ status \in {"down", "open", "failed"}
    /\ seen \in Seq(Event)

Init ==
    /\ log = <<>>
    /\ status = "down"
    /\ seen = <<>>

Open ==
    /\ status = "down"
    /\ status' = "open"
    /\ seen' = log
    /\ UNCHANGED log

Read ==
    /\ status = "open"
    /\ seen' = log
    /\ UNCHANGED <<log, status>>

(* append() returned. *)
AppendOk(e) ==
    /\ status = "open"
    /\ log' = Append(log, e)
    /\ UNCHANGED <<status, seen>>

(* append() raised without touching the log or the handle. *)
AppendRefused ==
    UNCHANGED vars

(* append() raised and the handle is unusable from now on; the event may or *)
(* may not be found by the next open.                                       *)
AppendFails(e) ==
    /\ status = "open"
    /\ status' = "failed"
    /\ log' \in {log, Append(log, e)}
    /\ UNCHANGED seen

(* The handle noticed damage done from outside. *)
Fail ==
    /\ status = "open"
    /\ status' = "failed"
    /\ UNCHANGED <<log, seen>>

(* The process crashed or closed the handle. *)
Down ==
    /\ status # "down"
    /\ status' = "down"
    /\ UNCHANGED <<log, seen>>

Next ==
    \/ Open
    \/ Read
    \/ \E e \in Event : AppendOk(e) \/ AppendFails(e)
    \/ Fail
    \/ Down

Spec == Init /\ [][Next]_vars

=============================================================================
