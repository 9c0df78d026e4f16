-------------------------- MODULE OperationManager --------------------------
(***************************************************************************)
(* Long-running operations of the agent daemon                             *)
(* (task_kernel/operation_manager.py): processes started under a shell     *)
(* wrapper that leaves the exit code in a file, and ROS 2 actions driven   *)
(* through connectors/ros/action_client.py.  The manager runs on one event *)
(* loop: an action below is a stretch of a coroutine between two awaits.   *)
(* The wrapper, its child, the action server and a crash of the daemon     *)
(* come in between.                                                        *)
(*                                                                         *)
(* row is the table of operations, which outlives a crash; mem the         *)
(* coroutines and callbacks, which do not; os what runs outside.  Every    *)
(* statement commits by itself, so a crash falls between any two steps.    *)
(***************************************************************************)
EXTENDS Naturals

CONSTANTS
    Processes, Actions,     \* operations, by provider
    MaxCrashes,             \* bound: restarts of the daemon
    MaxKills                \* bound: wrappers killed from outside

ASSUME OperationAssumption ==
    /\ Processes \cap Actions = {}
    /\ MaxCrashes \in Nat /\ MaxKills \in Nat

VARIABLES row, mem, os, up, interrupted, crashes, kills

vars == <<row, mem, os, up, interrupted, crashes, kills>>

Operations == Processes \cup Actions

Terminal == {"SUCCEEDED", "FAILED", "CANCELLED", "LOST"}

Open == {"QUEUED", "ADMITTED", "RUNNING", "DEGRADED"}

\* driver: where start, _drive or _watch_pid stands, or "listen" while the
\* callbacks of an action are registered; canceler: what a cancellation waits
\* for; boot: how far recover_on_boot has come with the row.
Mem == [driver : {"none", "spawn", "start", "read", "wait", "watch", "listen"},
        canceler : {"none", "wait", "grace"},
        boot : {"done", "todo", "read"}]

\* run: the child, or the goal at the action server; code: the exit code file.
Os == [wrapper : {"none", "alive", "dead"},
       run : {"none", "running", "ok", "bad", "canceled"},
       code : {"none", "ok", "bad"}]

\* stale: heartbeat_at is older than stale_after_s.
Row == [state : Terminal \cup Open \cup {"NONE", "CANCELING"},
        pid : BOOLEAN, stale : BOOLEAN]

\* interrupted: operations whose cancellation a crash cut off.
TypeOK ==
    /\ row \in [Operations -> Row]
    /\ mem \in [Operations -> Mem]
    /\ os \in [Operations -> Os]
    /\ up \in BOOLEAN
    /\ interrupted \in SUBSET Operations
    /\ crashes \in 0..MaxCrashes
    /\ kills \in 0..MaxKills

NoTask == [driver |-> "none", canceler |-> "none", boot |-> "done"]

Init ==
    /\ row = [o \in Operations |-> [state |-> "NONE", pid |-> FALSE, stale |-> FALSE]]
    /\ mem = [o \in Operations |-> NoTask]
    /\ os = [o \in Operations |-> [wrapper |-> "none", run |-> "none", code |-> "none"]]
    /\ up = TRUE
    /\ interrupted = {} /\ crashes = 0 /\ kills = 0

\* The event loop serves requests once recover_on_boot is through.
Ready == up /\ \A o \in Operations : mem[o].boot = "done"

-----------------------------------------------------------------------------
(* The ledger *)

\* Terminal states are final; under CANCELING only CANCELLED is accepted.
Refused(r, state) ==
    \/ r.state \in Terminal \cup {"NONE"}
    \/ r.state = "CANCELING" /\ state # "CANCELLED"

Transition(r, state) ==
    IF Refused(r, state) THEN r ELSE [r EXCEPT !.state = state, !.stale = FALSE]

\* Variant: a late completion overwrites CANCELING.
WriteTerminal_Late(r, state) ==
    IF r.state \in Terminal \cup {"NONE"} THEN r
    ELSE [r EXCEPT !.state = state, !.stale = FALSE]

WriteTerminal(r, state) ==
    IF Refused(r, state) THEN r ELSE [r EXCEPT !.state = state, !.stale = FALSE]

Touch(r) == IF r.state \in Terminal THEN r ELSE [r EXCEPT !.stale = FALSE]

Outcome(code) == IF code = "ok" THEN "SUCCEEDED" ELSE "FAILED"

-----------------------------------------------------------------------------
(* A process *)

\* start: the row, then the await of create_subprocess_exec.
Start(o) ==
    /\ Ready /\ o \in Processes /\ row[o].state = "NONE"
    /\ row' = [row EXCEPT ![o].state = "QUEUED"]
    /\ mem' = [mem EXCEPT ![o].driver = "spawn"]
    /\ UNCHANGED <<os, up, interrupted, crashes, kills>>

Spawn(o) ==
    /\ mem[o].driver = "spawn" /\ os[o].wrapper = "none"
    /\ os' = [os EXCEPT ![o].wrapper = "alive", ![o].run = "running"]
    /\ UNCHANGED <<row, mem, up, interrupted, crashes, kills>>

\* create_subprocess_exec raises, for a cwd that is not there: start raises.
SpawnFails(o) ==
    /\ mem[o].driver = "spawn" /\ os[o].wrapper = "none"
    /\ mem' = [mem EXCEPT ![o].driver = "none"]
    /\ UNCHANGED <<row, os, up, interrupted, crashes, kills>>

\* start goes on: the process is known, the pid stored, the driver created.
Admit(o) ==
    /\ mem[o].driver = "spawn" /\ os[o].wrapper # "none"
    /\ row' = [row EXCEPT ![o] = [Transition(row[o], "ADMITTED") EXCEPT !.pid = TRUE]]
    /\ mem' = [mem EXCEPT ![o].driver = "start"]
    /\ UNCHANGED <<os, up, interrupted, crashes, kills>>

DriveStart(o) ==
    /\ mem[o].driver = "start"
    /\ row' = [row EXCEPT ![o] = Transition(row[o], "RUNNING")]
    /\ mem' = [mem EXCEPT ![o].driver = "read"]
    /\ UNCHANGED <<os, up, interrupted, crashes, kills>>

\* A line of output, or the feedback of an action: a heartbeat.
Heartbeat(o) ==
    /\ mem[o].driver \in {"read", "listen"} /\ os[o].run = "running"
    /\ row' = [row EXCEPT ![o] = Touch(row[o])]
    /\ UNCHANGED <<mem, os, up, interrupted, crashes, kills>>

\* readline raises (a line over the limit): output is no longer read.
ReaderFails(o) ==
    /\ mem[o].driver = "read" /\ os[o].run = "running"
    /\ mem' = [mem EXCEPT ![o].driver = "wait"]
    /\ UNCHANGED <<row, os, up, interrupted, crashes, kills>>

\* Variant: the exit code of the wrapper, which is printf's, is believed.
Effective_Wrapper(o) == "ok"

\* The exit code file; without one the wrapper was killed or could not write
\* it, and its own return code is not zero.
Effective(o) == IF os[o].code # "none" THEN os[o].code ELSE "bad"

\* _drive after the last line: the pipe is closed by the wrapper and the
\* child; after a reader error only the wrapper is waited for.
DriveEnd(o) ==
    /\ mem[o].driver \in {"read", "wait"}
    /\ os[o].wrapper = "dead"
    /\ mem[o].driver = "read" => os[o].run # "running"
    /\ mem' = [mem EXCEPT ![o].driver = "none"]
    /\ IF row[o].state \in {"CANCELING", "CANCELLED"}
       THEN UNCHANGED row
       ELSE row' = [row EXCEPT ![o] = WriteTerminal(row[o], Outcome(Effective(o)))]
    /\ UNCHANGED <<os, up, interrupted, crashes, kills>>

-----------------------------------------------------------------------------
(* A ROS 2 action *)

\* start_action: send_goal, then ADMITTED and RUNNING without an await;
\* send_goal may raise, with the row already there.
StartAction(o) ==
    /\ Ready /\ o \in Actions /\ row[o].state = "NONE"
    /\ \/ /\ row' = [row EXCEPT ![o].state = "RUNNING"]
          /\ mem' = [mem EXCEPT ![o].driver = "listen"]
          /\ os' = [os EXCEPT ![o].run = "running"]
       \/ row' = [row EXCEPT ![o].state = "QUEUED"] /\ UNCHANGED <<mem, os>>
    /\ UNCHANGED <<up, interrupted, crashes, kills>>

\* The listener hands the result over to the event loop.
OnResult(o) ==
    /\ mem[o].driver = "listen" /\ os[o].run # "running"
    /\ mem' = [mem EXCEPT ![o].driver = "none"]
    /\ row' = [row EXCEPT ![o] = WriteTerminal(row[o],
          IF os[o].run = "canceled" THEN "CANCELLED" ELSE Outcome(os[o].run))]
    /\ UNCHANGED <<os, up, interrupted, crashes, kills>>

-----------------------------------------------------------------------------
(* Cancellation *)

Cancelled(o) == [row EXCEPT ![o] = WriteTerminal([row[o] EXCEPT !.state = "CANCELING"], "CANCELLED")]

Canceling(o, canceler) ==
    /\ row' = [row EXCEPT ![o].state = "CANCELING", ![o].stale = FALSE]
    /\ mem' = [mem EXCEPT ![o].canceler = canceler]

\* Variant: when cancel_goal raises there is no grace task.
CancelAction_NoGrace(o) ==
    /\ Ready /\ row[o].state \in Open \cup {"CANCELING"}
    /\ mem[o].driver = "listen"
    /\ \E canceler \in {"none", "grace"} : Canceling(o, canceler)
    /\ UNCHANGED <<os, up, interrupted, crashes, kills>>

\* cancel of an action: the grace task, then cancel_goal, whose error is
\* logged.
CancelAction(o) ==
    /\ Ready /\ row[o].state \in Open \cup {"CANCELING"}
    /\ mem[o].driver = "listen"
    /\ Canceling(o, "grace")
    /\ UNCHANGED <<os, up, interrupted, crashes, kills>>

\* _procs has the process; a cancel takes it out.
Owned(o) == mem[o].driver \in {"start", "read", "wait"} /\ row[o].state # "CANCELING"

\* cancel of a running process: SIGTERM ends the wrapper, not its child.  A
\* wrapper that is gone may not have been noticed yet.
CancelProcess(o) ==
    /\ Ready /\ row[o].state \in Open
    /\ Owned(o)
    /\ Canceling(o, "wait")
    /\ os' = [os EXCEPT ![o].wrapper = "dead"]
    /\ UNCHANGED <<up, interrupted, crashes, kills>>

\* cancel with nothing to signal: no process is known (not spawned yet,
\* reattached, taken out by an earlier cancel) or it has ended.
CancelLedger(o) ==
    /\ Ready /\ row[o].state \in Open \cup {"CANCELING"}
    /\ mem[o].driver # "listen"
    /\ ~Owned(o) \/ os[o].wrapper = "dead"
    /\ row' = Cancelled(o)
    /\ UNCHANGED <<mem, os, up, interrupted, crashes, kills>>

\* The wait ends or times out; the grace period is over.
CancelEnds(o) ==
    /\ Ready /\ mem[o].canceler # "none"
    /\ mem' = [mem EXCEPT ![o].canceler = "none"]
    /\ row' = [row EXCEPT ![o] = WriteTerminal(row[o], "CANCELLED")]
    /\ UNCHANGED <<os, up, interrupted, crashes, kills>>

-----------------------------------------------------------------------------
(* Liveness sweep *)

Swept(r) ==
    IF r.stale /\ r.state \in Open \ {"DEGRADED"} THEN Transition(r, "DEGRADED")
    ELSE IF ~r.stale /\ r.state = "DEGRADED" THEN Transition(r, "RUNNING")
    ELSE r

SweepLiveness ==
    /\ Ready
    /\ row' = [o \in Operations |-> Swept(row[o])]
    /\ UNCHANGED <<mem, os, up, interrupted, crashes, kills>>

HeartbeatAges(o) ==
    /\ row[o].state \in Open /\ ~row[o].stale
    /\ row' = [row EXCEPT ![o].stale = TRUE]
    /\ UNCHANGED <<mem, os, up, interrupted, crashes, kills>>

-----------------------------------------------------------------------------
(* Crash and recovery *)

Crash ==
    /\ up /\ crashes < MaxCrashes
    /\ up' = FALSE
    /\ crashes' = crashes + 1
    /\ mem' = [o \in Operations |-> NoTask]
    /\ interrupted' = interrupted \cup {o \in Operations : row[o].state = "CANCELING"}
    /\ UNCHANGED <<row, os, kills>>

\* recover_on_boot selects the rows it looks at.
Boot ==
    /\ ~up
    /\ up' = TRUE
    /\ mem' = [o \in Operations |-> [NoTask EXCEPT !.boot =
          IF row[o].state \in Open \cup {"CANCELING"} THEN "todo" ELSE "done"]]
    /\ UNCHANGED <<row, os, interrupted, crashes, kills>>

\* One row after the other: the exit code file first.
RecoverCode(o) ==
    /\ mem[o].boot = "todo" /\ \A p \in Operations : mem[p].boot # "read"
    /\ IF os[o].code # "none"
       THEN /\ row' = [row EXCEPT ![o] = WriteTerminal(row[o], Outcome(os[o].code))]
            /\ mem' = [mem EXCEPT ![o].boot = "done"]
       ELSE mem' = [mem EXCEPT ![o].boot = "read"] /\ UNCHANGED row
    /\ UNCHANGED <<os, up, interrupted, crashes, kills>>

\* Variant: the process is noted as found, and no watcher is created.
RecoverPid_Unwatched(o) ==
    /\ mem[o].boot = "read"
    /\ mem' = [mem EXCEPT ![o] = NoTask]
    /\ row' = [row EXCEPT ![o] = IF row[o].pid /\ os[o].wrapper = "alive"
          THEN Transition(row[o], "DEGRADED") ELSE WriteTerminal(row[o], "LOST")]
    /\ UNCHANGED <<os, up, interrupted, crashes, kills>>

\* Then the pid: reattach or LOST.
RecoverPid(o) ==
    /\ mem[o].boot = "read"
    /\ IF row[o].pid /\ os[o].wrapper = "alive"
       THEN /\ row' = [row EXCEPT ![o] = Transition(row[o], "DEGRADED")]
            /\ mem' = [mem EXCEPT ![o] = [NoTask EXCEPT !.driver = "watch"]]
       ELSE /\ row' = [row EXCEPT ![o] = WriteTerminal(row[o], "LOST")]
            /\ mem' = [mem EXCEPT ![o] = NoTask]
    /\ UNCHANGED <<os, up, interrupted, crashes, kills>>

\* _watch_pid: the wrapper is gone, or its exit code is there.
WatchEnd(o) ==
    /\ Ready /\ mem[o].driver = "watch"
    /\ os[o].wrapper = "dead" \/ os[o].code # "none"
    /\ mem' = [mem EXCEPT ![o].driver = "none"]
    /\ IF row[o].state \in Terminal \cup {"CANCELING"}
       THEN UNCHANGED row
       ELSE row' = [row EXCEPT ![o] = WriteTerminal(row[o],
              IF os[o].code # "none" THEN Outcome(os[o].code) ELSE "LOST")]
    /\ UNCHANGED <<os, up, interrupted, crashes, kills>>

-----------------------------------------------------------------------------
(* Outside *)

\* The child exits; the action server ends the goal.
RunEnds(o) ==
    /\ os[o].run = "running"
    /\ \E end \in {"ok", "bad"} \cup IF o \in Actions THEN {"canceled"} ELSE {} :
          os' = [os EXCEPT ![o].run = end]
    /\ UNCHANGED <<row, mem, up, interrupted, crashes, kills>>

\* The wrapper writes the exit code file, if the disk takes it, and exits.
WrapperEnds(o) ==
    /\ os[o].wrapper = "alive" /\ os[o].run # "running"
    /\ \E code \in {os[o].run, "none"} :
          os' = [os EXCEPT ![o].wrapper = "dead", ![o].code = code]
    /\ UNCHANGED <<row, mem, up, interrupted, crashes, kills>>

WrapperKilled(o) ==
    /\ os[o].wrapper = "alive" /\ kills < MaxKills
    /\ os' = [os EXCEPT ![o].wrapper = "dead"]
    /\ kills' = kills + 1
    /\ UNCHANGED <<row, mem, up, interrupted, crashes>>

-----------------------------------------------------------------------------

\* What the event loop gets to without anyone asking.
Progress(o) ==
    \/ Spawn(o) \/ SpawnFails(o) \/ Admit(o) \/ DriveStart(o) \/ DriveEnd(o)
    \/ CancelEnds(o) \/ RecoverCode(o) \/ RecoverPid(o) \/ WatchEnd(o)

Next ==
    \/ \E o \in Operations :
          \/ Progress(o)
          \/ Start(o) \/ StartAction(o) \/ OnResult(o)
          \/ Heartbeat(o) \/ ReaderFails(o) \/ HeartbeatAges(o)
          \/ CancelAction(o) \/ CancelProcess(o) \/ CancelLedger(o)
          \/ RunEnds(o) \/ WrapperEnds(o) \/ WrapperKilled(o)
    \/ SweepLiveness \/ Crash \/ Boot

\* The event loop runs every task that is ready, timers fire, and a daemon
\* that went down is started again.  Nothing is assumed of the child, the
\* action server or the callers.
Fairness ==
    /\ \A o \in Operations :
          /\ WF_vars(Spawn(o) \/ SpawnFails(o) \/ Admit(o) \/ DriveStart(o) \/ DriveEnd(o))
          /\ WF_vars(CancelEnds(o))
          /\ WF_vars(RecoverCode(o) \/ RecoverPid(o))
          /\ WF_vars(WatchEnd(o))
    /\ WF_vars(Boot)

Spec == Init /\ [][Next]_vars /\ Fairness

-----------------------------------------------------------------------------
(* Properties *)

\* A late completion never overwrites the ledger: a terminal state is final,
\* and a cancellation that has begun ends as CANCELLED whatever the driver,
\* the action's result, the watcher, a sweep or a restart report meanwhile.
LedgerStands ==
    [][\A o \in Operations :
          /\ row[o].state \in Terminal => row'[o].state = row[o].state
          /\ row[o].state = "CANCELING" => row'[o].state \in {"CANCELING", "CANCELLED"}]_row

\* A success is real, across crashes and reattachment: the child exited with
\* 0, the goal succeeded.  (The wrapper's own exit code is 0 either way.)
SucceededIsReal ==
    \A o \in Operations : row[o].state = "SUCCEEDED" => os[o].run = "ok"

\* No zombie rows: when the process behind an operation is gone, the driver,
\* the watcher or the recovery puts a terminal state on record, unless a
\* crash cut its cancellation off.
EndIsRecorded ==
    \A o \in Processes :
        os[o].wrapper = "dead" /\ os[o].run # "running"
            ~> row[o].state \in Terminal \/ o \in interrupted

\* A cancellation that no crash cuts off completes, answered or not.
CancelCompletes ==
    \A o \in Operations :
        row[o].state = "CANCELING" ~> row[o].state = "CANCELLED" \/ o \in interrupted

\* "pid dead and an exit code file: the real terminal state is applied;
\* otherwise LOST": no operation is recorded LOST while its exit code file
\* is there.
LostIsUnverifiable ==
    [][\A o \in Operations :
          row[o].state # "LOST" /\ row'[o].state = "LOST" => os[o].code = "none"]_vars

\* "heartbeat expired: DEGRADED; recovered: RUNNING": an operation that was
\* reattached, whose output nobody reads, is not reported RUNNING.
ReattachedIsDegraded ==
    \A o \in Processes : mem[o].driver = "watch" => row[o].state # "RUNNING"

\* "a restart settles it as LOST": no cancellation stays open for ever.
CancelSettles == \A o \in Operations : row[o].state = "CANCELING" ~> row[o].state \in Terminal

=============================================================================
