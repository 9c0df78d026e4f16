------------------------------ MODULE WorkerManager ------------------------------
(***************************************************************************)
(* The supervision of one adapter worker (workers share nothing but the    *)
(* lock): operators start and stop it, the monitor thread restarts it when *)
(* it exits or falls silent, its messages change its state, and every new  *)
(* process is reported to the control plane as a new connection.           *)
(*                                                                         *)
(* A process, and the connection made for it, is named by its generation.  *)
(* Terminating a process happens outside the lock, between two critical    *)
(* sections of the thread that does it, and may time out: an exception    *)
(* that ends the request, or the monitor thread.                           *)
(***************************************************************************)
EXTENDS Naturals

CONSTANTS
    Operator,       \* threads that serve start, stop and restart requests
    Monitor,        \* the monitor thread
    RestartLimit,   \* restart_limit
    MaxPrunes       \* bound: restarts that leave the restart window

ASSUME WorkerAssumption ==
    /\ Monitor \notin Operator
    /\ {RestartLimit, MaxPrunes} \subseteq Nat

VARIABLES
    state,          \* state of the worker
    process,        \* process; 0 is None
    generation,     \* generation
    connection,     \* connection_id; 0 is None
    desired,        \* desired_running
    ready,          \* the ready event
    restarts,       \* length of restart_times
    alive,          \* processes the operating system runs
    doomed,         \* processes somebody is terminating
    spoken,         \* history: processes that have sent a message
    pc,             \* where each thread is
    held,           \* the process a thread waits for
    report,         \* the old and new connection a thread has to report
    deaf,           \* processes whose reader thread has given up
    outstanding,    \* permits are outstanding at the control plane
    prunes

vars == <<state, process, generation, connection, desired, ready, restarts, alive, doomed,
          spoken, deaf, pc, held, report, outstanding, prunes>>
record == <<state, process, generation, connection, ready, restarts, prunes>>
world == <<alive, doomed, spoken, deaf>>

Thread == Operator \cup {Monitor}
Generation == 1 .. RestartLimit + MaxPrunes + 1
Process == {0} \cup Generation
Where == {"idle", "called", "notify", "waiting", "ending", "stopping", "restarting", "dead"}
None == [old |-> 0, new |-> 0]

TypeOK ==
    /\ state \in {"STOPPED", "STARTING", "READY", "DEGRADED", "FAILED", "STOPPING"}
    /\ process \in Process /\ generation \in Process /\ connection \in Process
    /\ desired \in BOOLEAN /\ ready \in BOOLEAN
    /\ restarts \in 0 .. RestartLimit
    /\ alive \subseteq Generation /\ doomed \subseteq Generation /\ spoken \subseteq Generation
    /\ pc \in [Thread -> Where]
    /\ held \in [Thread -> Process]
    /\ report \in [Thread -> [old : Process, new : Process]]
    /\ deaf \subseteq Generation
    /\ outstanding \in BOOLEAN
    /\ prunes \in 0 .. MaxPrunes

Init ==
    /\ state = "STOPPED"
    /\ process = 0 /\ generation = 0 /\ connection = 0
    /\ desired = FALSE /\ ready = FALSE
    /\ restarts = 0
    /\ alive = {} /\ doomed = {} /\ spoken = {}
    /\ pc = [t \in Thread |-> "idle"]
    /\ held = [t \in Thread |-> 0]
    /\ report = [t \in Thread |-> None]
    /\ deaf = {}
    /\ outstanding = FALSE
    /\ prunes = 0

Goto(t, p) == pc' = [pc EXCEPT ![t] = p]

Terminate(p) == doomed' = doomed \cup ({p} \ {0})

-----------------------------------------------------------------------------
(* _spawn_locked *)

(* Restarts older than the window no longer count. *)
Prune(n) ==
    /\ n \in 0 .. restarts
    /\ prunes + (restarts - n) <= MaxPrunes
    /\ prunes' = prunes + (restarts - n)

(* The monitor always restarts; an operator does, but for the first process. *)
IsRestart(t) == t = Monitor \/ generation > 0

(* The budget of a spawn after n restarts in the window. *)
MaySpawn(t, n) == IsRestart(t) => n < RestartLimit

Spawn(t, n) ==
    /\ MaySpawn(t, n)
    /\ restarts' = IF IsRestart(t) THEN n + 1 ELSE n
    /\ generation' = generation + 1
    /\ process' = generation'
    /\ connection' = generation'
    /\ alive' = alive \cup {generation'}
    /\ state' = "STARTING"
    /\ ready' = FALSE
    /\ report' = [report EXCEPT ![t] = [old |-> connection, new |-> generation']]
    /\ Goto(t, "notify")

(* Popen raises: the restart is counted, nothing else happened. *)
SpawnRaises(t, n) ==
    /\ MaySpawn(t, n)
    /\ restarts' = IF IsRestart(t) THEN n + 1 ELSE n

-----------------------------------------------------------------------------
(* Operators *)

Missing == process \notin alive

(* start_worker begins with start: a monitor thread that has ended is replaced. *)
StartCall(t) ==
    /\ pc[t] = "idle"
    /\ pc' = [pc EXCEPT ![t] = "called",
                        ![Monitor] = IF pc[Monitor] = "dead" THEN "idle" ELSE pc[Monitor]]
    /\ UNCHANGED <<record, desired, world, held, report, outstanding>>

(* start_worker up to its first unlock.  A worker that is running is left      *)
(* alone; one whose budget is exhausted is FAILED and no longer desired.       *)
StartWorker(t) ==
    /\ pc[t] = "called"
    /\ \/ /\ ~Missing
          /\ desired' = TRUE
          /\ Goto(t, "waiting")
          /\ UNCHANGED <<record, alive, report>>
       \/ /\ Missing
          /\ \E n \in 0 .. restarts :
                /\ Prune(n)
                /\ \/ Spawn(t, n) /\ desired' = TRUE
                   \/ /\ SpawnRaises(t, n)
                      /\ state' = "FAILED"
                      /\ desired' = TRUE
                      /\ Goto(t, "idle")
                      /\ UNCHANGED <<process, generation, connection, ready, alive, report>>
                   \/ /\ ~MaySpawn(t, n)
                      /\ state' = "FAILED"
                      /\ desired' = FALSE
                      /\ restarts' = n
                      /\ Goto(t, "idle")
                      /\ UNCHANGED <<process, generation, connection, ready, alive, report>>
    /\ UNCHANGED <<doomed, spoken, deaf, held, outstanding>>

(* The control plane issues a permit. *)
IssuePermit ==
    /\ ~outstanding
    /\ outstanding' = TRUE
    /\ UNCHANGED <<record, desired, world, pc, held, report>>

(* _notify_generation_change, and _on_worker_generation_change of the control  *)
(* plane: a connection that replaces another one revokes every permit (and     *)
(* requests a safety stop).                                                    *)
Notify(t) ==
    /\ pc[t] = "notify"
    /\ outstanding' = (outstanding /\ report[t].old = 0)
    /\ report' = [report EXCEPT ![t] = None]
    /\ Goto(t, IF t = Monitor THEN "idle" ELSE "waiting")
    /\ UNCHANGED <<record, desired, world, held>>

WorkerReady(t) ==
    /\ pc[t] = "waiting"
    /\ ready
    /\ Goto(t, "idle")
    /\ UNCHANGED <<record, desired, world, held, report, outstanding>>

(* The start times out: _fail_and_terminate, of whatever process is there now, *)
(* before the error is returned.                                               *)
StartTimeout(t) ==
    /\ pc[t] = "waiting"
    /\ ~ready
    /\ Goto(t, "ending")
    /\ IF state = "FAILED" /\ ~desired
         THEN UNCHANGED <<state, held, doomed>>
         ELSE /\ state' = "DEGRADED"
              /\ held' = [held EXCEPT ![t] = process]
              /\ Terminate(IF Missing THEN 0 ELSE process)
    /\ UNCHANGED <<process, generation, connection, ready, restarts, prunes, desired, alive,
                   spoken, deaf, report, outstanding>>

(* The process is gone, or outlives the wait: an error is returned either way. *)
StartFails(t) ==
    /\ pc[t] = "ending"
    /\ held' = [held EXCEPT ![t] = 0]
    /\ Goto(t, "idle")
    /\ UNCHANGED <<record, desired, world, report, outstanding>>

(* stop_worker: what is running is terminated ... *)
StopWorker(t) ==
    /\ pc[t] = "idle"
    /\ desired' = FALSE
    /\ held' = [held EXCEPT ![t] = process]
    /\ state' = IF process = 0 THEN "STOPPED" ELSE "STOPPING"
    /\ Terminate(IF Missing THEN 0 ELSE process)
    /\ Goto(t, "stopping")
    /\ UNCHANGED <<process, generation, connection, ready, restarts, prunes, alive, spoken,
                   deaf, report, outstanding>>

(* ... and, when that process is gone, the record is cleared. *)
StopCompletes(t) ==
    /\ pc[t] = "stopping"
    /\ held[t] \notin alive
    /\ state' = "STOPPED"
    /\ process' = 0
    /\ connection' = 0
    /\ ready' = FALSE
    /\ held' = [held EXCEPT ![t] = 0]
    /\ Goto(t, "idle")
    /\ UNCHANGED <<generation, restarts, prunes, desired, world, report, outstanding>>

(* The process outlives even SIGKILL by stop_timeout_sec: wait raises, and the *)
(* record stays as it is.                                                      *)
StopTimesOut(t) ==
    /\ pc[t] = "stopping"
    /\ held[t] \in alive
    /\ held' = [held EXCEPT ![t] = 0]
    /\ Goto(t, "idle")
    /\ UNCHANGED <<record, desired, world, report, outstanding>>

-----------------------------------------------------------------------------
(* The process *)

Exit(p) ==
    /\ p \in alive
    /\ alive' = alive \ {p}
    /\ doomed' = doomed \ {p}
    /\ UNCHANGED <<record, desired, spoken, deaf, pc, held, report, outstanding>>

(* A message that is believed whoever sent it. *)
Message_AnySender(p) ==
    /\ p \in (1 .. generation) \ deaf
    /\ spoken' = spoken \cup {p}
    /\ \/ state' = "READY" /\ ready' = TRUE
       \/ state' = "DEGRADED" /\ UNCHANGED ready
    /\ UNCHANGED <<process, generation, connection, restarts, prunes, desired, alive, doomed,
                   deaf, pc, held, report, outstanding>>

(* _read_stdout: a message of the process the worker has now ("ready", a first *)
(* heartbeat, a later one, "degraded"), which may have exited since it wrote   *)
(* it.                                                                         *)
Message(p) ==
    /\ p \in (1 .. generation) \ deaf
    /\ p = process
    /\ spoken' = spoken \cup {p}
    /\ \/ state' = "READY" /\ ready' = TRUE
       \/ state # "STARTING" /\ UNCHANGED <<state, ready>>
       \/ state' = "DEGRADED" /\ UNCHANGED ready
    /\ UNCHANGED <<process, generation, connection, restarts, prunes, desired, alive, doomed,
                   deaf, pc, held, report, outstanding>>

(* Anything else it writes is a protocol violation, and ends it. *)
BadMessage(p) ==
    /\ p \in (1 .. generation) \ deaf
    /\ p = process
    /\ deaf' = deaf \cup {p}
    /\ state' = IF state = "FAILED" /\ ~desired THEN state ELSE "DEGRADED"
    /\ Terminate(IF Missing \/ (state = "FAILED" /\ ~desired) THEN 0 ELSE p)
    /\ UNCHANGED <<process, generation, connection, ready, restarts, prunes, desired, alive,
                   spoken, pc, held, report, outstanding>>

-----------------------------------------------------------------------------
(* The monitor *)

(* A monitor that only looks after workers that have a process. *)
MonitorFinds_Present ==
    /\ pc[Monitor] = "idle"
    /\ desired
    /\ process # 0
    /\ state' = "DEGRADED"
    /\ held' = [held EXCEPT ![Monitor] = process]
    /\ Terminate(IF Missing THEN 0 ELSE process)
    /\ Goto(Monitor, "restarting")
    /\ UNCHANGED <<process, generation, connection, ready, restarts, prunes, desired, alive,
                   spoken, deaf, report, outstanding>>

(* _monitor_worker: the process is absent, has exited, or has been silent for  *)
(* too long, in which case it is terminated.                                   *)
MonitorFinds ==
    /\ pc[Monitor] = "idle"
    /\ desired
    /\ state' = "DEGRADED"
    /\ held' = [held EXCEPT ![Monitor] = process]
    /\ Terminate(IF Missing THEN 0 ELSE process)
    /\ Goto(Monitor, "restarting")
    /\ UNCHANGED <<process, generation, connection, ready, restarts, prunes, desired, alive,
                   spoken, deaf, report, outstanding>>

(* A restart decided before the unlock and not looked at again. *)
MonitorRestarts_Unchecked ==
    /\ pc[Monitor] = "restarting"
    /\ held[Monitor] \notin alive
    /\ held' = [held EXCEPT ![Monitor] = 0]
    /\ \E n \in 0 .. restarts :
          /\ Prune(n)
          /\ \/ Spawn(Monitor, n) /\ UNCHANGED desired
             \/ /\ ~MaySpawn(Monitor, n)
                /\ restarts' = n
                /\ process' = 0
                /\ state' = "FAILED"
                /\ desired' = FALSE
                /\ Goto(Monitor, "idle")
                /\ UNCHANGED <<generation, connection, ready, alive, report>>
    /\ UNCHANGED <<doomed, spoken, deaf, outstanding>>

(* Once that process is gone, and if the worker is still wanted, another takes *)
(* its place.                                                                  *)
MonitorRestarts ==
    /\ pc[Monitor] = "restarting"
    /\ held[Monitor] \notin alive
    /\ held' = [held EXCEPT ![Monitor] = 0]
    /\ \/ /\ ~desired
          /\ Goto(Monitor, "idle")
          /\ UNCHANGED <<record, desired, alive, report>>
       \/ /\ desired
          /\ \E n \in 0 .. restarts :
                /\ Prune(n)
                /\ \/ Spawn(Monitor, n) /\ UNCHANGED desired
                   \/ /\ SpawnRaises(Monitor, n) \/ (~MaySpawn(Monitor, n) /\ restarts' = n)
                      /\ process' = 0
                      /\ state' = "FAILED"
                      /\ desired' = FALSE
                      /\ Goto(Monitor, "idle")
                      /\ UNCHANGED <<generation, connection, ready, alive, report>>
    /\ UNCHANGED <<doomed, spoken, deaf, outstanding>>

(* The process outlives even SIGKILL by stop_timeout_sec: nobody catches what  *)
(* wait raises, and the monitor thread ends.                                   *)
MonitorTimesOut ==
    /\ pc[Monitor] = "restarting"
    /\ held[Monitor] \in alive
    /\ held' = [held EXCEPT ![Monitor] = 0]
    /\ Goto(Monitor, "dead")
    /\ UNCHANGED <<record, desired, world, report, outstanding>>

Next ==
    \/ MonitorFinds \/ MonitorRestarts \/ MonitorTimesOut \/ IssuePermit
    \/ \E t \in Thread : Notify(t)
    \/ \E t \in Operator :
          \/ StartCall(t) \/ StartWorker(t) \/ WorkerReady(t) \/ StartTimeout(t)
          \/ StartFails(t) \/ StopWorker(t) \/ StopCompletes(t) \/ StopTimesOut(t)
    \/ \E p \in Generation : Exit(p) \/ Message(p) \/ BadMessage(p)

Spec == Init /\ [][Next]_vars

(* The threads of the daemon run, the monitor keeps ticking while it lives,    *)
(* and a wait ends: with the process, or with its timeout.  The worker owes    *)
(* nobody a message, and not even an exit.                                     *)
Fairness ==
    /\ WF_vars(Missing /\ MonitorFinds) /\ WF_vars(MonitorRestarts) /\ WF_vars(MonitorTimesOut)
    /\ \A t \in Thread : WF_vars(Notify(t))
    /\ \A t \in Operator : WF_vars(StopCompletes(t)) /\ WF_vars(StopTimesOut(t))

FairSpec == Spec /\ Fairness

-----------------------------------------------------------------------------
(* Properties *)

(* A worker counts as ready only after its present process has said so, never  *)
(* because of what an earlier process left behind in a pipe or in the record.  *)
ReadyIsCurrent == state = "READY" => process \in spoken

(* Nothing starts a worker that has been stopped, whatever the monitor decided *)
(* before the stop.                                                            *)
NoSpawnAfterStop == [][generation' # generation => desired']_vars

(* A wanted worker without a process gets one, or is given up, for as long as  *)
(* the monitor thread lives (_monitor_loop, _monitor_worker): whatever the     *)
(* monitor was waiting for, and for whatever process, when this one was lost.  *)
Supervised == (desired /\ Missing) ~> (~desired \/ ~Missing \/ pc[Monitor] = "dead")

(* The same of a manager whose monitor never ends, as the "bounded subprocess  *)
(* Worker manager" (docs/ROSCLAWD.md) promises.                                *)
SupervisedForGood == (desired /\ Missing) ~> (~desired \/ ~Missing)

(* Every process the manager has started is the worker's or is being ended:    *)
(* the manager must "own worker process lifecycles" (WorkerManager).           *)
NoStrayProcess == alive \subseteq {process} \cup doomed

(* A new process in the place of an earlier one revokes outstanding permits:   *)
(* "A new process receives a new connection generation. That generation change *)
(* revokes outstanding permits and requests a safety stop" (docs/ROSCLAWD.md). *)
ChangeRevokes ==
    [][\A t \in Thread :
          pc[t] = "notify" /\ pc'[t] # "notify" /\ report[t].new > 1 => ~outstanding']_vars

=============================================================================
