------------------------------ MODULE ControlPlane ------------------------------
(***************************************************************************)
(* rosclawd's control plane: sessions, action jobs, the threads that run   *)
(* them, the watchdog, supervision and E-Stop, and what a restart makes of *)
(* the ledger.                                                             *)
(*                                                                         *)
(* A step is one critical section of the service lock, or one call made    *)
(* outside it.  Time is not measured: a lease, a session or a permit may   *)
(* have run out whenever the code looks at its clock; only the deadline of *)
(* an action is remembered (late), because it never moves.                 *)
(*                                                                         *)
(* The ledger is kept per entity, the way the code reads it back: the      *)
(* events of each action, the state of the permit of each action, and the  *)
(* RECOVERY events.                                                        *)
(***************************************************************************)
EXTENDS Naturals, Sequences, FiniteSets

CONSTANTS
    Action,         \* action identifiers
    Real,           \* those whose execution_mode is REAL
    Continue,       \* those whose orphan_policy is CONTINUE_UNTIL_DEADLINE
    Session,        \* agent sessions
    SessionOf,      \* the session of an action
    QueueSize,      \* _queue_slots
    Threads,        \* max_workers of the executor
    Retained,       \* _max_retained_actions
    MaxCrashes,     \* bound: process deaths
    MaxFaults,      \* bound: ledger appends that raise
    MaxLosses,      \* bound: sessions that end
    MaxMishaps      \* bound: all of these together

ASSUME ControlAssumption ==
    /\ Real \subseteq Action /\ Continue \subseteq Action
    /\ IsFiniteSet(Action)
    /\ SessionOf \in [Action -> Session]
    /\ {QueueSize, Threads, Retained} \subseteq Nat \ {0}
    /\ QueueSize <= Retained
    /\ {MaxCrashes, MaxFaults, MaxLosses, MaxMishaps} \subseteq Nat

VARIABLES
    \* durable
    journal,        \* the ACTION events of each action
    recoveryLog,    \* the RECOVERY events
    permit,         \* the permit authority's view of the permit of each action
    \* the process
    up,             \* "down", "starting", "running" or "closing"
    handle,         \* the ledger handle: "open" or "failed"
    ledgerFailed,   \* _ledger_write_failed
    sched,          \* state of each job in _jobs; "none" when it is not there
    pc,             \* where the future of each job is
    result,         \* the receipt of each job
    override,       \* terminal_override
    sessionLost,    \* jobs marked session_lost
    stopRequested,  \* jobs marked stop_requested
    toEnd,          \* queued jobs whose overriding thread has yet to end them
    toStop,         \* running jobs whose overriding thread has yet to stop them
    slots,          \* free _queue_slots
    session,        \* state of each Agent Session
    losing,         \* progress of _handle_lost_session for each session
    supervision,    \* _supervision_state
    stopping,       \* E-Stop requests that have not reached the Runtime yet
    latched,        \* emergency_stop_latched of the Runtime
    recovery,       \* _recovery_action_ids; non-empty iff _recovery_required
    \* the world
    late,           \* actions whose deadline_at has passed
    dispatched,     \* history: how often the executor was called
    unknown,        \* history: REAL actions a crash caught without an outcome
    reviewed,       \* history: actions an acknowledgement covered
    crashes, faults, losses

durable  == <<journal, recoveryLog, permit>>
marks    == <<sessionLost, stopRequested, toEnd, toStop>>
jobs     == <<sched, pc, result, override, marks, slots>>
sessions == <<session, losing>>
safety   == <<supervision, stopping, latched>>
history  == <<unknown, reviewed, crashes, losses>>
health   == <<handle, ledgerFailed, faults>>

vars == <<durable, up, health, jobs, sessions, safety, recovery, late, dispatched, history>>

Final == {"COMPLETED", "BLOCKED", "FAILED", "CANCELLED", "TIMED_OUT", "ORPHANED"}
Submitted == [type |-> "ACTION_SUBMITTED", final |-> "none"]
Started == [type |-> "ACTION_STARTED", final |-> "none"]
Terminal(f) == [type |-> "ACTION_TERMINAL", final |-> f]
ActionEvent == {Submitted, Started} \cup {Terminal(f) : f \in Final}

Required(ids) == [type |-> "RECOVERY_REQUIRED", ids |-> ids]
Acknowledged(ids) == [type |-> "RECOVERY_ACKNOWLEDGED", ids |-> ids]
RecoveryEvent ==
    {Required(ids) : ids \in SUBSET Action} \cup {Acknowledged(ids) : ids \in SUBSET Action}

InFlight == {"pending", "picked", "started", "authorized", "submitted", "executing", "returned",
             "checked"}

(* Of the newest permit of an action; "renewed" is an active one that was      *)
(* issued after another of the same action had been consumed.                  *)
PermitState == {"none", "active", "revoked", "consumed", "renewed"}
Usable == {"active", "renewed"}
Spent == {"consumed", "renewed"}

TypeOK ==
    /\ journal \in [Action -> Seq(ActionEvent)]
    /\ recoveryLog \in Seq(RecoveryEvent)
    /\ permit \in [Action -> PermitState]
    /\ up \in {"down", "starting", "running", "closing"}
    /\ handle \in {"open", "failed"}
    /\ ledgerFailed \in BOOLEAN
    /\ sched \in [Action -> {"none", "QUEUED", "RUNNING", "FINISHED", "CANCELLED"}]
    /\ pc \in [Action -> {"idle"} \cup InFlight]
    /\ result \in [Action -> Final \cup {"none"}]
    /\ override \in [Action -> {"none", "TIMED_OUT", "ORPHANED"}]
    /\ sessionLost \subseteq Action
    /\ stopRequested \subseteq Action
    /\ toEnd \subseteq Action
    /\ toStop \subseteq Action
    /\ slots \in 0 .. QueueSize
    /\ session \in [Session -> {"none", "ACTIVE", "LOST", "CLOSED"}]
    /\ losing \in [Session -> {"no", "revoke", "mark"}]
    /\ supervision \in {"DISARMED", "ARMED", "ESTOPPED", "STOPPING"}
    /\ stopping \in BOOLEAN
    /\ latched \in BOOLEAN
    /\ recovery \subseteq Action
    /\ late \subseteq Action
    /\ dispatched \in [Action -> Nat]
    /\ unknown \subseteq Real
    /\ reviewed \subseteq Action
    /\ crashes \in 0 .. MaxCrashes
    /\ faults \in 0 .. MaxFaults
    /\ losses \in 0 .. MaxLosses

Init ==
    /\ journal = [a \in Action |-> <<>>]
    /\ recoveryLog = <<>>
    /\ permit = [a \in Action |-> "none"]
    /\ up = "down"
    /\ handle = "open" /\ ledgerFailed = FALSE /\ faults = 0
    /\ sched = [a \in Action |-> "none"]
    /\ pc = [a \in Action |-> "idle"]
    /\ result = [a \in Action |-> "none"]
    /\ override = [a \in Action |-> "none"]
    /\ sessionLost = {}
    /\ stopRequested = {}
    /\ toEnd = {}
    /\ toStop = {}
    /\ slots = QueueSize
    /\ session = [s \in Session |-> "none"]
    /\ losing = [s \in Session |-> "no"]
    /\ supervision = "DISARMED" /\ stopping = FALSE /\ latched = FALSE
    /\ recovery = {}
    /\ late = {}
    /\ dispatched = [a \in Action |-> 0]
    /\ unknown = {} /\ reviewed = {} /\ crashes = 0 /\ losses = 0

-----------------------------------------------------------------------------
(* The ledger.  append() of an action event returns, or raises: because the    *)
(* handle failed before, because nothing could be begun (database busy, a      *)
(* payload that is not canonical JSON), or with an unknown outcome that fails  *)
(* the handle for good.                                                        *)

(* The common bound on crashes, failing appends and session ends. *)
MishapLeft == crashes + faults + losses < MaxMishaps

Journalled(a, e) ==
    /\ handle = "open"
    /\ journal' = [journal EXCEPT ![a] = Append(@, e)]
    /\ UNCHANGED health

AppendFails ==
    \/ handle = "failed" /\ UNCHANGED <<handle, faults>>
    \/ /\ handle = "open"
       /\ faults < MaxFaults /\ MishapLeft
       /\ faults' = faults + 1
       /\ handle' \in {"open", "failed"}

(* The same, where the daemon notes the failure. *)
Fault == AppendFails /\ ledgerFailed' = TRUE

(* append() raises and log may have grown all the same. *)
Raises(log, grown) ==
    /\ Fault
    /\ \/ log' = log
       \/ handle = "open" /\ handle' = "failed" /\ log' = grown

JournalRaises(a, e) == Raises(journal, [journal EXCEPT ![a] = Append(@, e)])

(* _persist_terminal_job, whose callers swallow the exception. *)
JournalledOrNoted(a, e) == Journalled(a, e) \/ JournalRaises(a, e)

(* An append made for the record only (session, lease and supervision events)  *)
(* or a read raises.                                                           *)
LedgerFault ==
    /\ up \in {"running", "closing"}
    /\ handle = "open"
    /\ Fault
    /\ UNCHANGED <<durable, up, jobs, sessions, safety, recovery, late, dispatched, history>>

-----------------------------------------------------------------------------
(* Reading the ledger back *)

(* The final states _validate_persisted_receipt accepts. *)
AcceptedFinal == Final \ {"ORPHANED"}

(* Submitted once, then perhaps started, then ended at most once. *)
WellFormed(events, finals) ==
    \A i \in DOMAIN events :
        /\ events[i] = Submitted <=> i = 1
        /\ events[i] = Started => i = 2
        /\ events[i].type = "ACTION_TERMINAL" => i = Len(events) /\ events[i].final \in finals

(* _decode_persisted_job does not raise. *)
Decodable(events) == WellFormed(events, AcceptedFinal)

(* The job it returns. *)
DecodedState(events) ==
    IF events = <<>> THEN "none"
    ELSE LET last == events[Len(events)] IN
         CASE last = Submitted -> "QUEUED"
           [] last = Started -> "RUNNING"
           [] last = Terminal("CANCELLED") -> "CANCELLED"
           [] OTHER -> "FINISHED"
DecodedResult(events) == IF events = <<>> THEN "none" ELSE events[Len(events)].final

(* _restore_recovery_from_ledger does not raise: a requirement keeps what is   *)
(* pending and names known actions, an acknowledgement covers exactly what is  *)
(* pending.                                                                    *)
PendingBefore(i) ==
    IF i > 1 /\ recoveryLog[i - 1].type = "RECOVERY_REQUIRED" THEN recoveryLog[i - 1].ids ELSE {}

RecoveryReadable ==
    \A i \in DOMAIN recoveryLog :
        LET e == recoveryLog[i] IN
        /\ e.ids # {}
        /\ e.type = "RECOVERY_REQUIRED" =>
              PendingBefore(i) \subseteq e.ids /\ \A a \in e.ids : journal[a] # <<>>
        /\ e.type = "RECOVERY_ACKNOWLEDGED" => e.ids = PendingBefore(i)

LedgerReadable == RecoveryReadable /\ \A a \in Action : Decodable(journal[a])

-----------------------------------------------------------------------------
(* Start, restart recovery, shutdown and crash *)

(* The permits when the usable ones of some actions are revoked. *)
Withdrawn(actions) ==
    [a \in Action |-> IF a \notin actions \/ permit[a] \notin Usable THEN permit[a]
                     ELSE IF permit[a] \in Spent THEN "consumed" ELSE "revoked"]

(* __init__: everything is rebuilt from the ledger and every permit of the     *)
(* previous generation is revoked.  An unreadable ledger keeps the daemon down. *)
Start ==
    /\ up = "down"
    /\ LedgerReadable
    /\ up' = "starting"
    /\ sched' = [a \in Action |-> DecodedState(journal[a])]
    /\ result' = [a \in Action |-> DecodedResult(journal[a])]
    /\ recovery' = PendingBefore(Len(recoveryLog) + 1)
    /\ permit' = Withdrawn(Action)
    /\ UNCHANGED <<journal, recoveryLog, health, pc, override, marks, slots, sessions, safety,
                   late, dispatched, history>>

Interrupted == {a \in Real : sched[a] = "RUNNING"}

(* A restart that records only what it found interrupted itself. *)
RequireReview_OnlyInterrupted ==
    /\ up = "starting"
    /\ Interrupted \cup recovery # {}
    /\ ~latched
    /\ recoveryLog' = Append(recoveryLog, Required(Interrupted))
    /\ recovery' = recovery \cup Interrupted
    /\ latched' = TRUE
    /\ UNCHANGED <<journal, permit, up, health, jobs, sessions, supervision, stopping, late,
                   dispatched, history>>

(* _recover_incomplete_jobs_locked, first half: the review requirement is on   *)
(* the ledger, and E-Stop requested, before any interrupted job is sealed.     *)
RequireReview ==
    /\ up = "starting"
    /\ Interrupted \cup recovery # {}
    /\ ~latched
    /\ recoveryLog' = IF Interrupted \subseteq recovery
                        THEN recoveryLog
                        ELSE Append(recoveryLog, Required(recovery \cup Interrupted))
    /\ recovery' = recovery \cup Interrupted
    /\ latched' = TRUE
    /\ UNCHANGED <<journal, permit, up, health, jobs, sessions, supervision, stopping, late,
                   dispatched, history>>

(* Sealing that does not wait for the requirement. *)
ReviewRequired_NotRecorded == recovery # {} => latched

ReviewRequired == Interrupted \subseteq recovery /\ (recovery # {} => latched)

(* Second half: interrupted jobs are sealed one by one.  An append that raises *)
(* here ends the process, which is Crash.                                      *)
Seal(a) ==
    /\ up = "starting"
    /\ ReviewRequired
    /\ sched[a] \in {"QUEUED", "RUNNING"}
    /\ LET f == IF sched[a] = "RUNNING" THEN "FAILED" ELSE "CANCELLED" IN
       /\ Journalled(a, Terminal(f))
       /\ sched' = [sched EXCEPT ![a] = IF f = "FAILED" THEN "FINISHED" ELSE "CANCELLED"]
       /\ result' = [result EXCEPT ![a] = f]
    /\ UNCHANGED <<recoveryLog, permit, up, pc, override, marks, slots, sessions, safety,
                   recovery, late, dispatched, history>>

Ended == {a \in Action : sched[a] \in {"FINISHED", "CANCELLED"}}
InMemory == {a \in Action : sched[a] # "none"}

(* _evict_terminal_jobs_locked down to a target size, as far as terminal jobs  *)
(* allow: the jobs it may drop.                                                *)
Evictions(target) ==
    LET excess == IF Cardinality(InMemory) > target THEN Cardinality(InMemory) - target ELSE 0
        n == IF excess < Cardinality(Ended) THEN excess ELSE Cardinality(Ended)
    IN  {drop \in SUBSET Ended : Cardinality(drop) = n}

Forget(f, drop) == [a \in Action |-> IF a \in drop THEN "none" ELSE f[a]]

Serve ==
    /\ up = "starting"
    /\ ReviewRequired
    /\ \A a \in Action : sched[a] \notin {"QUEUED", "RUNNING"}
    /\ up' = "running"
    /\ supervision' = "DISARMED"
    /\ \E drop \in Evictions(Retained) :
          /\ sched' = Forget(sched, drop)
          /\ result' = Forget(result, drop)
    /\ UNCHANGED <<durable, health, pc, override, marks, slots, sessions, stopping, latched,
                   recovery, late, dispatched, history>>

(* close(): nothing new is accepted, what is queued is cancelled (Cancel) and  *)
(* E-Stop is requested; the process then ends.                                 *)
Close ==
    /\ up = "running"
    /\ up' = "closing"
    /\ supervision' = "STOPPING"
    /\ stopping' = TRUE
    /\ UNCHANGED <<durable, health, jobs, sessions, latched, recovery, late, dispatched,
                   history>>

(* REAL actions whose executor was called and whose outcome is not on record. *)
OutcomeMissing ==
    {a \in Real : /\ dispatched[a] > 0
                  /\ \A i \in DOMAIN journal[a] : journal[a][i].type # "ACTION_TERMINAL"}

(* The process dies: only the ledger and the world remain. *)
Crash ==
    /\ up # "down"
    /\ crashes < MaxCrashes /\ MishapLeft
    /\ crashes' = crashes + 1
    /\ unknown' = unknown \cup OutcomeMissing
    /\ up' = "down"
    /\ handle' = "open" /\ ledgerFailed' = FALSE
    /\ sched' = [a \in Action |-> "none"]
    /\ pc' = [a \in Action |-> "idle"]
    /\ result' = [a \in Action |-> "none"]
    /\ override' = [a \in Action |-> "none"]
    /\ sessionLost' = {} /\ stopRequested' = {} /\ toEnd' = {} /\ toStop' = {}
    /\ slots' = QueueSize
    /\ session' = [s \in Session |-> "none"]
    /\ losing' = [s \in Session |-> "no"]
    /\ supervision' = "DISARMED" /\ stopping' = FALSE /\ latched' = FALSE
    /\ recovery' = {}
    /\ UNCHANGED <<durable, faults, late, dispatched, reviewed, losses>>

-----------------------------------------------------------------------------
(* Sessions *)

(* create_session(), or adopt_action() inside request_action(). *)
CreateSession(s) ==
    /\ up = "running"
    /\ session[s] = "none"
    /\ session' = [session EXCEPT ![s] = "ACTIVE"]
    /\ UNCHANGED <<durable, up, health, jobs, losing, safety, recovery, late, dispatched,
                   history>>

(* close_session(), heartbeat_session() on an expired session, and the         *)
(* watchdog's expire_sessions(): the session ends and _handle_lost_session     *)
(* begins.  Closing an ended session runs the handler again.                   *)
EndSession(s) ==
    /\ up = "running"
    /\ losing[s] = "no"
    /\ losses < MaxLosses /\ MishapLeft
    /\ losses' = losses + 1
    /\ \/ session[s] = "ACTIVE" /\ session' = [session EXCEPT ![s] = "CLOSED"]
       \/ session[s] = "ACTIVE" /\ session' = [session EXCEPT ![s] = "LOST"]
       \/ session[s] \in {"LOST", "CLOSED"} /\ UNCHANGED session
    /\ losing' = [losing EXCEPT ![s] = "revoke"]
    /\ UNCHANGED <<durable, up, health, jobs, safety, recovery, late, dispatched, unknown,
                   reviewed, crashes>>

(* require_action() (request_action, permit issue) and the heartbeat inside    *)
(* renew_action_lease() find the session expired: they mark it LOST and raise, *)
(* and nobody calls _handle_lost_session.                                      *)
LoseSessionUnhandled(s) ==
    /\ up = "running"
    /\ session[s] = "ACTIVE"
    /\ losses < MaxLosses /\ MishapLeft
    /\ losses' = losses + 1
    /\ session' = [session EXCEPT ![s] = "LOST"]
    /\ UNCHANGED <<durable, up, health, jobs, losing, safety, recovery, late, dispatched,
                   unknown, reviewed, crashes>>

(* _handle_lost_session, first: revoke the session's unused permits.  If the   *)
(* ledger refuses, the failure is noted and some of them stay as they were.    *)
RevokeSession(s) ==
    /\ losing[s] = "revoke"
    /\ losing' = [losing EXCEPT ![s] = "mark"]
    /\ LET active == {a \in Action : SessionOf[a] = s /\ permit[a] \in Usable}
       IN  \/ active = {} /\ UNCHANGED <<permit, health>>
           \/ handle = "open" /\ permit' = Withdrawn(active) /\ UNCHANGED health
           \/ /\ Fault
              /\ \E gone \in (SUBSET active) \ {{}} :
                    /\ handle = "failed" => Cardinality(gone) = 1
                    /\ permit' = Withdrawn(gone)
    /\ UNCHANGED <<journal, recoveryLog, up, jobs, session, safety, recovery, late, dispatched,
                   history>>

(* A handler that leaves every running job to its lease. *)
MarkOrphans_QueuedOnly(s) ==
    /\ losing[s] = "mark"
    /\ losing' = [losing EXCEPT ![s] = "no"]
    /\ LET mine == {a \in Action : SessionOf[a] = s /\ sched[a] \in {"QUEUED", "RUNNING"}}
           ends == {a \in mine : sched[a] = "QUEUED"}
       IN  /\ sessionLost' = sessionLost \cup mine
           /\ override' = [a \in Action |->
                 IF a \in ends /\ override[a] = "none" THEN "ORPHANED" ELSE override[a]]
           /\ toEnd' = toEnd \cup ends
    /\ UNCHANGED <<durable, up, health, sched, pc, result, stopRequested, toStop, slots, session,
                   safety, recovery, late, dispatched, history>>

(* Then, under the lock: its jobs are marked, and overridden unless the policy *)
(* lets a running one continue to its deadline.                                *)
MarkOrphans(s) ==
    /\ losing[s] = "mark"
    /\ losing' = [losing EXCEPT ![s] = "no"]
    /\ LET mine == {a \in Action : SessionOf[a] = s /\ sched[a] \in {"QUEUED", "RUNNING"}}
           ends == {a \in mine : ~(sched[a] = "RUNNING" /\ a \in Continue)}
       IN  /\ sessionLost' = sessionLost \cup mine
           /\ override' = [a \in Action |->
                 IF a \in ends /\ override[a] = "none" THEN "ORPHANED" ELSE override[a]]
           /\ toEnd' = toEnd \cup {a \in ends : sched[a] = "QUEUED"}
           /\ toStop' = toStop \cup {a \in ends : sched[a] = "RUNNING"}
    /\ UNCHANGED <<durable, up, health, sched, pc, result, stopRequested, slots, session,
                   safety, recovery, late, dispatched, history>>

-----------------------------------------------------------------------------
(* Supervision *)

Arm ==
    /\ up = "running"
    /\ recovery = {}
    /\ ~latched
    /\ supervision' = "ARMED"
    /\ UNCHANGED <<durable, up, health, jobs, sessions, stopping, latched, recovery, late,
                   dispatched, history>>

(* emergency_stop(), disarm_runtime() and _request_safety_stop(): the state    *)
(* changes under the lock, the Runtime is called after it.                     *)
EmergencyStop ==
    /\ up \in {"running", "closing"}
    /\ supervision' = "ESTOPPED"
    /\ stopping' = TRUE
    /\ UNCHANGED <<durable, up, health, jobs, sessions, latched, recovery, late, dispatched,
                   history>>

(* Runtime.request_emergency_stop() latches. *)
Latch ==
    /\ stopping
    /\ stopping' = FALSE
    /\ latched' = TRUE
    /\ UNCHANGED <<durable, up, health, jobs, sessions, supervision, recovery, late, dispatched,
                   history>>

AcknowledgeRecovery ==
    /\ up \in {"running", "closing"}
    /\ recovery # {}
    /\ \/ /\ handle = "open"
          /\ recoveryLog' = Append(recoveryLog, Acknowledged(recovery))
          /\ recovery' = {}
          /\ reviewed' = reviewed \cup recovery
          /\ UNCHANGED health
       \/ /\ Raises(recoveryLog, Append(recoveryLog, Acknowledged(recovery)))
          /\ reviewed' = reviewed \cup (IF recoveryLog' = recoveryLog THEN {} ELSE recovery)
          /\ UNCHANGED recovery
    /\ UNCHANGED <<journal, permit, up, jobs, sessions, safety, late, dispatched, unknown,
                   crashes, losses>>

-----------------------------------------------------------------------------
(* Requests *)

(* _issue_permit_core().  The session was looked up before the lock was taken; *)
(* that the action has been executed before is not looked at.                  *)
IssuePermit(a) ==
    /\ a \in Real
    /\ up = "running"
    /\ session[SessionOf[a]] # "none"
    /\ supervision = "ARMED"
    /\ recovery = {}
    /\ ~ledgerFailed
    /\ ~latched
    /\ permit[a] \notin Usable
    /\ \/ /\ handle = "open"
          /\ permit' = [permit EXCEPT ![a] = IF @ = "consumed" THEN "renewed" ELSE "active"]
          /\ UNCHANGED health
       \/ Fault /\ UNCHANGED permit
    /\ UNCHANGED <<journal, recoveryLog, up, jobs, sessions, safety, recovery, late, dispatched,
                   history>>

(* A ledger lookup that skips completed actions, which memory may have evicted. *)
Known_CompletedSkipped(a) ==
    sched[a] # "none" \/ (journal[a] # <<>> /\ journal[a][Len(journal[a])] # Terminal("COMPLETED"))

(* An action identifier is new when neither memory nor the ledger knows it. *)
Known(a) == sched[a] # "none" \/ journal[a] # <<>>

(* request_action() of a new action.  The session was looked up before the     *)
(* lock was taken and may be gone by now.  Terminal jobs make room; the queue  *)
(* slot is given back when the submission cannot be recorded.                  *)
RequestAction(a) ==
    /\ up = "running"
    /\ session[SessionOf[a]] # "none"
    /\ handle = "open"
    /\ ~Known(a)
    /\ ~ledgerFailed
    /\ a \in Real => recovery = {}
    /\ slots > 0
    /\ \E drop \in Evictions(Retained - 1) :
          /\ Cardinality(InMemory \ drop) < Retained
          /\ \/ /\ Journalled(a, Submitted)
                /\ sched' = [Forget(sched, drop) EXCEPT ![a] = "QUEUED"]
                /\ pc' = [pc EXCEPT ![a] = "pending"]
                /\ slots' = slots - 1
             \/ /\ JournalRaises(a, Submitted)
                /\ sched' = Forget(sched, drop)
                /\ UNCHANGED <<pc, slots>>
          /\ result' = Forget(result, drop)
          /\ override' = Forget(override, drop)
          /\ sessionLost' = sessionLost \ drop
    /\ UNCHANGED <<recoveryLog, permit, up, stopRequested, toEnd, toStop, sessions, safety,
                   recovery, late, dispatched, history>>

(* The slot is not given back. *)
Finish_SlotKept(a, state, f) ==
    /\ sched' = [sched EXCEPT ![a] = state]
    /\ result' = [result EXCEPT ![a] = f]
    /\ pc' = [pc EXCEPT ![a] = "idle"]
    /\ UNCHANGED slots

(* The future of a job is done: its receipt stands and its slot is free. *)
Finish(a, state, f) ==
    /\ sched' = [sched EXCEPT ![a] = state]
    /\ result' = [result EXCEPT ![a] = f]
    /\ pc' = [pc EXCEPT ![a] = "idle"]
    /\ slots' = slots + 1

(* A cancellation that ignores what future.cancel() returns. *)
CancelAction_FutureIgnored(a) ==
    /\ up \in {"running", "closing"}
    /\ sched[a] = "QUEUED"
    /\ IF pc[a] = "pending"
         THEN Finish(a, "CANCELLED", "CANCELLED")
         ELSE /\ sched' = [sched EXCEPT ![a] = "CANCELLED"]
              /\ result' = [result EXCEPT ![a] = "CANCELLED"]
              /\ UNCHANGED <<pc, slots>>
    /\ JournalledOrNoted(a, Terminal("CANCELLED"))
    /\ UNCHANGED <<recoveryLog, permit, up, override, marks, sessions, safety, recovery, late,
                   dispatched, history>>

(* cancel_action(): only while future.cancel() still succeeds. *)
CancelAction(a) ==
    /\ up \in {"running", "closing"}
    /\ sched[a] = "QUEUED"
    /\ pc[a] = "pending"
    /\ Finish(a, "CANCELLED", "CANCELLED")
    /\ JournalledOrNoted(a, Terminal("CANCELLED"))
    /\ UNCHANGED <<recoveryLog, permit, up, override, marks, sessions, safety, recovery, late,
                   dispatched, history>>

-----------------------------------------------------------------------------
(* The thread of an action: _run_action *)

Goto(a, label) == pc' = [pc EXCEPT ![a] = label]

(* The executor's pool takes the future; it can no longer be cancelled. *)
Pick(a) ==
    /\ pc[a] = "pending"
    /\ Cardinality({b \in Action : pc[b] \in InFlight \ {"pending"}}) < Threads
    /\ Goto(a, "picked")
    /\ UNCHANGED <<durable, up, health, sched, result, override, marks, slots, sessions, safety,
                   recovery, late, dispatched, history>>

(* _finish_overridden_job_locked. *)
FinishOverridden(a, f) ==
    /\ Finish(a, "FINISHED", f)
    /\ override' = [override EXCEPT ![a] = f]
    /\ JournalledOrNoted(a, Terminal(f))

(* A start that goes on when it could not be recorded. *)
Begin_FaultIgnored(a) ==
    /\ pc[a] = "picked"
    /\ \/ override[a] # "none" /\ FinishOverridden(a, override[a])
       \/ override[a] = "none" /\ FinishOverridden(a, "TIMED_OUT")
       \/ /\ override[a] = "none"
          /\ a \notin late
          /\ JournalledOrNoted(a, Started)
          /\ sched' = [sched EXCEPT ![a] = "RUNNING"]
          /\ Goto(a, IF a \in Real THEN "started" ELSE "submitted")
          /\ UNCHANGED <<result, override, slots>>
    /\ UNCHANGED <<recoveryLog, permit, up, marks, sessions, safety, recovery, late, dispatched,
                   history>>

(* The first critical section: an overridden, late or lease-expired job ends   *)
(* here; any other is RUNNING once its start is on the ledger.                 *)
Begin(a) ==
    /\ pc[a] = "picked"
    /\ \/ override[a] # "none" /\ FinishOverridden(a, override[a])
       \/ override[a] = "none" /\ FinishOverridden(a, "TIMED_OUT")
       \/ /\ override[a] = "none"
          /\ a \notin late
          /\ Journalled(a, Started)
          /\ sched' = [sched EXCEPT ![a] = "RUNNING"]
          /\ Goto(a, IF a \in Real THEN "started" ELSE "submitted")
          /\ UNCHANGED <<result, override, slots>>
       \/ /\ override[a] = "none"
          /\ a \notin late
          /\ JournalRaises(a, Started)
          /\ Finish(a, "FINISHED", "FAILED")
          /\ UNCHANGED override
    /\ UNCHANGED <<recoveryLog, permit, up, marks, sessions, safety, recovery, late, dispatched,
                   history>>

(* The thread leaves with a receipt that no executor produced. *)
Refuse(a, f) ==
    /\ Goto(a, "returned")
    /\ result' = [result EXCEPT ![a] = f]

(* permits.authorize(): consumes the permit, denies it (it is absent, revoked, *)
(* expired, or does not match), or raises because the ledger does, which is    *)
(* noted unless it is the database's own error.                                *)
Authorize(a) ==
    /\ pc[a] = "started"
    /\ \/ /\ permit[a] \in Usable
          /\ handle = "open"
          /\ permit' = [permit EXCEPT ![a] = "consumed"]
          /\ Goto(a, "authorized")
          /\ UNCHANGED <<result, health>>
       \/ Refuse(a, "BLOCKED") /\ UNCHANGED <<permit, health>>
       \/ /\ permit[a] \in Usable
          /\ AppendFails
          /\ ledgerFailed' = TRUE \/ (handle = "open" /\ UNCHANGED ledgerFailed)
          /\ Refuse(a, "FAILED")
          /\ UNCHANGED permit
    /\ UNCHANGED <<journal, recoveryLog, up, sched, override, marks, slots, sessions, safety,
                   recovery, late, dispatched, history>>

(* The arming check and the latch check at the entry of Runtime.submit_action. *)
Submit(a) ==
    /\ pc[a] = "authorized"
    /\ IF supervision = "ARMED" /\ ~latched
         THEN Goto(a, "submitted") /\ UNCHANGED result
         ELSE Refuse(a, "BLOCKED")
    /\ UNCHANGED <<durable, up, health, sched, override, marks, slots, sessions, safety,
                   recovery, late, dispatched, history>>

(* The gateway rejects the action, or calls its executor. *)
Dispatch(a) ==
    /\ pc[a] = "submitted"
    /\ \/ Refuse(a, "BLOCKED") /\ UNCHANGED dispatched
       \/ /\ Goto(a, "executing")
          /\ dispatched' = [dispatched EXCEPT ![a] = @ + 1]
          /\ UNCHANGED result
    /\ UNCHANGED <<durable, up, health, sched, override, marks, slots, sessions, safety,
                   recovery, late, history>>

(* The executor returns, with success or failure. *)
Return(a) ==
    /\ pc[a] = "executing"
    /\ \E f \in {"COMPLETED", "FAILED"} : Refuse(a, f)
    /\ UNCHANGED <<durable, up, health, sched, override, marks, slots, sessions, safety,
                   recovery, late, dispatched, history>>

(* A stop that changes the supervision state and does not reach the Runtime. *)
StopOverridden_StateOnly(a) ==
    /\ stopRequested' = stopRequested \cup {a}
    /\ supervision' = "ESTOPPED"
    /\ UNCHANGED stopping

(* _stop_overridden_action(), by whichever thread comes first: a safety stop. *)
StopOverridden(a) ==
    /\ stopRequested' = stopRequested \cup {a}
    /\ IF a \in stopRequested
         THEN UNCHANGED <<supervision, stopping>>
         ELSE supervision' = "ESTOPPED" /\ stopping' = TRUE

(* The thread looks for an override and, if there is one, makes sure the stop  *)
(* was requested before it goes on.                                            *)
CheckOverride(a) ==
    /\ pc[a] = "returned"
    /\ Goto(a, "checked")
    /\ IF override[a] # "none"
         THEN StopOverridden(a)
         ELSE UNCHANGED <<stopRequested, supervision, stopping>>
    /\ UNCHANGED <<durable, up, health, sched, result, override, sessionLost, toEnd, toStop,
                   slots, sessions, latched, recovery, late, dispatched, history>>

(* A receipt chosen by the override check made before the lock was taken. *)
Finalize_StaleOverride(a) ==
    /\ pc[a] = "checked"
    /\ LET f == IF a \in stopRequested THEN override[a] ELSE result[a] IN
       /\ Journalled(a, Terminal(f))
       /\ Finish(a, "FINISHED", f)
    /\ UNCHANGED <<recoveryLog, permit, up, override, marks, sessions, safety, recovery, late,
                   dispatched, history>>

(* A lost receipt that leaves no review behind. *)
Finalize_ReviewForgotten(a) ==
    /\ pc[a] = "checked"
    /\ LET f == IF override[a] = "none" THEN result[a] ELSE override[a] IN
       \/ Journalled(a, Terminal(f)) /\ Finish(a, "FINISHED", f) /\ UNCHANGED latched
       \/ /\ JournalRaises(a, Terminal(f))
          /\ Finish(a, "FINISHED", "FAILED")
          /\ latched' = (latched \/ a \in Real)
    /\ UNCHANGED <<recoveryLog, permit, up, override, marks, sessions, supervision, stopping,
                   recovery, late, dispatched, history>>

(* The last critical section.  The override, if there is one by now, replaces  *)
(* what the executor said.  A REAL receipt that cannot be recorded is replaced *)
(* by a failure, and demands review and E-Stop.                                *)
Finalize(a) ==
    /\ pc[a] = "checked"
    /\ LET f == IF override[a] = "none" THEN result[a] ELSE override[a] IN
       \/ /\ Journalled(a, Terminal(f))
          /\ Finish(a, "FINISHED", f)
          /\ UNCHANGED <<recovery, latched>>
       \/ /\ JournalRaises(a, Terminal(f))
          /\ Finish(a, "FINISHED", "FAILED")
          /\ recovery' = IF a \in Real THEN recovery \cup {a} ELSE recovery
          /\ latched' = (latched \/ a \in Real)
    /\ UNCHANGED <<recoveryLog, permit, up, override, marks, sessions, supervision, stopping,
                   late, dispatched, history>>

-----------------------------------------------------------------------------
(* The watchdog *)

(* The deadline of an accepted action passes (one that is late before that is  *)
(* refused and leaves no trace).                                               *)
DeadlinePasses(a) ==
    /\ sched[a] \in {"QUEUED", "RUNNING"}
    /\ a \notin late
    /\ late' = late \cup {a}
    /\ UNCHANGED <<durable, up, health, jobs, sessions, safety, recovery, dispatched, history>>

(* A watchdog that leaves queued jobs to their threads. *)
WatchdogOverride_RunningOnly(a) ==
    /\ up = "running"
    /\ sched[a] = "RUNNING"
    /\ override[a] = "none"
    /\ a \in late \/ ~(a \in sessionLost /\ a \in Continue)
    /\ override' = [override EXCEPT ![a] = "TIMED_OUT"]
    /\ toStop' = toStop \cup {a}
    /\ UNCHANGED <<durable, up, health, sched, pc, result, sessionLost, stopRequested, toEnd, slots,
                   sessions, safety, recovery, late, dispatched, history>>

(* A watchdog that overrides a running job and does not stop it. *)
WatchdogOverride_NotStopped(a) ==
    /\ up = "running"
    /\ sched[a] \in {"QUEUED", "RUNNING"}
    /\ override[a] = "none"
    /\ a \in late \/ ~(a \in sessionLost /\ a \in Continue)
    /\ override' = [override EXCEPT ![a] = "TIMED_OUT"]
    /\ toEnd' = toEnd \cup {a}
    /\ UNCHANGED <<durable, up, health, sched, pc, result, sessionLost, stopRequested, toStop,
                   slots, sessions, safety, recovery, late, dispatched, history>>

(* _watchdog_tick: a job past its deadline, or whose lease has run out, is     *)
(* overridden; the lease of an orphan that may continue no longer counts.      *)
WatchdogOverride(a) ==
    /\ up = "running"
    /\ sched[a] \in {"QUEUED", "RUNNING"}
    /\ override[a] = "none"
    /\ a \in late \/ ~(a \in sessionLost /\ a \in Continue)
    /\ override' = [override EXCEPT ![a] = "TIMED_OUT"]
    /\ IF sched[a] = "QUEUED"
         THEN toEnd' = toEnd \cup {a} /\ UNCHANGED toStop
         ELSE toStop' = toStop \cup {a} /\ UNCHANGED toEnd
    /\ UNCHANGED <<durable, up, health, sched, pc, result, sessionLost, stopRequested, slots,
                   sessions, safety, recovery, late, dispatched, history>>

(* _terminalize_queued_override: a job that is still queued ends here if its   *)
(* future can be cancelled; otherwise its thread will see the override.        *)
EndQueued(a) ==
    /\ a \in toEnd
    /\ toEnd' = toEnd \ {a}
    /\ IF sched[a] = "QUEUED" /\ pc[a] = "pending"
         THEN FinishOverridden(a, override[a])
         ELSE UNCHANGED <<journal, health, sched, pc, result, override, slots>>
    /\ UNCHANGED <<recoveryLog, permit, up, sessionLost, stopRequested, toStop, sessions,
                   safety, recovery, late, dispatched, history>>

(* _stop_overridden_action for a job that was running when it was overridden. *)
StopRunning(a) ==
    /\ a \in toStop
    /\ toStop' = toStop \ {a}
    /\ StopOverridden(a)
    /\ UNCHANGED <<durable, up, health, sched, pc, result, override, sessionLost, toEnd, slots,
                   sessions, latched, recovery, late, dispatched, history>>

-----------------------------------------------------------------------------
Next ==
    \/ Start \/ RequireReview \/ Serve \/ Close \/ Crash \/ LedgerFault
    \/ Arm \/ EmergencyStop \/ Latch \/ AcknowledgeRecovery
    \/ \E s \in Session :
          CreateSession(s) \/ EndSession(s) \/ LoseSessionUnhandled(s)
             \/ RevokeSession(s) \/ MarkOrphans(s)
    \/ \E a \in Action :
          \/ Seal(a) \/ IssuePermit(a) \/ RequestAction(a) \/ CancelAction(a)
          \/ Pick(a) \/ Begin(a) \/ Authorize(a) \/ Submit(a) \/ Dispatch(a) \/ Return(a)
          \/ CheckOverride(a) \/ Finalize(a)
          \/ DeadlinePasses(a) \/ WatchdogOverride(a) \/ EndQueued(a) \/ StopRunning(a)

Spec == Init /\ [][Next]_vars

(* Threads that can run do run, the pool serves its queue, close() cancels     *)
(* what is queued and the watchdog keeps ticking.  Nothing is assumed of       *)
(* clients, operators or the ledger, nor that an executor ever returns.        *)
Fairness ==
    /\ WF_vars(Start) /\ WF_vars(RequireReview) /\ WF_vars(Serve) /\ WF_vars(Latch)
    /\ \A s \in Session : WF_vars(RevokeSession(s)) /\ WF_vars(MarkOrphans(s))
    /\ \A a \in Action :
          /\ WF_vars(Seal(a))
          /\ WF_vars(Pick(a)) /\ WF_vars(Begin(a)) /\ WF_vars(Authorize(a))
          /\ WF_vars(Submit(a)) /\ WF_vars(Dispatch(a))
          /\ WF_vars(CheckOverride(a)) /\ WF_vars(Finalize(a))
          /\ WF_vars(up = "closing" /\ CancelAction(a))
          /\ WF_vars(a \in late /\ WatchdogOverride(a))
          /\ WF_vars(EndQueued(a)) /\ WF_vars(StopRunning(a))

FairSpec == Spec /\ Fairness

-----------------------------------------------------------------------------
(* Properties *)

(* An action identifier reaches its executor at most once, whatever requests   *)
(* are repeated, evicted from memory or sent again to a restarted daemon.      *)
DispatchedAtMostOnce == \A a \in Action : dispatched[a] <= 1

(* A REAL executor is only ever called once submission and start of the action *)
(* are on the ledger and its permit is consumed ("The ledger records permit    *)
(* registration and consumption before REAL dispatch, ... action start before  *)
(* authorization and dispatch", docs/ROSCLAWD.md).                             *)
DispatchIsOnRecord ==
    \A a \in Real : dispatched[a] > 0 =>
        /\ Len(journal[a]) >= 2
        /\ journal[a][1] = Submitted /\ journal[a][2] = Started
        /\ permit[a] \in Spent

(* After a crash that left the outcome of a REAL action unknown, no REAL       *)
(* executor is called before an operator has acknowledged that action.         *)
NoDispatchBeforeReview ==
    [][\A a \in Real : dispatched'[a] # dispatched[a] => unknown \subseteq reviewed]_vars

(* Queue slots are neither lost nor handed out twice. *)
SlotsConserved ==
    up # "down" => slots + Cardinality({a \in Action : pc[a] \in InFlight}) = QueueSize

(* No interleaving of the action threads, the watchdog, cancellation and       *)
(* restart recovery writes the events of an action out of order or ends it     *)
(* twice.                                                                      *)
JournalsWellFormed == \A a \in Action : WellFormed(journal[a], Final)

(* The daemon can always read back the actions it has ended: "a previously     *)
(* terminal action and receipt remain queryable" (docs/ROSCLAWD.md).           *)
EndedActionsReadable == \A a \in Action : Decodable(journal[a])

(* The daemon can always read back the reviews it has recorded, and every      *)
(* acknowledgement covers exactly what was pending.                            *)
ReviewsReadable == RecoveryReadable

(* As long as no append fails, the daemon can read back the reviews it has     *)
(* recorded, whatever crashes there are, also inside restart recovery.         *)
ReviewsReadableWhileHealthy == faults = 0 => RecoveryReadable

(* Once a job is overridden, a late success of its executor never becomes its  *)
(* outcome, in memory or on the ledger.                                        *)
OverrideStands ==
    \A a \in Action : override[a] # "none" /\ sched[a] = "FINISHED" =>
        /\ result[a] \in {override[a], "FAILED"}
        /\ DecodedResult(journal[a]) # "COMPLETED"

(* While a REAL receipt is missing from the ledger of a running daemon, review *)
(* is pending or the action is still with its thread.                          *)
UnrecordedRealIsReviewed ==
    up \in {"running", "closing"} =>
        OutcomeMissing \subseteq recovery \cup reviewed \cup {a \in Action : pc[a] \in InFlight}

Active(a) == sched[a] \in {"QUEUED", "RUNNING"}

(* All that can be done about an executor that does not return. *)
Stopped(a) == pc[a] = "executing" /\ latched

(* An action past its deadline ends, or the Runtime is stopped under an        *)
(* executor that does not return: no order of watchdog, action thread and      *)
(* cancellation leaves it queued or running for good.                          *)
OverdueEnds ==
    \A a \in Action : (a \in late /\ Active(a)) ~> (~Active(a) \/ Stopped(a))

(* An overridden action that has reached its executor brings the Runtime to    *)
(* the E-Stop latch, even when it finishes before the watchdog gets there.     *)
OverrunIsStopped ==
    \A a \in Action :
        (override[a] # "none" /\ pc[a] = "executing") ~> (latched \/ up = "down")

(* A session whose loss is being handled keeps no job that may not continue    *)
(* without it.                                                                 *)
OrphansEnd ==
    \A a \in Action :
        (losing[SessionOf[a]] # "no" /\ Active(a) /\ a \notin Continue) ~>
            (~Active(a) \/ Stopped(a))

(* A lost session loses its permits: "monotonic heartbeat expiry, and permit   *)
(* revocation on loss" (docs/ROSCLAWD.md).                                     *)
LossRevokesPermits ==
    \A a \in Action :
        (session[SessionOf[a]] = "LOST" /\ permit[a] \in Usable) ~>
            (permit[a] \notin Usable \/ up = "down")

=============================================================================
