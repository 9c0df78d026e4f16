---------------------------- MODULE OperatorProposals ----------------------------
(***************************************************************************)
(* The consent plane of rosclawd: an agent proposes an action, brokers list *)
(* what is pending, an operator accepts or declines it, and an acceptance  *)
(* arms the Runtime, issues a permit and requests the action, or is rolled  *)
(* back.  Decisions and cancellations hold the decision lock; creating,     *)
(* listing and reading proposals do not.                                   *)
(*                                                                         *)
(* A step ends where the code releases a lock or has appended to the       *)
(* ledger.  Every proposal has its own action and session.  Which decision *)
(* is made, that its proof verifies, and whether an executor is registered *)
(* are inputs.                                                             *)
(***************************************************************************)
EXTENDS Naturals, FiniteSets

CONSTANTS
    Proposal,       \* request identifiers
    Lister,         \* threads that serve list_pending_operator_proposals
    NoProposal,     \* no proposal
    Capacity,       \* capacity of the store
    MaxFaults,      \* bound: appends that fail of themselves
    MaxCrashes      \* bound: crashes of the daemon

ASSUME ProposalAssumption ==
    /\ NoProposal \notin Proposal
    /\ Capacity \in Nat \ {0}
    /\ {MaxFaults, MaxCrashes} \subseteq Nat

VARIABLES
    phase,          \* of the daemon
    store,          \* proposals the store holds
    state,          \* state of each proposal
    creating,       \* where the thread that creates a proposal is
    session,        \* the agent session of each proposal
    late,           \* proposals whose expires_at has passed
    audited,        \* proposals with an event recorded since they expired, if they have
    listing,        \* what each lister is about to present
    decision,       \* the holder of the decision lock
    mode,           \* _supervision_state
    latched,        \* the E-Stop latch of the Runtime
    permits,        \* unused permits of each proposal
    burned,         \* challenges the operator registry has burned
    submitted,      \* proposals whose action has been queued
    done,           \* proposals whose action has ended
    events,         \* ledger: the kinds of events recorded of each proposal
    latest,         \* ledger: the state the last of them carries
    faulted,        \* _ledger_write_failed
    broken,         \* the ledger handle has failed
    overwritten,    \* history: decided proposals set to another state without the decision lock
    faults, crashes

ledger == <<events, latest, audited, faulted, broken, faults>>
machine == <<mode, latched, permits, burned, submitted, done>>
history == <<overwritten, crashes>>
vars == <<phase, store, state, creating, session, late, listing, decision, machine, ledger,
          history>>

-----------------------------------------------------------------------------
(* A decision that is open for a proposal that was declined before. *)
Pending_Reopened == {"CREATED", "PRESENTED", "DECLINED"}

Pending == {"CREATED", "PRESENTED"}
Terminal == {"TERMINAL", "DECLINED", "CANCELLED", "EXPIRED", "INVALIDATED"}
ProposalState == {"CREATED", "PRESENTED", "ACCEPTED", "PERMIT_ISSUED", "SUBMITTED"} \cup Terminal

Invalidatable == {"CREATED", "PRESENTED", "ACCEPTED", "PERMIT_ISSUED"}

Kind == ProposalState \cup {"RECEIPT"}

(* Where a decision is, the proposal it is about, whether it has armed the     *)
(* Runtime, whether dispatch may have started, and (history) whether it has    *)
(* queued the action.                                                          *)
Decision(at, p) == [at |-> at, p |-> p, arms |-> FALSE, started |-> FALSE, queues |-> FALSE]
NoDecision == Decision("idle", NoProposal)

TypeOK ==
    /\ phase \in {"down", "restoring", "up"}
    /\ store \subseteq Proposal /\ Cardinality(store) <= Capacity
    /\ state \in [Proposal -> ProposalState \cup {"none", "earlier"}]
    /\ creating \in [Proposal -> {"idle", "session", "record"}]
    /\ session \in [Proposal -> {"none", "active", "ended"}]
    /\ late \subseteq Proposal /\ audited \subseteq Proposal /\ overwritten \subseteq Proposal
    /\ listing \in [Lister -> [at : {"idle", "saw", "presented"}, p : Proposal \cup {NoProposal}]]
    /\ decision \in [at : {"idle", "cancelled", "declined", "accepted", "arm", "permit", "issued",
                           "request", "submitted", "burn", "rollback", "invalidate", "disarm"},
                     p : Proposal \cup {NoProposal},
                     arms : BOOLEAN, started : BOOLEAN, queues : BOOLEAN]
    /\ mode \in {"DISARMED", "ARMED", "ESTOPPED"} /\ latched \in BOOLEAN
    /\ permits \in [Proposal -> Nat]
    /\ burned \subseteq Proposal /\ submitted \subseteq Proposal /\ done \subseteq submitted
    /\ events \in [Proposal -> SUBSET Kind]
    /\ latest \in [Proposal -> ProposalState \cup {"none"}]
    /\ faulted \in BOOLEAN /\ broken \in BOOLEAN
    /\ faults \in 0 .. MaxFaults /\ crashes \in 0 .. MaxCrashes

NoListing == [at |-> "idle", p |-> NoProposal]

Init ==
    /\ phase = "up"
    /\ store = {}
    /\ state = [p \in Proposal |-> "none"]
    /\ creating = [p \in Proposal |-> "idle"]
    /\ session = [p \in Proposal |-> "none"]
    /\ late = {} /\ audited = {}
    /\ listing = [l \in Lister |-> NoListing]
    /\ decision = NoDecision
    /\ mode = "DISARMED" /\ latched = FALSE
    /\ permits = [p \in Proposal |-> 0]
    /\ burned = {} /\ submitted = {} /\ done = {}
    /\ events = [p \in Proposal |-> {}]
    /\ latest = [p \in Proposal |-> "none"]
    /\ faulted = FALSE /\ broken = FALSE
    /\ overwritten = {}
    /\ faults = 0 /\ crashes = 0

-----------------------------------------------------------------------------
(* The ledger and the store *)

(* The ledger grows by an event of a proposal that carries its state s. *)
Grows(p, kind, s) ==
    /\ events' = [events EXCEPT ![p] = @ \cup {kind}]
    /\ latest' = [latest EXCEPT ![p] = s]
    /\ audited' = audited \cup {p}

Appends(p, kind, s) ==
    /\ ~broken
    /\ Grows(p, kind, s)
    /\ UNCHANGED <<faulted, broken, faults>>

(* An append raises; the handle may be lost by it. *)
AppendFails ==
    \/ broken /\ UNCHANGED <<broken, faults>>
    \/ /\ ~broken /\ faults < MaxFaults
       /\ faults' = faults + 1
       /\ broken' \in BOOLEAN

(* It is noted, whether or not the row was committed before the handle was     *)
(* lost.                                                                       *)
Raises(p, kind, s) ==
    /\ AppendFails
    /\ faulted' = TRUE
    /\ \/ UNCHANGED <<events, latest, audited>>
       \/ ~broken /\ broken' /\ Grows(p, kind, s)

Recording(p, kind, s) == Appends(p, kind, s) \/ Raises(p, kind, s)

(* An append to another part of the ledger, and one that raises. *)
Recorded == ~broken /\ UNCHANGED ledger

OtherRaises == AppendFails /\ faulted' = TRUE /\ UNCHANGED <<events, latest, audited>>

(* transition(): whatever the state was, of a proposal that is still stored. *)
Transition(p, s) ==
    /\ p \in store
    /\ state' = [state EXCEPT ![p] = s]

(* A state set without the decision lock; whatever it was. *)
Overwrites(p, s) ==
    /\ Transition(p, s)
    /\ overwritten' = IF state[p] \in {"CREATED", "PRESENTED"} THEN overwritten
                                                               ELSE overwritten \cup {p}

At(a) == phase = "up" /\ decision.at = a
Goes(a) == decision' = [decision EXCEPT !.at = a]

-----------------------------------------------------------------------------
(* Creating a proposal *)

HasRoom == Cardinality(store) < Capacity

(* store.create: a terminal proposal makes room for a new one.  A repeat of a  *)
(* creation that left nothing on the ledger is taken for a new one.            *)
CreateProposal(p) ==
    /\ phase = "up"
    /\ creating[p] = "idle"
    /\ \/ /\ state[p] = "none"
          /\ \/ HasRoom /\ store' = store \cup {p}
             \/ /\ ~HasRoom
                /\ \E q \in store : state[q] \in Terminal /\ store' = (store \ {q}) \cup {p}
          /\ state' = [state EXCEPT ![p] = "CREATED"]
       \/ p \in store /\ events[p] = {} /\ UNCHANGED <<store, state>>
    /\ creating' = [creating EXCEPT ![p] = "session"]
    /\ UNCHANGED <<phase, session, late, listing, decision, machine, ledger, history>>

(* The session is created, or is there already and the same, or is in conflict *)
(* with one that is there, in which case creation raises and leaves the        *)
(* proposal in the store.                                                      *)
CreateSession(p) ==
    /\ phase = "up"
    /\ creating[p] = "session"
    /\ \/ /\ session[p] \in {"none", "active"}
          /\ session' = [session EXCEPT ![p] = "active"]
          /\ creating' = [creating EXCEPT ![p] = "record"]
          /\ Recorded \/ OtherRaises
       \/ /\ session[p] \in {"active", "ended"}
          /\ creating' = [creating EXCEPT ![p] = "idle"]
          /\ UNCHANGED <<session, ledger>>
    /\ UNCHANGED <<phase, store, state, late, listing, decision, machine, history>>

RecordCreated(p) ==
    /\ phase = "up"
    /\ creating[p] = "record"
    /\ creating' = [creating EXCEPT ![p] = "idle"]
    /\ \/ Appends(p, "CREATED", state[p]) /\ UNCHANGED <<state, overwritten>>
       \/ /\ Raises(p, "CREATED", state[p])
          /\ \/ Overwrites(p, "INVALIDATED")
             \/ p \notin store /\ UNCHANGED <<state, overwritten>>
    /\ UNCHANGED <<phase, store, session, late, listing, decision, machine, crashes>>

(* The agent opens the session itself before it proposes. *)
OpenSession(p) ==
    /\ phase = "up"
    /\ session[p] = "none"
    /\ state[p] = "none"
    /\ session' = [session EXCEPT ![p] = "active"]
    /\ UNCHANGED <<phase, store, state, creating, late, listing, decision, machine, ledger,
                   history>>

(* A session is closed or lost, which revokes its permits. *)
EndSession(p) ==
    /\ phase = "up"
    /\ session[p] = "active"
    /\ session' = [session EXCEPT ![p] = "ended"]
    /\ permits' = [permits EXCEPT ![p] = 0]
    /\ UNCHANGED <<phase, store, state, creating, late, listing, decision, mode, latched, burned,
                   submitted, done, ledger, history>>

-----------------------------------------------------------------------------
(* Reading proposals *)

TimePasses(p) ==
    /\ p \notin late
    /\ p \in store
    /\ late' = late \cup {p}
    /\ UNCHANGED <<phase, store, state, creating, session, listing, decision, machine, ledger,
                   history>>

(* _expire_locked, by whoever looks at the store. *)
Expire(p) ==
    /\ phase = "up"
    /\ state[p] \in {"CREATED", "PRESENTED"}
    /\ p \in late
    /\ Transition(p, "EXPIRED")
    /\ audited' = audited \ {p}
    /\ UNCHANGED <<phase, store, creating, session, late, listing, decision, machine, events,
                   latest, faulted, broken, faults, history>>

AuditExpired(p) ==
    /\ phase = "up"
    /\ state[p] = "EXPIRED"
    /\ p \in store /\ p \notin audited
    /\ Recording(p, "EXPIRED", "EXPIRED")
    /\ UNCHANGED <<phase, store, state, creating, session, late, listing, decision, machine,
                   history>>

(* _synchronize_operator_proposal: the action of a submitted proposal has ended. *)
Synchronize(p) ==
    /\ phase = "up"
    /\ state[p] = "SUBMITTED"
    /\ p \in done
    /\ Transition(p, "TERMINAL")
    /\ Recording(p, "TERMINAL", "TERMINAL")
    /\ UNCHANGED <<phase, store, creating, session, late, listing, decision, machine, history>>

(* list_pending_operator_proposals finds a proposal CREATED ... *)
ListFinds(l, p) ==
    /\ phase = "up"
    /\ listing[l].at = "idle"
    /\ state[p] = "CREATED"
    /\ listing' = [listing EXCEPT ![l] = [at |-> "saw", p |-> p]]
    /\ UNCHANGED <<phase, store, state, creating, session, late, decision, machine, ledger,
                   history>>

(* ... sets it PRESENTED, whatever it is by then, unless it is no longer stored ... *)
ListPresents(l) ==
    /\ phase = "up"
    /\ listing[l].at = "saw"
    /\ LET p == listing[l].p IN
       \/ /\ Overwrites(p, "PRESENTED")
          /\ listing' = [listing EXCEPT ![l].at = "presented"]
       \/ /\ p \notin store
          /\ listing' = [listing EXCEPT ![l] = NoListing]
          /\ UNCHANGED <<state, overwritten>>
    /\ UNCHANGED <<phase, store, creating, session, late, decision, machine, ledger, crashes>>

(* ... and records that. *)
ListRecords(l) ==
    /\ phase = "up"
    /\ listing[l].at = "presented"
    /\ LET p == listing[l].p IN Recording(p, "PRESENTED", state[p])
    /\ listing' = [listing EXCEPT ![l] = NoListing]
    /\ UNCHANGED <<phase, store, state, creating, session, late, decision, machine, history>>

-----------------------------------------------------------------------------
(* Deciding, under the decision lock *)

CancelProposal(p) ==
    /\ At("idle")
    /\ state[p] \in {"CREATED", "PRESENTED"}
    /\ p \notin late
    /\ Transition(p, "CANCELLED")
    /\ decision' = Decision("cancelled", p)
    /\ UNCHANGED <<phase, store, creating, session, late, listing, machine, ledger, history>>

(* The session of a cancelled proposal is closed once that is on record. *)
RecordCancelled ==
    /\ At("cancelled")
    /\ LET p == decision.p IN
       \/ /\ Appends(p, "CANCELLED", state[p])
          /\ session' = [session EXCEPT ![p] = IF @ = "active" THEN "ended" ELSE @]
       \/ Raises(p, "CANCELLED", state[p]) /\ UNCHANGED session
    /\ decision' = NoDecision
    /\ UNCHANGED <<phase, store, state, creating, late, listing, machine, history>>

(* decide_operator_proposal: a proposal that is pending and has not expired is *)
(* declined, accepted, or invalidated because its session is gone.             *)
Decide(p) ==
    /\ At("idle")
    /\ state[p] \in Pending
    /\ p \notin late
    /\ \/ Transition(p, "DECLINED") /\ decision' = Decision("declined", p)
       \/ /\ session[p] = "active"
          /\ Transition(p, "ACCEPTED")
          /\ decision' = Decision("accepted", p)
       \/ /\ session[p] # "active"
          /\ p \in store
          /\ decision' = Decision("invalidate", p)
          /\ UNCHANGED state
    /\ UNCHANGED <<phase, store, creating, session, late, listing, machine, ledger, history>>

RecordDeclined ==
    /\ At("declined")
    /\ \/ Appends(decision.p, "DECLINED", state[decision.p]) /\ Goes("burn")
       \/ Raises(decision.p, "DECLINED", state[decision.p]) /\ decision' = NoDecision
    /\ UNCHANGED <<phase, store, state, creating, session, late, listing, machine, history>>

(* A step of an acceptance that raises is rolled back. *)
Fails == Goes("rollback")

(* An acceptance that is recorded only when the action is. *)
RecordAccepted_Deferred ==
    /\ At("accepted")
    /\ Goes("arm")
    /\ UNCHANGED <<phase, store, state, creating, session, late, listing, machine, ledger, history>>

RecordAccepted ==
    /\ At("accepted")
    /\ \/ Appends(decision.p, "ACCEPTED", state[decision.p]) /\ Goes("arm")
       \/ Raises(decision.p, "ACCEPTED", state[decision.p]) /\ Fails
    /\ UNCHANGED <<phase, store, state, creating, session, late, listing, machine, history>>

(* The Runtime is armed, unless it is already or an E-Stop is latched; that    *)
(* the supervision event fails to be recorded is only noted.                   *)
ArmAfterDecision ==
    /\ At("arm")
    /\ \/ mode = "ARMED" /\ Goes("permit") /\ UNCHANGED <<mode, ledger>>
       \/ mode # "ARMED" /\ latched /\ Fails /\ UNCHANGED <<mode, ledger>>
       \/ /\ mode # "ARMED" /\ ~latched
          /\ mode' = "ARMED"
          /\ decision' = [decision EXCEPT !.at = "permit", !.arms = TRUE]
          /\ Recorded \/ OtherRaises
    /\ UNCHANGED <<phase, store, state, creating, session, late, listing, latched, permits,
                   burned, submitted, done, history>>

(* _issue_permit_core, and the transition that follows it.  It may also be     *)
(* refused because the deadline has passed or no executor is registered.       *)
IssuePermit ==
    /\ At("permit")
    /\ LET p == decision.p IN
       \/ Fails /\ UNCHANGED <<state, permits, ledger>>
       \/ /\ session[p] = "active" /\ mode = "ARMED" /\ ~latched /\ ~faulted
          /\ \/ /\ Recorded
                /\ permits' = [permits EXCEPT ![p] = @ + 1]
                /\ \/ Transition(p, "PERMIT_ISSUED") /\ Goes("issued")
                   \/ p \notin store /\ Fails /\ UNCHANGED state
             \/ OtherRaises /\ Fails /\ UNCHANGED <<state, permits>>
    /\ UNCHANGED <<phase, store, creating, session, late, listing, mode, latched, burned,
                   submitted, done, history>>

RecordPermit ==
    /\ At("issued")
    /\ \/ Appends(decision.p, "PERMIT_ISSUED", state[decision.p]) /\ Goes("request")
       \/ Raises(decision.p, "PERMIT_ISSUED", state[decision.p]) /\ Fails
    /\ UNCHANGED <<phase, store, state, creating, session, late, listing, machine, history>>

(* request_action, and the transition that follows it.  An action identifier   *)
(* that is known with another permit is a conflict; the queue may be full and  *)
(* the deadline may have passed.                                               *)
RequestAction ==
    /\ At("request")
    /\ LET p == decision.p IN
       \/ Fails /\ UNCHANGED <<state, submitted, ledger>>
       \/ /\ session[p] = "active" /\ ~faulted /\ p \notin submitted
          /\ \/ /\ Recorded
                /\ submitted' = submitted \cup {p}
                /\ \/ /\ Transition(p, "SUBMITTED")
                      /\ decision' = [decision EXCEPT !.at = "submitted", !.queues = TRUE]
                   \/ /\ p \notin store
                      /\ decision' = [decision EXCEPT !.at = "rollback", !.queues = TRUE]
                      /\ UNCHANGED state
             \/ OtherRaises /\ Fails /\ UNCHANGED <<state, submitted>>
    /\ UNCHANGED <<phase, store, creating, session, late, listing, mode, latched, permits,
                   burned, done, history>>

RecordSubmitted ==
    /\ At("submitted")
    /\ \/ Appends(decision.p, "SUBMITTED", state[decision.p]) /\ Goes("burn")
       \/ Raises(decision.p, "SUBMITTED", state[decision.p]) /\ Fails
    /\ UNCHANGED <<phase, store, state, creating, session, late, listing, machine, history>>

(* _finalize_decision: the challenge is burned, which raises if it was burned  *)
(* before, and the receipt is recorded.                                        *)
FinalizeDecision ==
    /\ At("burn")
    /\ LET p == decision.p IN
       /\ burned' = burned \cup {p}
       /\ \/ p \in burned /\ UNCHANGED ledger
          \/ p \notin burned /\ Recording(p, "RECEIPT", state[p])
    /\ decision' = NoDecision
    /\ UNCHANGED <<phase, store, state, creating, session, late, listing, mode, latched, permits,
                   submitted, done, history>>

(* A rollback that leaves the permit usable. *)
Rollback_PermitKept ==
    /\ At("rollback")
    /\ decision' = [decision EXCEPT !.at = "invalidate",
                                    !.started = state[decision.p] = "SUBMITTED"]
    /\ UNCHANGED <<phase, store, state, creating, session, late, listing, machine, ledger, history>>

(* A rollback that takes the action to be undone with its permit. *)
Rollback_NotStarted ==
    /\ At("rollback")
    /\ decision' = [decision EXCEPT !.at = "invalidate"]
    /\ permits' = [permits EXCEPT ![decision.p] = 0]
    /\ UNCHANGED <<phase, store, state, creating, session, late, listing, mode, latched, burned,
                   submitted, done, ledger, history>>

(* The rollback of an acceptance: whether dispatch may have started is read    *)
(* from the state, and the permits of the session are revoked, each in memory  *)
(* before it is recorded; a failure to record one keeps the ones after it.     *)
Rollback ==
    /\ At("rollback")
    /\ LET p == decision.p IN
       /\ decision' = [decision EXCEPT !.at = "invalidate", !.started = state[p] = "SUBMITTED"]
       /\ \/ permits[p] = 0 /\ UNCHANGED <<permits, ledger>>
          \/ permits[p] > 0 /\ permits' = [permits EXCEPT ![p] = 0] /\ Recorded
          \/ /\ permits[p] > 0
             /\ permits' = [permits EXCEPT ![p] = @ - 1]
             /\ AppendFails /\ UNCHANGED <<events, latest, audited, faulted>>
    /\ UNCHANGED <<phase, store, state, creating, session, late, listing, mode, latched, burned,
                   submitted, done, history>>

(* _invalidate_operator_proposal; that it cannot be recorded stops nothing. *)
Invalidate ==
    /\ At("invalidate")
    /\ LET p == decision.p IN
       \/ Transition(p, "INVALIDATED") /\ Recording(p, "INVALIDATED", "INVALIDATED")
       \/ p \notin store /\ UNCHANGED <<state, ledger>>
    /\ decision' = IF decision.arms \/ decision.started
                     THEN [decision EXCEPT !.at = "disarm"] ELSE NoDecision
    /\ UNCHANGED <<phase, store, creating, session, late, listing, machine, history>>

(* _disarm_core requests a safety stop. *)
DisarmAfterRollback ==
    /\ At("disarm")
    /\ mode' = "ESTOPPED"
    /\ latched' = TRUE
    /\ Recorded \/ OtherRaises
    /\ decision' = NoDecision
    /\ UNCHANGED <<phase, store, state, creating, session, late, listing, permits, burned,
                   submitted, done, history>>

-----------------------------------------------------------------------------
(* The rest of the daemon *)

(* The action runs, with its permit or refused without it, and ends. *)
ActionEnds(p) ==
    /\ phase = "up"
    /\ p \in submitted \ done
    /\ state[p] # "earlier"
    /\ done' = done \cup {p}
    /\ permits' = [permits EXCEPT ![p] = IF @ > 0 THEN @ - 1 ELSE 0]
    /\ UNCHANGED <<phase, store, state, creating, session, late, listing, decision, mode, latched,
                   burned, submitted, ledger, history>>

(* arm_runtime, of an administrator; that the event fails to be recorded is    *)
(* only noted.                                                                 *)
ArmRuntime ==
    /\ phase = "up"
    /\ mode # "ARMED" /\ ~latched
    /\ mode' = "ARMED"
    /\ Recorded \/ OtherRaises
    /\ UNCHANGED <<phase, store, state, creating, session, late, listing, decision, latched,
                   permits, burned, submitted, done, history>>

EmergencyStop ==
    /\ phase = "up"
    /\ ~latched
    /\ latched' = TRUE
    /\ mode' = "ESTOPPED"
    /\ UNCHANGED <<phase, store, state, creating, session, late, listing, decision, permits,
                   burned, submitted, done, ledger, history>>

(* The process dies; what it held in memory belongs to an earlier generation,  *)
(* and the next one revokes its permits before it does anything else.          *)
Crash ==
    /\ phase # "down"
    /\ crashes < MaxCrashes
    /\ crashes' = crashes + 1
    /\ phase' = "down"
    /\ store' = {}
    /\ state' = [p \in Proposal |-> IF state[p] = "none" THEN "none" ELSE "earlier"]
    /\ creating' = [p \in Proposal |-> "idle"]
    /\ session' = [p \in Proposal |-> "none"]
    /\ late' = {} /\ audited' = {}
    /\ listing' = [l \in Lister |-> NoListing]
    /\ decision' = NoDecision
    /\ mode' = "DISARMED" /\ latched' = FALSE
    /\ permits' = [p \in Proposal |-> 0]
    /\ UNCHANGED <<burned, submitted, done, events, latest, faulted, broken, faults, overwritten>>

(* The next process opens the ledger. *)
Restart ==
    /\ phase = "down"
    /\ phase' = "restoring"
    /\ faulted' = FALSE /\ broken' = FALSE
    /\ UNCHANGED <<store, state, creating, session, late, listing, decision, machine, events,
                   latest, audited, faults, history>>

Unclosed == {p \in Proposal : latest[p] \in Invalidatable}

(* _invalidate_previous_generation_operator_proposals closes them one by one;  *)
(* an append that raises ends the start.                                       *)
InvalidatePrevious(p) ==
    /\ phase = "restoring"
    /\ p \in Unclosed
    /\ \/ Appends(p, "INVALIDATED", "INVALIDATED") /\ UNCHANGED phase
       \/ Raises(p, "INVALIDATED", "INVALIDATED") /\ phase' = "down"
    /\ UNCHANGED <<store, state, creating, session, late, listing, decision, machine, history>>

Serve ==
    /\ phase = "restoring"
    /\ Unclosed = {}
    /\ phase' = "up"
    /\ UNCHANGED <<store, state, creating, session, late, listing, decision, machine, ledger,
                   history>>

Next ==
    \/ \E p \in Proposal :
          \/ CreateProposal(p) \/ CreateSession(p) \/ RecordCreated(p)
          \/ OpenSession(p) \/ EndSession(p)
          \/ TimePasses(p) \/ Expire(p) \/ AuditExpired(p) \/ Synchronize(p)
          \/ CancelProposal(p) \/ Decide(p) \/ ActionEnds(p) \/ InvalidatePrevious(p)
          \/ \E l \in Lister : ListFinds(l, p)
    \/ \E l \in Lister : ListPresents(l) \/ ListRecords(l)
    \/ RecordCancelled \/ RecordDeclined \/ RecordAccepted \/ ArmAfterDecision \/ IssuePermit
    \/ RecordPermit \/ RequestAction \/ RecordSubmitted \/ FinalizeDecision
    \/ Rollback \/ Invalidate \/ DisarmAfterRollback
    \/ ArmRuntime \/ EmergencyStop \/ Crash \/ Restart \/ Serve

Spec == Init /\ [][Next]_vars

-----------------------------------------------------------------------------
(* Properties *)

(* An action is queued for a proposal only when the acceptance and the permit  *)
(* are on the ledger, whatever fails on the way.                               *)
SubmissionIsAccepted ==
    \A p \in submitted : {"ACCEPTED", "PERMIT_ISSUED"} \subseteq events[p]

(* Once a decision is over, only a submitted proposal has a permit left: no    *)
(* acceptance that failed half-way leaves a usable permit behind.              *)
NoLeftoverPermit ==
    \A p \in Proposal : permits[p] > 0 => p \in submitted \/ decision.p = p

(* While the daemon serves, every proposal of an earlier generation that was   *)
(* pending or half accepted is closed on the ledger, also when a restart was   *)
(* itself interrupted.                                                         *)
ConsentEndsWithGeneration ==
    phase = "up" =>
        \A p \in Proposal :
            state[p] = "earlier" =>
                latest[p] \notin {"CREATED", "PRESENTED", "ACCEPTED", "PERMIT_ISSUED"}

(* An acceptance is being rolled back after its action was queued. *)
RollingBack == decision.queues /\ decision.at \in {"invalidate", "disarm"}

(* When an acceptance fails after its action was queued, the decision does not *)
(* return before a safety stop is requested, unless the action has ended, or a *)
(* thread without the decision lock has replaced the state the rollback reads  *)
(* (decide_operator_proposal).                                                 *)
RollbackStops ==
    [][RollingBack /\ decision' = NoDecision /\ phase' = "up"
            => latched' \/ decision.p \in done \/ decision.p \in overwritten]_vars

(* A declined proposal is executed only if a thread without the decision lock  *)
(* has replaced its state: two decisions never disagree otherwise, whatever    *)
(* fails in either of them (decide_operator_proposal).                         *)
DeclineStands == \A p \in submitted : "DECLINED" \in events[p] => p \in overwritten

(* A declined proposal is never executed: "Declined proposal cannot be         *)
(* accepted" (decide_operator_proposal).                                       *)
DeclineIsFinal == \A p \in submitted : "DECLINED" \notin events[p]

(* What is executed has been recorded as proposed, or is about to be:          *)
(* operator.proposal.create "writes OPERATOR_PROPOSAL_CREATED to the daemon    *)
(* Ledger" (OPERATOR_BROKER.md).                                               *)
SubmissionIsCreated ==
    \A p \in submitted : "CREATED" \in events[p] \/ creating[p] # "idle"

=============================================================================
