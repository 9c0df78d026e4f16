------------------------------ MODULE ActionGateway ------------------------------
(***************************************************************************)
(* Runtime.submit_action and the action gateway behind it: concurrent      *)
(* callers submit actions; the first submission of an action owns it, the  *)
(* others wait for its receipt; an executor runs under the lease of its    *)
(* body; an E-Stop latches the Runtime.                                    *)
(*                                                                         *)
(* A step is one critical section of the gateway, or one call made outside *)
(* it.  Timeouts may elapse whenever a caller waits.                       *)
(***************************************************************************)
EXTENDS Naturals, FiniteSets

CONSTANTS
    Caller,         \* threads that call submit_action
    Action,         \* action identifiers
    Physical,       \* those whose execution_mode is SHADOW or REAL
    Fixture,        \* those whose execution_mode is FIXTURE
    Strict,         \* those whose verification policy fails closed
    Required,       \* the evidence an action requires, as its rank
    Claims,         \* the evidence executors claim
    Body,           \* bodies
    BodyOf,         \* the body an action moves
    NoCaller,       \* a free body, or an action nobody owns
    Stops,          \* whether an E-Stop is requested
    MaxDiscards     \* bound: receipts that are discarded

(* Evidence levels in the order of _meets_evidence_requirement:             *)
(* SYNTHETIC, REQUESTED, DISPATCH_CONFIRMED, DRIVER_CONFIRMED,              *)
(* PHYSICALLY_OBSERVED, TASK_VERIFIED.                                      *)
Evidence == 0 .. 5
SYNTHETIC == 0
REQUESTED == 1

ASSUME GatewayAssumption ==
    /\ Physical \cup Fixture \cup Strict \subseteq Action
    /\ Physical \cap Fixture = {}
    /\ Required \in [Action -> Evidence]
    /\ Claims \subseteq Evidence
    /\ BodyOf \in [Action -> Body]
    /\ NoCaller \notin Caller
    /\ Stops \in BOOLEAN
    /\ MaxDiscards \in Nat

VARIABLES
    receipts,       \* _receipts
    inflight,       \* _inflight: the caller whose submission owns an action
    lease,          \* the holder of each body lock of the resource manager
    latched,        \* _emergency_stop_latched
    pc,             \* where each caller is
    target,         \* the action it submits
    draft,          \* the receipt it is about to record
    calls,          \* history: calls of the executor of each action
    discards        \* history: discards of the receipt of each action

vars == <<receipts, inflight, lease, latched, pc, target, draft, calls, discards>>
tables == <<receipts, inflight, lease>>
history == <<calls, discards>>

(* A receipt: its final state, its evidence, and whether an executor spoke. *)
Receipt(s, e, x) == [state |-> s, evidence |-> e, executed |-> x]
Final == {"COMPLETED", "DEGRADED", "BLOCKED", "FAILED", "TIMED_OUT"}
NoReceipt == Receipt("none", REQUESTED, FALSE)
ReceiptType ==
    {NoReceipt} \cup [state : Final, evidence : Evidence, executed : BOOLEAN]

(* _failure_receipt *)
Failure(a, s) == Receipt(s, IF a \in Fixture THEN SYNTHETIC ELSE REQUESTED, FALSE)

Place == {"idle", "entering", "rejecting", "waiting", "woken", "owner", "leasing", "leased",
          "executing", "storing", "leaving"}
Owning == {"owner", "leasing", "leased", "executing", "storing", "leaving"}

TypeOK ==
    /\ receipts \in [Action -> ReceiptType]
    /\ inflight \in [Action -> Caller \cup {NoCaller}]
    /\ lease \in [Body -> Caller \cup {NoCaller}]
    /\ latched \in BOOLEAN
    /\ pc \in [Caller -> Place]
    /\ target \in [Caller -> Action]
    /\ draft \in [Caller -> ReceiptType]
    /\ calls \in [Action -> Nat]
    /\ discards \in [Action -> 0 .. MaxDiscards]

Init ==
    /\ receipts = [a \in Action |-> NoReceipt]
    /\ inflight = [a \in Action |-> NoCaller]
    /\ lease = [b \in Body |-> NoCaller]
    /\ latched = FALSE
    /\ pc = [c \in Caller |-> "idle"]
    /\ target \in [Caller -> Action]
    /\ draft = [c \in Caller |-> NoReceipt]
    /\ calls = [a \in Action |-> 0]
    /\ discards = [a \in Action |-> 0]

Goto(c, p) == pc' = [pc EXCEPT ![c] = p]

(* The caller has its answer; it keeps none of the gateway's state. *)
Answered(c) == Goto(c, "idle")

-----------------------------------------------------------------------------
(* Entering *)

(* submit_action reads the latch, without a lock, before it calls the gateway. *)
Submit(c, a) ==
    /\ pc[c] = "idle"
    /\ target' = [target EXCEPT ![c] = a]
    /\ Goto(c, IF latched /\ a \in Physical THEN "rejecting" ELSE "entering")
    /\ UNCHANGED <<tables, latched, draft, history>>

(* reject(): answers with the receipt there is, or records a refusal. *)
Reject(c) ==
    /\ pc[c] = "rejecting"
    /\ receipts' = IF receipts[target[c]] = NoReceipt
                     THEN [receipts EXCEPT ![target[c]] = Failure(target[c], "BLOCKED")]
                     ELSE receipts
    /\ Answered(c)
    /\ UNCHANGED <<inflight, lease, latched, target, draft, history>>

(* The first critical section of submit(). *)
Enter(c) ==
    /\ pc[c] = "entering"
    /\ LET a == target[c] IN
       \/ receipts[a] # NoReceipt /\ Answered(c) /\ UNCHANGED inflight
       \/ /\ receipts[a] = NoReceipt
          /\ inflight[a] # NoCaller
          /\ Goto(c, "waiting")
          /\ UNCHANGED inflight
       \/ /\ receipts[a] = NoReceipt
          /\ inflight[a] = NoCaller
          /\ inflight' = [inflight EXCEPT ![a] = c]
          /\ Goto(c, "owner")
    /\ UNCHANGED <<receipts, lease, latched, target, draft, history>>

(* A waiting submission that records its own timeout. *)
WaitTimeout_Recorded(c) ==
    /\ pc[c] = "waiting"
    /\ receipts' = [receipts EXCEPT ![target[c]] = Failure(target[c], "TIMED_OUT")]
    /\ Answered(c)
    /\ UNCHANGED <<inflight, lease, latched, target, draft, history>>

(* A second submission of an action in flight: its wait times out, or it is    *)
(* woken; either answer is given and not recorded.                             *)
WaitTimeout(c) ==
    /\ pc[c] = "waiting"
    /\ Answered(c)
    /\ UNCHANGED <<tables, latched, target, draft, history>>

Woken(c) ==
    /\ pc[c] = "woken"
    /\ Answered(c)
    /\ UNCHANGED <<tables, latched, target, draft, history>>

-----------------------------------------------------------------------------
(* Executing *)

Drafts(c, r) ==
    /\ draft' = [draft EXCEPT ![c] = r]
    /\ Goto(c, "storing")

(* _execute before the lease: snapshot, authorization and executor are checked *)
(* (their presence is an input), then the deadline; an internal error is a     *)
(* failure.                                                                    *)
Check(c) ==
    /\ pc[c] = "owner"
    /\ \/ \E s \in {"BLOCKED", "FAILED", "TIMED_OUT"} : Drafts(c, Failure(target[c], s))
       \/ Goto(c, "leasing") /\ UNCHANGED draft
    /\ UNCHANGED <<tables, latched, target, history>>

(* A lease that is granted while somebody else holds the body. *)
AcquireLease_Shared(c) ==
    /\ pc[c] = "leasing"
    /\ lease' = [lease EXCEPT ![BodyOf[target[c]]] = c]
    /\ Goto(c, "leased")
    /\ UNCHANGED <<receipts, inflight, latched, target, draft, history>>

(* ResourceManager.acquire *)
AcquireLease(c) ==
    /\ pc[c] = "leasing"
    /\ lease[BodyOf[target[c]]] = NoCaller
    /\ lease' = [lease EXCEPT ![BodyOf[target[c]]] = c]
    /\ Goto(c, "leased")
    /\ UNCHANGED <<receipts, inflight, latched, target, draft, history>>

(* A wait for the lease that has no end of its own. *)
LeaseTimeout_Never(c) == FALSE

LeaseTimeout(c) ==
    /\ pc[c] = "leasing"
    /\ Drafts(c, Failure(target[c], "TIMED_OUT"))
    /\ UNCHANGED <<tables, latched, target, history>>

CallExecutor(c) ==
    /\ pc[c] = "leased"
    /\ calls' = [calls EXCEPT ![target[c]] = @ + 1]
    /\ Goto(c, "executing")
    /\ UNCHANGED <<tables, latched, target, draft, discards>>

(* A grading that believes the state an executor claims. *)
Graded_Trusting(a, s, e, matching) ==
    Receipt(s, IF matching THEN e ELSE REQUESTED, TRUE)

(* What the gateway makes of an executor's claim: evidence of the wrong domain *)
(* or level is worth nothing and fails the action, a FIXTURE proves nothing,   *)
(* and success below the required evidence is a failure, or degraded success   *)
(* when the policy does not fail closed.                                       *)
Graded(a, s, e, matching) ==
    LET evidence == IF a \in Fixture THEN SYNTHETIC ELSE IF matching THEN e ELSE REQUESTED
        claimed == IF matching THEN s ELSE "FAILED"
        weak == a \in Fixture \/ evidence < Required[a]
    IN  Receipt(IF claimed = "COMPLETED" /\ weak
                  THEN IF a \in Strict \ Fixture THEN "FAILED" ELSE "DEGRADED"
                  ELSE claimed,
                evidence, TRUE)

(* The executor returns or raises (any claim but success passes through like   *)
(* a failure); writing the receipt to disk may raise as well, which makes it a *)
(* failure.  Either way the lease is given back.                               *)
ExecutorReturns(c) ==
    /\ pc[c] = "executing"
    /\ LET a == target[c] IN
       /\ \/ Drafts(c, Failure(a, "FAILED"))
          \/ \E s \in {"COMPLETED", "FAILED"}, e \in Claims, matching \in BOOLEAN :
                Drafts(c, Graded(a, s, e, matching))
       /\ lease' = [lease EXCEPT ![BodyOf[a]] = NoCaller]
    /\ UNCHANGED <<receipts, inflight, latched, target, history>>

(* An owner that keeps no record of a failure, so that it can be tried again. *)
Store_SuccessOnly(c) ==
    /\ pc[c] = "storing"
    /\ receipts' = IF draft[c].state \in {"COMPLETED", "DEGRADED"}
                     THEN [receipts EXCEPT ![target[c]] = draft[c]]
                     ELSE receipts
    /\ Goto(c, "leaving")
    /\ UNCHANGED <<inflight, lease, latched, target, draft, history>>

(* The owner records its receipt ... *)
Store(c) ==
    /\ pc[c] = "storing"
    /\ receipts' = [receipts EXCEPT ![target[c]] = draft[c]]
    /\ Goto(c, "leaving")
    /\ UNCHANGED <<inflight, lease, latched, target, draft, history>>

(* ... publishes it, and then wakes those who wait for it. *)
Leave(c) ==
    /\ pc[c] = "leaving"
    /\ inflight' = [inflight EXCEPT ![target[c]] = NoCaller]
    /\ draft' = [draft EXCEPT ![c] = NoReceipt]
    /\ pc' = [d \in Caller |->
                 CASE d = c -> "idle"
                   [] pc[d] = "waiting" /\ target[d] = target[c] -> "woken"
                   [] OTHER -> pc[d]]
    /\ UNCHANGED <<receipts, lease, latched, target, history>>

-----------------------------------------------------------------------------
(* discard_receipt(), called by the control plane once the receipt is retained *)
(* elsewhere.                                                                  *)
DiscardReceipt(a) ==
    /\ inflight[a] = NoCaller
    /\ receipts[a] # NoReceipt
    /\ discards[a] < MaxDiscards
    /\ receipts' = [receipts EXCEPT ![a] = NoReceipt]
    /\ discards' = [discards EXCEPT ![a] = @ + 1]
    /\ UNCHANGED <<inflight, lease, latched, pc, target, draft, calls>>

(* request_emergency_stop latches the Runtime for good. *)
EmergencyStop ==
    /\ Stops
    /\ ~latched
    /\ latched' = TRUE
    /\ UNCHANGED <<tables, pc, target, draft, history>>

Next ==
    \/ EmergencyStop
    \/ \E a \in Action : DiscardReceipt(a) \/ \E c \in Caller : Submit(c, a)
    \/ \E c \in Caller :
          \/ Reject(c) \/ Enter(c) \/ WaitTimeout(c) \/ Woken(c)
          \/ Check(c) \/ AcquireLease(c) \/ LeaseTimeout(c) \/ CallExecutor(c)
          \/ ExecutorReturns(c) \/ Store(c) \/ Leave(c)

Spec == Init /\ [][Next]_vars

(* Threads run and time passes.  Nobody has to submit, and no executor has to  *)
(* return.                                                                     *)
Fairness ==
    \A c \in Caller :
        /\ WF_vars(Reject(c)) /\ WF_vars(Enter(c)) /\ WF_vars(WaitTimeout(c)) /\ WF_vars(Woken(c))
        /\ WF_vars(Check(c)) /\ WF_vars(LeaseTimeout(c)) /\ WF_vars(CallExecutor(c))
        /\ WF_vars(Store(c)) /\ WF_vars(Leave(c))

FairSpec == Spec /\ Fairness

-----------------------------------------------------------------------------
(* Properties *)

(* Two executors never move the same body at once. *)
OneExecutorPerBody ==
    \A c, d \in Caller :
        pc[c] = "executing" /\ pc[d] = "executing" /\ BodyOf[target[c]] = BodyOf[target[d]]
            => c = d

(* However many callers submit an action, its executor is called once for each *)
(* time its receipt was forgotten: also while another submission is waiting,   *)
(* recording or leaving.                                                       *)
ExecutedOncePerReceipt == \A a \in Action : calls[a] <= 1 + discards[a]

(* A receipt that says COMPLETED comes from an executor, never from a FIXTURE, *)
(* and with the evidence the action requires; and no other receipt carries     *)
(* evidence of a physical effect.                                              *)
ClaimsAreEarned ==
    \A a \in Action :
        /\ receipts[a].state = "COMPLETED" =>
              /\ receipts[a].executed /\ calls[a] > 0
              /\ a \notin Fixture
              /\ receipts[a].evidence >= Required[a]
        /\ receipts[a].evidence > REQUESTED => receipts[a].executed

(* Every call returns, unless its own executor does not. *)
CallsReturn ==
    \A c \in Caller : pc[c] # "idle" ~> pc[c] \in {"idle", "executing"}

(* A receipt, once recorded, is the receipt of its action until it is          *)
(* discarded, whoever waits, times out or repeats the submission (submit()     *)
(* must "return an idempotent evidence receipt", action_gateway.py); only      *)
(* after an E-Stop may the owner replace the refusal of a repeated submission. *)
ReceiptStands ==
    [][\A a \in Action : receipts[a] # NoReceipt =>
          \/ receipts'[a] \in {receipts[a], NoReceipt}
          \/ latched /\ receipts[a] = Failure(a, "BLOCKED")]_vars

(* No executor of a SHADOW or REAL action is called once the E-Stop is         *)
(* latched: "Real or shadow execution remains blocked after emergency stop"    *)
(* (Runtime.submit_action).                                                    *)
NoExecutionAfterStop ==
    [][\A a \in Physical : calls'[a] # calls[a] => ~latched]_vars

=============================================================================
