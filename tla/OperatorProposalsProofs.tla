---------------------- MODULE OperatorProposalsProofs ----------------------
(***************************************************************************)
(* What the consent plane keeps whatever fails: an action is queued only   *)
(* on a recorded acceptance and permit, a failed acceptance leaves no      *)
(* permit, and nothing undecided survives a generation; and what it keeps  *)
(* as long as no thread without the decision lock overwrites a decided     *)
(* proposal: a decline stands, and a failed acceptance ends in a safety    *)
(* stop.                                                                   *)
(***************************************************************************)
EXTENDS OperatorProposals, FiniteSetTheorems, TLAPS

USE DEF history

-----------------------------------------------------------------------------
(* The inductive invariant *)

Step ==
    {"idle", "cancelled", "declined", "accepted", "arm", "permit", "issued", "request",
     "submitted", "burn", "rollback", "invalidate", "disarm"}

DecisionType ==
    [at : Step, p : Proposal \cup {NoProposal}, arms : BOOLEAN, started : BOOLEAN, queues : BOOLEAN]

Typed ==
    /\ phase \in {"down", "restoring", "up"}
    /\ store \subseteq Proposal
    /\ state \in [Proposal -> ProposalState \cup {"none", "earlier"}]
    /\ creating \in [Proposal -> {"idle", "session", "record"}]
    /\ session \in [Proposal -> {"none", "active", "ended"}]
    /\ late \subseteq Proposal /\ overwritten \subseteq Proposal
    /\ listing \in [Lister -> [at : {"idle", "saw", "presented"}, p : Proposal \cup {NoProposal}]]
    /\ decision \in DecisionType
    /\ mode \in {"DISARMED", "ARMED", "ESTOPPED"} /\ latched \in BOOLEAN
    /\ permits \in [Proposal -> Nat]
    /\ burned \subseteq Proposal /\ submitted \subseteq Proposal /\ done \subseteq submitted
    /\ crashes \in 0 .. MaxCrashes

LedgerTyped ==
    /\ audited \subseteq Proposal
    /\ events \in [Proposal -> SUBSET Kind]
    /\ latest \in [Proposal -> ProposalState \cup {"none"}]
    /\ faulted \in BOOLEAN /\ broken \in BOOLEAN
    /\ faults \in 0 .. MaxFaults

StoreInv == IsFiniteSet(store) /\ Cardinality(store) <= Capacity

\* Everything in memory is about a proposal of this generation: no thread holds
\* on to one that the daemon before it left behind.
CurrentInv ==
    /\ \A p \in store : state[p] \in ProposalState
    /\ \A p \in Proposal : creating[p] # "idle" => state[p] \in ProposalState
    /\ \A l \in Lister : listing[l].at # "idle" =>
          listing[l].p \in Proposal /\ state[listing[l].p] \in ProposalState
    /\ decision.at # "idle" => decision.p \in Proposal /\ state[decision.p] \in ProposalState

\* An acceptance that goes on is on record, and one that requests the action
\* has its permit on record.
RecordInv ==
    /\ decision.at \in {"arm", "permit", "issued", "request"} => "ACCEPTED" \in events[decision.p]
    /\ decision.at = "request" => "PERMIT_ISSUED" \in events[decision.p]

\* The one permit of a proposal that is not submitted is in the hands of the
\* decision that issued it, and its rollback takes it back.
PermitInv ==
    \A p \in Proposal \ submitted :
        \/ permits[p] = 0
        \/ permits[p] = 1 /\ decision.p = p /\ decision.at \in {"issued", "request", "rollback"}

IInv ==
    /\ Typed
    /\ LedgerTyped
    /\ StoreInv
    /\ CurrentInv
    /\ RecordInv
    /\ PermitInv
    /\ SubmissionIsAccepted
    /\ ConsentEndsWithGeneration

\* A proposal that is not decided.
Open == Pending \cup {"none"}

\* The steps of a decision that accepts.
Accepting == {"accepted", "arm", "permit", "issued", "request", "submitted", "rollback"}

\* A decided proposal that nobody overwrites does not become pending again.
DecidedInv ==
    /\ decision.at \in Accepting \cup {"declined"} /\ decision.p \notin overwritten =>
          state[decision.p] \notin Open
    /\ \A p \in Proposal \ overwritten :
          p \in submitted \/ "DECLINED" \in events[p] => state[p] \notin Open
    /\ decision.at \in Accepting /\ decision.p \notin overwritten =>
          "DECLINED" \notin events[decision.p]
    /\ decision.at = "declined" /\ decision.p \notin overwritten => decision.p \notin submitted

\* A proposal whose acceptance queued the action is seen to be submitted by the
\* rollback, unless the action has ended or the proposal is overwritten.
QueuedInv ==
    /\ \A p \in Proposal : state[p] \in ProposalState \ Terminal => p \in store
    /\ decision.at \in {"issued", "request"} /\ decision.p \notin overwritten =>
          state[decision.p] = "PERMIT_ISSUED"
    /\ decision.queues => decision.at \in {"submitted", "burn", "rollback", "invalidate", "disarm"}
    /\ decision.queues /\ decision.at \in {"submitted", "rollback"} =>
          state[decision.p] = "SUBMITTED" \/ decision.p \in done \/ decision.p \in overwritten
    /\ decision.queues /\ decision.at = "invalidate" =>
          decision.started \/ decision.p \in done \/ decision.p \in overwritten

QInv == IInv /\ DecidedInv /\ DeclineStands /\ QueuedInv

-----------------------------------------------------------------------------
(* How a decision moves on *)

\* A decision goes from step to step and stays with its proposal.
LEMMA DecisionMoves ==
    ASSUME decision \in DecisionType, NEW a \in Step, Goes(a)
    PROVE  /\ decision' \in DecisionType /\ decision'.at = a /\ decision'.p = decision.p
           /\ decision'.arms = decision.arms /\ decision'.started = decision.started
           /\ decision'.queues = decision.queues
  BY DEF Goes, DecisionType

\* The state of the decision between two decisions.
LEMMA Undecided ==
    /\ NoDecision \in DecisionType /\ NoDecision.at = "idle" /\ NoDecision.p = NoProposal
    /\ NoDecision.queues = FALSE
  BY DEF NoDecision, Decision, DecisionType, Step

-----------------------------------------------------------------------------
(* What the steps do to the ledger *)

\* What an event of a proposal changes.
LEMMA GrowsFacts ==
    ASSUME LedgerTyped, NEW p \in Proposal, NEW k \in Kind, NEW s \in ProposalState,
           Grows(p, k, s), faulted' \in BOOLEAN, broken' \in BOOLEAN, faults' \in 0 .. MaxFaults
    PROVE  /\ LedgerTyped'
           /\ events'[p] = events[p] \cup {k} /\ latest'[p] = s
           /\ \A q \in Proposal \ {p} : events'[q] = events[q] /\ latest'[q] = latest[q]
<1>1. /\ events' = [events EXCEPT ![p] = @ \cup {k}] /\ latest' = [latest EXCEPT ![p] = s]
      /\ audited' = audited \cup {p}
  BY DEF Grows
<1>2. events' \in [Proposal -> SUBSET Kind]
  BY <1>1 DEF LedgerTyped
<1>3. latest' \in [Proposal -> ProposalState \cup {"none"}]
  BY <1>1 DEF LedgerTyped
<1> QED
  BY <1>1, <1>2, <1>3 DEF LedgerTyped

\* What an append to the ledger of a proposal changes.
LEMMA AppendsFacts ==
    ASSUME LedgerTyped, NEW p \in Proposal, NEW k \in Kind, NEW s \in ProposalState,
           Appends(p, k, s)
    PROVE  /\ LedgerTyped' /\ UNCHANGED <<faulted, broken, faults>>
           /\ events'[p] = events[p] \cup {k} /\ latest'[p] = s
           /\ \A q \in Proposal \ {p} : events'[q] = events[q] /\ latest'[q] = latest[q]
<1>1. UNCHANGED <<faulted, broken, faults>> /\ Grows(p, k, s)
  BY DEF Appends
<1>2. faulted' \in BOOLEAN /\ broken' \in BOOLEAN /\ faults' \in 0 .. MaxFaults
  BY <1>1 DEF LedgerTyped
<1> QED
  BY <1>1, <1>2, GrowsFacts

\* An append that raises keeps the counters in their bounds.
LEMMA FailsFacts ==
    ASSUME LedgerTyped, AppendFails
    PROVE  broken' \in BOOLEAN /\ faults' \in 0 .. MaxFaults
  BY ProposalAssumption DEF AppendFails, LedgerTyped

\* The step records nothing of any proposal.
Keeps == LedgerTyped' /\ UNCHANGED <<events, latest>>

\* The step records at most an event of kind k, and of p only.
Touches(p, k) ==
    /\ LedgerTyped'
    /\ \A q \in Proposal \ {p} : events'[q] = events[q] /\ latest'[q] = latest[q]
    /\ events'[p] = events[p] \/ events'[p] = events[p] \cup {k}

\* A step touches the events of one proposal or of none.
LEMMA TouchesOrKeeps ==
    ASSUME LedgerTyped
    PROVE  /\ OtherRaises => Keeps
           /\ Recorded => Keeps
           /\ UNCHANGED ledger => Keeps
           /\ \A p \in Proposal, k \in Kind, s \in ProposalState :
                 Appends(p, k, s) \/ Raises(p, k, s) \/ Recording(p, k, s) => Touches(p, k)
<1>1. OtherRaises => Keeps
  BY FailsFacts DEF OtherRaises, Keeps, LedgerTyped
<1>2. UNCHANGED ledger => Keeps
  BY DEF ledger, Keeps, LedgerTyped
<1>3. ASSUME NEW p \in Proposal, NEW k \in Kind, NEW s \in ProposalState,
             Appends(p, k, s) \/ Raises(p, k, s)
      PROVE  Touches(p, k)
  <2>1. CASE Appends(p, k, s)
    BY <2>1, AppendsFacts DEF Touches
  <2>2. CASE Raises(p, k, s)
    <3>1. faulted' \in BOOLEAN /\ broken' \in BOOLEAN /\ faults' \in 0 .. MaxFaults
      BY <2>2, FailsFacts DEF Raises
    <3>2. CASE UNCHANGED <<events, latest, audited>>
      BY <3>1, <3>2 DEF Touches, LedgerTyped
    <3>3. CASE Grows(p, k, s)
      BY <3>1, <3>3, GrowsFacts DEF Touches
    <3> QED
      BY <2>2, <3>2, <3>3 DEF Raises
  <2> QED
    BY <1>3, <2>1, <2>2
<1> QED
  BY <1>1, <1>2, <1>3 DEF Recorded, Recording

\* The steps on one proposal.
LEMMA ProposalEvents ==
    ASSUME IInv, NEW p \in Proposal
    PROVE  /\ RecordCreated(p) => Touches(p, "CREATED")
           /\ AuditExpired(p) => Touches(p, "EXPIRED")
           /\ Synchronize(p) => Touches(p, "TERMINAL")
           /\ InvalidatePrevious(p) => Touches(p, "INVALIDATED")
           /\ Expire(p) \/ CreateSession(p) => Keeps
<1> USE DEF Kind, ProposalState, Terminal
<1>1. LedgerTyped /\ CurrentInv
  BY DEF IInv
<1>2. RecordCreated(p) => Touches(p, "CREATED")
  BY <1>1, TouchesOrKeeps DEF RecordCreated, CurrentInv
<1>3. AuditExpired(p) => Touches(p, "EXPIRED")
  BY <1>1, TouchesOrKeeps DEF AuditExpired
<1>4. Synchronize(p) => Touches(p, "TERMINAL")
  BY <1>1, TouchesOrKeeps DEF Synchronize
<1>5. InvalidatePrevious(p) => Touches(p, "INVALIDATED")
  BY <1>1, TouchesOrKeeps DEF InvalidatePrevious
<1>6. CreateSession(p) => Keeps
  BY <1>1, TouchesOrKeeps DEF CreateSession
<1>7. Expire(p) => Keeps
  BY <1>1 DEF Expire, Keeps, LedgerTyped
<1> QED
  BY <1>2, <1>3, <1>4, <1>5, <1>6, <1>7

\* The steps of a decision.
LEMMA DecisionEvents ==
    ASSUME IInv
    PROVE  /\ RecordCancelled => Touches(decision.p, "CANCELLED")
           /\ RecordDeclined => Touches(decision.p, "DECLINED")
           /\ RecordAccepted => Touches(decision.p, "ACCEPTED")
           /\ RecordPermit => Touches(decision.p, "PERMIT_ISSUED")
           /\ RecordSubmitted => Touches(decision.p, "SUBMITTED")
           /\ FinalizeDecision => Keeps \/ Touches(decision.p, "RECEIPT")
           /\ Invalidate => Keeps \/ Touches(decision.p, "INVALIDATED")
           /\ ArmAfterDecision \/ IssuePermit \/ RequestAction \/ Rollback
                 \/ DisarmAfterRollback => Keeps
<1> USE DEF Kind, ProposalState, Terminal, At
<1>1. LedgerTyped /\ CurrentInv
  BY DEF IInv
<1>2. RecordCancelled => Touches(decision.p, "CANCELLED")
  BY <1>1, TouchesOrKeeps DEF RecordCancelled, CurrentInv
<1>3. RecordDeclined => Touches(decision.p, "DECLINED")
  BY <1>1, TouchesOrKeeps DEF RecordDeclined, CurrentInv
<1>4. RecordAccepted => Touches(decision.p, "ACCEPTED")
  BY <1>1, TouchesOrKeeps DEF RecordAccepted, CurrentInv
<1>5. RecordPermit => Touches(decision.p, "PERMIT_ISSUED")
  BY <1>1, TouchesOrKeeps DEF RecordPermit, CurrentInv
<1>6. RecordSubmitted => Touches(decision.p, "SUBMITTED")
  BY <1>1, TouchesOrKeeps DEF RecordSubmitted, CurrentInv
<1>7. FinalizeDecision => Keeps \/ Touches(decision.p, "RECEIPT")
  BY <1>1, TouchesOrKeeps DEF FinalizeDecision, CurrentInv
<1>8. Invalidate => Keeps \/ Touches(decision.p, "INVALIDATED")
  BY <1>1, TouchesOrKeeps DEF Invalidate, CurrentInv
<1>9. ArmAfterDecision \/ IssuePermit \/ RequestAction \/ DisarmAfterRollback => Keeps
  BY <1>1, TouchesOrKeeps DEF ArmAfterDecision, IssuePermit, RequestAction, DisarmAfterRollback
<1>10. Rollback => Keeps
  <2> SUFFICES ASSUME Rollback PROVE Keeps
    OBVIOUS
  <2>1. CASE UNCHANGED ledger
    BY <1>1, <2>1, TouchesOrKeeps
  <2>2. CASE AppendFails /\ UNCHANGED <<events, latest, audited, faulted>>
    BY <1>1, <2>2, FailsFacts DEF Keeps, LedgerTyped
  <2> QED
    BY <2>1, <2>2 DEF Rollback, Recorded
<1> QED
  BY <1>2, <1>3, <1>4, <1>5, <1>6, <1>7, <1>8, <1>9, <1>10

-----------------------------------------------------------------------------
(* Every step keeps the invariant *)

\* A new proposal is undecided and has no permit.
LEMMA CreateProposalKeeps ==
    ASSUME IInv, NEW p \in Proposal, CreateProposal(p)
    PROVE  IInv'
<1>1. Typed'
  BY ProposalAssumption DEF IInv, Typed, CreateProposal, machine, HasRoom, ProposalState,
       Terminal
<1>2. Keeps
  BY TouchesOrKeeps DEF IInv, CreateProposal
<1>3. StoreInv'
  <2>1. CASE HasRoom /\ store' = store \cup {p}
    <3>1. /\ IsFiniteSet(store')
          /\ \/ Cardinality(store') = Cardinality(store)
             \/ Cardinality(store') = Cardinality(store) + 1
      BY <2>1, FS_AddElement DEF IInv, StoreInv
    <3> QED
      BY <2>1, <3>1, FS_CardinalityType, ProposalAssumption DEF IInv, StoreInv, HasRoom
  <2>2. ASSUME NEW q \in store, store' = (store \ {q}) \cup {p} PROVE StoreInv'
    <3>1. IsFiniteSet(store \ {q}) /\ Cardinality(store \ {q}) = Cardinality(store) - 1
      BY <2>2, FS_RemoveElement DEF IInv, StoreInv
    <3>2. /\ IsFiniteSet(store')
          /\ \/ Cardinality(store') = Cardinality(store \ {q})
             \/ Cardinality(store') = Cardinality(store \ {q}) + 1
      BY <2>2, <3>1, FS_AddElement
    <3> QED
      BY <3>1, <3>2, FS_CardinalityType, ProposalAssumption DEF IInv, StoreInv
  <2>3. CASE UNCHANGED store
    BY <2>3 DEF IInv, StoreInv
  <2> QED
    BY <2>1, <2>2, <2>3 DEF CreateProposal
<1>7. CurrentInv'
  BY DEF IInv, CurrentInv, Typed, CreateProposal, ProposalState
<1>4. RecordInv' /\ SubmissionIsAccepted'
  BY <1>2 DEF IInv, RecordInv, SubmissionIsAccepted, CurrentInv, Typed, CreateProposal,
       machine, HasRoom, Keeps
<1>5. PermitInv'
  BY DEF IInv, PermitInv, Typed, CreateProposal, machine, HasRoom
<1>6. ConsentEndsWithGeneration'
  BY <1>2 DEF IInv, ConsentEndsWithGeneration, CurrentInv, Typed, CreateProposal, machine,
       HasRoom, ProposalState, Terminal, Keeps
<1> QED
  BY <1>1, <1>2, <1>3, <1>4, <1>5, <1>6, <1>7 DEF IInv, Keeps

\* The session of a new proposal is active, or its creation ends.
LEMMA CreateSessionKeeps ==
    ASSUME IInv, NEW p \in Proposal, CreateSession(p)
    PROVE  IInv'
<1>1. Typed'
  BY ProposalAssumption DEF IInv, Typed, CreateSession, machine, ProposalState, Terminal
<1>2. Keeps
  BY ProposalEvents
<1>3. StoreInv' /\ CurrentInv'
  BY DEF IInv, StoreInv, CurrentInv, Typed, CreateSession, machine, ProposalState, Terminal
<1>4. RecordInv' /\ SubmissionIsAccepted'
  BY <1>2 DEF IInv, RecordInv, SubmissionIsAccepted, CurrentInv, Typed, CreateSession,
       machine, Keeps
<1>5. PermitInv'
  BY DEF IInv, PermitInv, Typed, CreateSession, machine
<1>6. ConsentEndsWithGeneration'
  BY <1>2 DEF IInv, ConsentEndsWithGeneration, CurrentInv, Typed, CreateSession, machine,
       ProposalState, Terminal, Keeps
<1> QED
  BY <1>1, <1>2, <1>3, <1>4, <1>5, <1>6 DEF IInv, Keeps

\* The creation is recorded, or the ledger raises.
LEMMA RecordCreatedKeeps ==
    ASSUME IInv, NEW p \in Proposal, RecordCreated(p)
    PROVE  IInv'
<1>1. Typed'
  BY ProposalAssumption DEF IInv, Typed, RecordCreated, Transition, Overwrites, machine,
       ProposalState, Terminal
<1>2. Touches(p, "CREATED")
  BY ProposalEvents
<1>3. StoreInv' /\ CurrentInv'
  BY DEF IInv, StoreInv, CurrentInv, Typed, RecordCreated, Transition, Overwrites, machine,
       ProposalState, Terminal
<1>4. RecordInv' /\ SubmissionIsAccepted'
  BY <1>2 DEF IInv, RecordInv, SubmissionIsAccepted, CurrentInv, Typed, RecordCreated,
       Transition, Overwrites, machine, Touches
<1>5. PermitInv'
  BY DEF IInv, PermitInv, Typed, RecordCreated, Transition, Overwrites, machine
<1>6. ConsentEndsWithGeneration'
  BY <1>2 DEF IInv, ConsentEndsWithGeneration, CurrentInv, Typed, RecordCreated, Transition,
       Overwrites, machine, ProposalState, Terminal, Touches
<1> QED
  BY <1>1, <1>2, <1>3, <1>4, <1>5, <1>6 DEF IInv, Touches

\* Opening a session touches no proposal.
LEMMA OpenSessionKeeps ==
    ASSUME IInv, NEW p \in Proposal, OpenSession(p)
    PROVE  IInv'
<1>1. Typed'
  BY ProposalAssumption DEF IInv, Typed, OpenSession, machine, ProposalState, Terminal
<1>2. Keeps
  BY TouchesOrKeeps DEF IInv, OpenSession
<1>3. StoreInv' /\ CurrentInv'
  BY DEF IInv, StoreInv, CurrentInv, Typed, OpenSession, machine, ProposalState, Terminal
<1>4. RecordInv' /\ SubmissionIsAccepted'
  BY <1>2 DEF IInv, RecordInv, SubmissionIsAccepted, CurrentInv, Typed, OpenSession, machine,
       Keeps
<1>5. PermitInv'
  BY DEF IInv, PermitInv, Typed, OpenSession, machine
<1>6. ConsentEndsWithGeneration'
  BY <1>2 DEF IInv, ConsentEndsWithGeneration, CurrentInv, Typed, OpenSession, machine,
       ProposalState, Terminal, Keeps
<1> QED
  BY <1>1, <1>2, <1>3, <1>4, <1>5, <1>6 DEF IInv, Keeps

\* The end of a session takes its permits.
LEMMA EndSessionKeeps ==
    ASSUME IInv, NEW p \in Proposal, EndSession(p)
    PROVE  IInv'
<1>1. Typed'
  BY ProposalAssumption DEF IInv, Typed, EndSession, ProposalState, Terminal
<1>2. Keeps
  BY TouchesOrKeeps DEF IInv, EndSession
<1>3. StoreInv' /\ CurrentInv'
  BY DEF IInv, StoreInv, CurrentInv, Typed, EndSession, ProposalState, Terminal
<1>4. RecordInv' /\ SubmissionIsAccepted'
  BY <1>2 DEF IInv, RecordInv, SubmissionIsAccepted, CurrentInv, Typed, EndSession, Keeps
<1>5. PermitInv'
  BY DEF IInv, PermitInv, Typed, EndSession
<1>6. ConsentEndsWithGeneration'
  BY <1>2 DEF IInv, ConsentEndsWithGeneration, CurrentInv, Typed, EndSession, ProposalState,
       Terminal, Keeps
<1> QED
  BY <1>1, <1>2, <1>3, <1>4, <1>5, <1>6 DEF IInv, Keeps

\* The clock touches no proposal.
LEMMA TimePassesKeeps ==
    ASSUME IInv, NEW p \in Proposal, TimePasses(p)
    PROVE  IInv'
<1>1. Typed'
  BY ProposalAssumption DEF IInv, Typed, TimePasses, machine, ProposalState, Terminal
<1>2. Keeps
  BY TouchesOrKeeps DEF IInv, TimePasses
<1>3. StoreInv' /\ CurrentInv'
  BY DEF IInv, StoreInv, CurrentInv, Typed, TimePasses, machine, ProposalState, Terminal
<1>4. RecordInv' /\ SubmissionIsAccepted'
  BY <1>2 DEF IInv, RecordInv, SubmissionIsAccepted, CurrentInv, Typed, TimePasses, machine,
       Keeps
<1>5. PermitInv'
  BY DEF IInv, PermitInv, Typed, TimePasses, machine
<1>6. ConsentEndsWithGeneration'
  BY <1>2 DEF IInv, ConsentEndsWithGeneration, CurrentInv, Typed, TimePasses, machine,
       ProposalState, Terminal, Keeps
<1> QED
  BY <1>1, <1>2, <1>3, <1>4, <1>5, <1>6 DEF IInv, Keeps

\* Only an undecided proposal expires.
LEMMA ExpireKeeps ==
    ASSUME IInv, NEW p \in Proposal, Expire(p)
    PROVE  IInv'
<1>1. Typed'
  BY ProposalAssumption DEF IInv, Typed, Expire, Transition, machine, ProposalState, Terminal
<1>2. Keeps
  BY ProposalEvents
<1>3. StoreInv' /\ CurrentInv'
  BY DEF IInv, StoreInv, CurrentInv, Typed, Expire, Transition, machine, ProposalState,
       Terminal
<1>4. RecordInv' /\ SubmissionIsAccepted'
  BY <1>2 DEF IInv, RecordInv, SubmissionIsAccepted, CurrentInv, Typed, Expire, Transition,
       machine, Keeps
<1>5. PermitInv'
  BY DEF IInv, PermitInv, Typed, Expire, Transition, machine
<1>6. ConsentEndsWithGeneration'
  BY <1>2 DEF IInv, ConsentEndsWithGeneration, CurrentInv, Typed, Expire, Transition, machine,
       ProposalState, Terminal, Keeps
<1> QED
  BY <1>1, <1>2, <1>3, <1>4, <1>5, <1>6 DEF IInv, Keeps

\* An expiry is recorded after it happened.
LEMMA AuditExpiredKeeps ==
    ASSUME IInv, NEW p \in Proposal, AuditExpired(p)
    PROVE  IInv'
<1>1. Typed'
  BY ProposalAssumption DEF IInv, Typed, AuditExpired, machine, ProposalState, Terminal
<1>2. Touches(p, "EXPIRED")
  BY ProposalEvents
<1>3. StoreInv' /\ CurrentInv'
  BY DEF IInv, StoreInv, CurrentInv, Typed, AuditExpired, machine, ProposalState, Terminal
<1>4. RecordInv' /\ SubmissionIsAccepted'
  BY <1>2 DEF IInv, RecordInv, SubmissionIsAccepted, CurrentInv, Typed, AuditExpired, machine,
       Touches
<1>5. PermitInv'
  BY DEF IInv, PermitInv, Typed, AuditExpired, machine
<1>6. ConsentEndsWithGeneration'
  BY <1>2 DEF IInv, ConsentEndsWithGeneration, CurrentInv, Typed, AuditExpired, machine,
       ProposalState, Terminal, Touches
<1> QED
  BY <1>1, <1>2, <1>3, <1>4, <1>5, <1>6 DEF IInv, Touches

\* A proposal is completed only after its action was queued.
LEMMA SynchronizeKeeps ==
    ASSUME IInv, NEW p \in Proposal, Synchronize(p)
    PROVE  IInv'
<1>1. Typed'
  BY ProposalAssumption DEF IInv, Typed, Synchronize, Transition, machine, ProposalState,
       Terminal
<1>2. Touches(p, "TERMINAL")
  BY ProposalEvents
<1>3. StoreInv' /\ CurrentInv'
  BY DEF IInv, StoreInv, CurrentInv, Typed, Synchronize, Transition, machine, ProposalState,
       Terminal
<1>4. RecordInv' /\ SubmissionIsAccepted'
  BY <1>2 DEF IInv, RecordInv, SubmissionIsAccepted, CurrentInv, Typed, Synchronize,
       Transition, machine, Touches
<1>5. PermitInv'
  BY DEF IInv, PermitInv, Typed, Synchronize, Transition, machine
<1>6. ConsentEndsWithGeneration'
  BY <1>2 DEF IInv, ConsentEndsWithGeneration, CurrentInv, Typed, Synchronize, Transition,
       machine, ProposalState, Terminal, Touches
<1> QED
  BY <1>1, <1>2, <1>3, <1>4, <1>5, <1>6 DEF IInv, Touches

\* Only a proposal nobody has decided is cancelled.
LEMMA CancelProposalKeeps ==
    ASSUME IInv, NEW p \in Proposal, CancelProposal(p)
    PROVE  IInv'
<1>a. /\ decision.at = "idle" /\ decision' \in DecisionType /\ decision'.p = p
      /\ decision'.at = "cancelled"
  BY DEF CancelProposal, At, Decision, DecisionType, Step
<1>b. UNCHANGED <<store, creating, session, late, listing>> /\ p \in store
      /\ state' \in [Proposal -> ProposalState \cup {"none", "earlier"}]
      /\ \A q \in Proposal : state'[q] = state[q] \/ state'[q] \in ProposalState
  BY DEF IInv, Typed, CancelProposal, Transition, ProposalState, Terminal
<1>1. Typed'
  BY <1>a, <1>b DEF IInv, Typed, CancelProposal, machine
<1>2. Keeps
  BY TouchesOrKeeps DEF IInv, CancelProposal
<1>3. StoreInv' /\ CurrentInv'
  BY <1>a, <1>b DEF IInv, Typed, StoreInv, CurrentInv
<1>4. RecordInv' /\ SubmissionIsAccepted'
  BY <1>a, <1>2 DEF IInv, RecordInv, SubmissionIsAccepted, CancelProposal, machine, Keeps
<1>5. PermitInv'
  BY <1>a DEF IInv, PermitInv, CancelProposal, machine
<1>6. ConsentEndsWithGeneration'
  BY <1>b, <1>2 DEF IInv, Typed, ConsentEndsWithGeneration, CancelProposal, Keeps,
     ProposalState, Terminal
<1> QED
  BY <1>1, <1>2, <1>3, <1>4, <1>5, <1>6 DEF IInv, Keeps

\* One decision runs at a time, on a proposal of this generation.
LEMMA DecideKeeps ==
    ASSUME IInv, NEW p \in Proposal, Decide(p)
    PROVE  IInv'
<1>a. /\ decision.at = "idle" /\ decision' \in DecisionType /\ decision'.p = p
      /\ decision'.at \in {"declined", "accepted", "invalidate"}
  <2>1. PICK a \in {"declined", "accepted", "invalidate"} : decision' = Decision(a, p)
    BY DEF Decide
  <2> QED
    BY <2>1 DEF Decide, At, Decision, DecisionType, Step
<1>b. UNCHANGED <<store, creating, session, late, listing>> /\ p \in store
      /\ state' \in [Proposal -> ProposalState \cup {"none", "earlier"}]
      /\ \A q \in Proposal : state'[q] = state[q] \/ state'[q] \in ProposalState
  BY DEF IInv, Typed, Decide, Transition, ProposalState, Terminal
<1>1. Typed'
  BY <1>a, <1>b DEF IInv, Typed, Decide, machine
<1>2. Keeps
  BY TouchesOrKeeps DEF IInv, Decide
<1>3. StoreInv' /\ CurrentInv'
  BY <1>a, <1>b DEF IInv, Typed, StoreInv, CurrentInv
<1>4. RecordInv' /\ SubmissionIsAccepted'
  BY <1>a, <1>2 DEF IInv, RecordInv, SubmissionIsAccepted, Decide, machine, Keeps
<1>5. PermitInv'
  BY <1>a DEF IInv, PermitInv, Decide, machine
<1>6. ConsentEndsWithGeneration'
  BY <1>b, <1>2 DEF IInv, Typed, ConsentEndsWithGeneration, Decide, Keeps, ProposalState, Terminal
<1> QED
  BY <1>1, <1>2, <1>3, <1>4, <1>5, <1>6 DEF IInv, Keeps

\* An action that ends has used its permit.
LEMMA ActionEndsKeeps ==
    ASSUME IInv, NEW p \in Proposal, ActionEnds(p)
    PROVE  IInv'
<1>1. Typed'
  BY ProposalAssumption DEF IInv, Typed, ActionEnds, ProposalState, Terminal
<1>2. Keeps
  BY TouchesOrKeeps DEF IInv, ActionEnds
<1>3. StoreInv' /\ CurrentInv'
  BY DEF IInv, StoreInv, CurrentInv, Typed, ActionEnds, ProposalState, Terminal
<1>4. RecordInv' /\ SubmissionIsAccepted'
  BY <1>2 DEF IInv, RecordInv, SubmissionIsAccepted, CurrentInv, Typed, ActionEnds, Keeps
<1>5. PermitInv'
  BY DEF IInv, PermitInv, Typed, ActionEnds
<1>6. ConsentEndsWithGeneration'
  BY <1>2 DEF IInv, ConsentEndsWithGeneration, CurrentInv, Typed, ActionEnds, ProposalState,
       Terminal, Keeps
<1> QED
  BY <1>1, <1>2, <1>3, <1>4, <1>5, <1>6 DEF IInv, Keeps

\* A restart closes what an earlier generation left undecided.
LEMMA InvalidatePreviousKeeps ==
    ASSUME IInv, NEW p \in Proposal, InvalidatePrevious(p)
    PROVE  IInv'
<1>1. Typed'
  BY ProposalAssumption DEF IInv, Typed, InvalidatePrevious, machine, Unclosed, ProposalState,
       Terminal
<1>2. Touches(p, "INVALIDATED")
  BY ProposalEvents
<1>3. StoreInv' /\ CurrentInv'
  BY DEF IInv, StoreInv, CurrentInv, Typed, InvalidatePrevious, machine, Unclosed,
       ProposalState, Terminal
<1>4. RecordInv' /\ SubmissionIsAccepted'
  BY <1>2 DEF IInv, RecordInv, SubmissionIsAccepted, CurrentInv, Typed, InvalidatePrevious,
       machine, Unclosed, Touches
<1>5. PermitInv'
  BY DEF IInv, PermitInv, Typed, InvalidatePrevious, machine, Unclosed
<1>6. ConsentEndsWithGeneration'
  BY <1>2 DEF IInv, ConsentEndsWithGeneration, CurrentInv, Typed, InvalidatePrevious, machine,
       Unclosed, ProposalState, Terminal, Touches
<1> QED
  BY <1>1, <1>2, <1>3, <1>4, <1>5, <1>6 DEF IInv, Touches

\* A reader of the queue that has found a proposal has not touched it yet.
LEMMA ListFindsKeeps ==
    ASSUME IInv, NEW l \in Lister, NEW p \in Proposal, ListFinds(l, p)
    PROVE  IInv'
<1>1. Typed'
  BY ProposalAssumption DEF IInv, Typed, ListFinds, machine, ProposalState, Terminal
<1>2. Keeps
  BY TouchesOrKeeps DEF IInv, ListFinds
<1>3. StoreInv' /\ CurrentInv'
  BY DEF IInv, StoreInv, CurrentInv, Typed, ListFinds, machine, ProposalState, Terminal
<1>4. RecordInv' /\ SubmissionIsAccepted'
  BY <1>2 DEF IInv, RecordInv, SubmissionIsAccepted, CurrentInv, Typed, ListFinds, machine,
       Keeps
<1>5. PermitInv'
  BY DEF IInv, PermitInv, Typed, ListFinds, machine
<1>6. ConsentEndsWithGeneration'
  BY <1>2 DEF IInv, ConsentEndsWithGeneration, CurrentInv, Typed, ListFinds, machine,
       ProposalState, Terminal, Keeps
<1> QED
  BY <1>1, <1>2, <1>3, <1>4, <1>5, <1>6 DEF IInv, Keeps

\* A reader may reopen what has been decided meanwhile; it queues nothing.
LEMMA ListPresentsKeeps ==
    ASSUME IInv, NEW l \in Lister, ListPresents(l)
    PROVE  IInv'
<1>1. Typed'
  BY ProposalAssumption DEF IInv, Typed, ListPresents, Transition, Overwrites, NoListing, machine,
       ProposalState, Terminal
<1>2. Keeps
  BY TouchesOrKeeps DEF IInv, ListPresents
<1>3. StoreInv' /\ CurrentInv'
  BY DEF IInv, StoreInv, CurrentInv, Typed, ListPresents, Transition, Overwrites, NoListing,
       machine, ProposalState, Terminal
<1>4. RecordInv' /\ SubmissionIsAccepted'
  BY <1>2 DEF IInv, RecordInv, SubmissionIsAccepted, CurrentInv, Typed, ListPresents,
       Transition, Overwrites, NoListing, machine, Keeps
<1>5. PermitInv'
  BY DEF IInv, PermitInv, Typed, ListPresents, Transition, Overwrites, NoListing, machine
<1>6. ConsentEndsWithGeneration'
  BY <1>2 DEF IInv, ConsentEndsWithGeneration, CurrentInv, Typed, ListPresents, Transition,
       Overwrites, NoListing, machine, ProposalState, Terminal, Keeps
<1> QED
  BY <1>1, <1>2, <1>3, <1>4, <1>5, <1>6 DEF IInv, Keeps

\* A reader of the queue records what it presented.
LEMMA ListRecordsKeeps ==
    ASSUME IInv, NEW l \in Lister, ListRecords(l)
    PROVE  IInv'
<1>1. Typed'
  BY ProposalAssumption DEF IInv, Typed, ListRecords, NoListing, machine, ProposalState,
       Terminal
<1>2. Touches(listing[l].p, "PRESENTED")
  BY TouchesOrKeeps DEF IInv, CurrentInv, Kind, ProposalState, Terminal, ListRecords
<1>3. StoreInv' /\ CurrentInv'
  BY DEF IInv, StoreInv, CurrentInv, Typed, ListRecords, NoListing, machine, ProposalState,
       Terminal
<1>4. RecordInv' /\ SubmissionIsAccepted'
  BY <1>2 DEF IInv, RecordInv, SubmissionIsAccepted, CurrentInv, Typed, ListRecords,
       NoListing, machine, Touches
<1>5. PermitInv'
  BY DEF IInv, PermitInv, Typed, ListRecords, NoListing, machine
<1>6. ConsentEndsWithGeneration'
  BY <1>2 DEF IInv, ConsentEndsWithGeneration, CurrentInv, Typed, ListRecords, NoListing,
       machine, ProposalState, Terminal, Touches
<1> QED
  BY <1>1, <1>2, <1>3, <1>4, <1>5, <1>6 DEF IInv, Touches

\* A cancellation is recorded after it happened.
LEMMA RecordCancelledKeeps ==
    ASSUME IInv, RecordCancelled
    PROVE  IInv'
<1>1. Typed'
  BY ProposalAssumption, Undecided DEF IInv, Typed, RecordCancelled, At, machine, Step,
       ProposalState, Terminal
<1>2. Touches(decision.p, "CANCELLED")
  BY DecisionEvents
<1>3. StoreInv' /\ CurrentInv'
  BY Undecided DEF IInv, StoreInv, CurrentInv, Typed, RecordCancelled, At, machine, Step,
       ProposalState, Terminal
<1>4. RecordInv' /\ SubmissionIsAccepted'
  BY <1>2, Undecided DEF IInv, RecordInv, SubmissionIsAccepted, CurrentInv, Typed,
       RecordCancelled, At, machine, Step, Touches
<1>5. PermitInv'
  BY Undecided DEF IInv, PermitInv, Typed, RecordCancelled, At, machine, Step
<1>6. ConsentEndsWithGeneration'
  BY <1>2 DEF IInv, ConsentEndsWithGeneration, CurrentInv, Typed, RecordCancelled, At,
       machine, Step, ProposalState, Terminal, Touches
<1> QED
  BY <1>1, <1>2, <1>3, <1>4, <1>5, <1>6 DEF IInv, Touches

\* A decline is recorded and ends the decision.
LEMMA RecordDeclinedKeeps ==
    ASSUME IInv, RecordDeclined
    PROVE  IInv'
<1>1. Typed'
  <2>1. decision' \in DecisionType
    BY DecisionMoves, Undecided DEF IInv, Typed, RecordDeclined, Step
  <2> QED
    BY <2>1 DEF IInv, Typed, RecordDeclined, machine
<1>2. Touches(decision.p, "DECLINED")
  BY DecisionEvents
<1>3. StoreInv' /\ CurrentInv'
  BY DecisionMoves, Undecided DEF IInv, StoreInv, CurrentInv, Typed, RecordDeclined, At,
       machine, Step, ProposalState, Terminal
<1>4. RecordInv' /\ SubmissionIsAccepted'
  BY <1>2, DecisionMoves, Undecided DEF IInv, RecordInv, SubmissionIsAccepted, CurrentInv,
       Typed, RecordDeclined, At, machine, Step, Touches
<1>5. PermitInv'
  BY DecisionMoves, Undecided DEF IInv, PermitInv, Typed, RecordDeclined, At, machine, Step
<1>6. ConsentEndsWithGeneration'
  BY <1>2 DEF IInv, ConsentEndsWithGeneration, CurrentInv, Typed, RecordDeclined, At, machine,
       Step, ProposalState, Terminal, Touches
<1> QED
  BY <1>1, <1>2, <1>3, <1>4, <1>5, <1>6 DEF IInv, Touches

\* An acceptance is recorded before the Runtime is armed.
LEMMA RecordAcceptedKeeps ==
    ASSUME IInv, RecordAccepted
    PROVE  IInv'
<1>1. Typed'
  BY ProposalAssumption, DecisionMoves DEF IInv, Typed, RecordAccepted, At, Fails, machine,
       Step, ProposalState, Terminal
<1>2. Touches(decision.p, "ACCEPTED")
  BY DecisionEvents
<1>3. StoreInv' /\ CurrentInv'
  BY DecisionMoves DEF IInv, StoreInv, CurrentInv, Typed, RecordAccepted, At, Fails, machine,
       Step, ProposalState, Terminal
<1>4. RecordInv' /\ SubmissionIsAccepted'
  <2>1. UNCHANGED submitted /\ decision.at = "accepted" /\ decision.p \in Proposal
        /\ state[decision.p] \in ProposalState
    BY DEF IInv, CurrentInv, RecordAccepted, At, machine
  <2>2. \/ Goes("rollback")
        \/ Goes("arm") /\ "ACCEPTED" \in events'[decision.p]
    <3>1. CASE Appends(decision.p, "ACCEPTED", state[decision.p]) /\ Goes("arm")
      <4>1. LedgerTyped /\ "ACCEPTED" \in Kind
        BY DEF IInv, Kind, ProposalState
      <4> QED
        BY <2>1, <3>1, <4>1, AppendsFacts
    <3> QED
      BY <3>1 DEF RecordAccepted, Fails
  <2>3. /\ decision'.p = decision.p
        /\ \/ decision'.at = "rollback"
           \/ decision'.at = "arm" /\ "ACCEPTED" \in events'[decision.p]
    BY <2>2, DecisionMoves DEF IInv, Typed, Step
  <2>4. \A q \in Proposal : events[q] \subseteq events'[q]
    BY <1>2 DEF Touches
  <2>5. RecordInv'
    BY <2>1, <2>3, <2>4 DEF IInv, RecordInv
  <2> QED
    BY <2>1, <2>4, <2>5 DEF IInv, Typed, SubmissionIsAccepted
<1>5. PermitInv'
  BY DecisionMoves DEF IInv, PermitInv, Typed, RecordAccepted, At, Fails, machine, Step
<1>6. ConsentEndsWithGeneration'
  BY <1>2 DEF IInv, ConsentEndsWithGeneration, CurrentInv, Typed, RecordAccepted, At, Fails,
       machine, Step, ProposalState, Terminal, Touches
<1> QED
  BY <1>1, <1>2, <1>3, <1>4, <1>5, <1>6 DEF IInv, Touches

\* The Runtime is armed after the acceptance and before the permit.
LEMMA ArmAfterDecisionKeeps ==
    ASSUME IInv, ArmAfterDecision
    PROVE  IInv'
<1>1. Typed'
  BY ProposalAssumption, DecisionMoves DEF IInv, Typed, ArmAfterDecision, At, Fails, Step,
       DecisionType, ProposalState, Terminal
<1>2. Keeps
  BY DecisionEvents
<1>3. StoreInv' /\ CurrentInv'
  BY DecisionMoves DEF IInv, StoreInv, CurrentInv, Typed, ArmAfterDecision, At, Fails, Step,
       DecisionType, ProposalState, Terminal
<1>4. RecordInv' /\ SubmissionIsAccepted'
  BY <1>2, DecisionMoves DEF IInv, RecordInv, SubmissionIsAccepted, CurrentInv, Typed,
       ArmAfterDecision, At, Fails, Step, DecisionType, Keeps
<1>5. PermitInv'
  BY DecisionMoves DEF IInv, PermitInv, Typed, ArmAfterDecision, At, Fails, Step, DecisionType
<1>6. ConsentEndsWithGeneration'
  BY <1>2 DEF IInv, ConsentEndsWithGeneration, CurrentInv, Typed, ArmAfterDecision, At, Fails,
       Step, DecisionType, ProposalState, Terminal, Keeps
<1> QED
  BY <1>1, <1>2, <1>3, <1>4, <1>5, <1>6 DEF IInv, Keeps

\* A permit is issued for the proposal under decision only.
LEMMA IssuePermitKeeps ==
    ASSUME IInv, IssuePermit
    PROVE  IInv'
<1>1. Typed'
  BY ProposalAssumption, DecisionMoves DEF IInv, Typed, IssuePermit, At, Fails, Transition,
       Step, ProposalState, Terminal
<1>2. Keeps
  BY DecisionEvents
<1>3. StoreInv' /\ CurrentInv'
  BY DecisionMoves DEF IInv, StoreInv, CurrentInv, Typed, IssuePermit, At, Fails, Transition,
       Step, ProposalState, Terminal
<1>4. RecordInv' /\ SubmissionIsAccepted'
  BY <1>2, DecisionMoves DEF IInv, RecordInv, SubmissionIsAccepted, CurrentInv, Typed,
       IssuePermit, At, Fails, Transition, Step, Keeps
<1>5. PermitInv'
  BY DecisionMoves DEF IInv, PermitInv, Typed, IssuePermit, At, Fails, Transition, Step
<1>6. ConsentEndsWithGeneration'
  BY <1>2 DEF IInv, ConsentEndsWithGeneration, CurrentInv, Typed, IssuePermit, At, Fails,
       Transition, Step, ProposalState, Terminal, Keeps
<1> QED
  BY <1>1, <1>2, <1>3, <1>4, <1>5, <1>6 DEF IInv, Keeps

\* The permit is on record before the action is requested.
LEMMA RecordPermitKeeps ==
    ASSUME IInv, RecordPermit
    PROVE  IInv'
<1>1. Typed'
  BY ProposalAssumption, DecisionMoves DEF IInv, Typed, RecordPermit, At, Fails, machine,
       Step, ProposalState, Terminal
<1>2. Touches(decision.p, "PERMIT_ISSUED")
  BY DecisionEvents
<1>3. StoreInv' /\ CurrentInv'
  BY DecisionMoves DEF IInv, StoreInv, CurrentInv, Typed, RecordPermit, At, Fails, machine,
       Step, ProposalState, Terminal
<1>4. RecordInv' /\ SubmissionIsAccepted'
  <2>1. UNCHANGED submitted /\ decision.at = "issued" /\ decision.p \in Proposal
        /\ state[decision.p] \in ProposalState
    BY DEF IInv, CurrentInv, RecordPermit, At, machine
  <2>2. \/ Goes("rollback")
        \/ Goes("request") /\ "PERMIT_ISSUED" \in events'[decision.p]
    <3>1. CASE Appends(decision.p, "PERMIT_ISSUED", state[decision.p]) /\ Goes("request")
      <4>1. LedgerTyped /\ "PERMIT_ISSUED" \in Kind
        BY DEF IInv, Kind, ProposalState
      <4> QED
        BY <2>1, <3>1, <4>1, AppendsFacts
    <3> QED
      BY <3>1 DEF RecordPermit, Fails
  <2>3. /\ decision'.p = decision.p
        /\ \/ decision'.at = "rollback"
           \/ decision'.at = "request" /\ "PERMIT_ISSUED" \in events'[decision.p]
    BY <2>2, DecisionMoves DEF IInv, Typed, Step
  <2>4. \A q \in Proposal : events[q] \subseteq events'[q]
    BY <1>2 DEF Touches
  <2>5. RecordInv'
    BY <2>1, <2>3, <2>4 DEF IInv, RecordInv
  <2> QED
    BY <2>1, <2>4, <2>5 DEF IInv, Typed, SubmissionIsAccepted
<1>5. PermitInv'
  BY DecisionMoves DEF IInv, PermitInv, Typed, RecordPermit, At, Fails, machine, Step
<1>6. ConsentEndsWithGeneration'
  BY <1>2 DEF IInv, ConsentEndsWithGeneration, CurrentInv, Typed, RecordPermit, At, Fails,
       machine, Step, ProposalState, Terminal, Touches
<1> QED
  BY <1>1, <1>2, <1>3, <1>4, <1>5, <1>6 DEF IInv, Touches

\* An action is queued only behind its recorded permit.
LEMMA RequestActionKeeps ==
    ASSUME IInv, RequestAction
    PROVE  IInv'
<1>a. /\ decision' \in DecisionType /\ decision'.p = decision.p
      /\ decision'.at \in {"submitted", "rollback"}
      /\ decision.p \in Proposal /\ decision.at = "request" /\ state[decision.p] \in ProposalState
  <2>1. decision.at = "request" /\ decision \in DecisionType
    BY DEF RequestAction, At, IInv, Typed
  <2>2. CASE Fails
    BY <2>1, <2>2, DecisionMoves DEF IInv, CurrentInv, Fails, Step
  <2>3. CASE decision' = [decision EXCEPT !.at = "submitted", !.queues = TRUE]
    BY <2>1, <2>3 DEF IInv, CurrentInv, DecisionType, Step
  <2>4. CASE decision' = [decision EXCEPT !.at = "rollback", !.queues = TRUE]
    BY <2>1, <2>4 DEF IInv, CurrentInv, DecisionType, Step
  <2> QED
    BY <2>2, <2>3, <2>4 DEF RequestAction
<1>1. Typed'
  <2>2. state' \in [Proposal -> ProposalState \cup {"none", "earlier"}]
    BY DEF IInv, Typed, RequestAction, Transition, ProposalState, Terminal
  <2>3. submitted' \subseteq Proposal /\ submitted \subseteq submitted'
    BY <1>a DEF IInv, Typed, RequestAction
  <2> QED
    BY <1>a, <2>2, <2>3 DEF IInv, Typed, RequestAction
<1>2. Keeps
  BY DecisionEvents
<1>3. StoreInv' /\ CurrentInv'
  <2>1. \A q \in Proposal : state'[q] = state[q] \/ state'[q] \in ProposalState
    BY <1>a DEF IInv, Typed, RequestAction, Transition, ProposalState
  <2> QED
    BY <1>a, <2>1 DEF IInv, Typed, StoreInv, CurrentInv, RequestAction
<1>4. RecordInv' /\ SubmissionIsAccepted'
  BY <1>a, <1>2 DEF IInv, RecordInv, SubmissionIsAccepted, RequestAction, Keeps
<1>5. PermitInv'
  <2>1. UNCHANGED permits /\ submitted \subseteq submitted'
    BY DEF RequestAction
  <2>2. decision'.at = "submitted" => decision.p \in submitted'
    BY <1>a, DecisionMoves DEF RequestAction, Fails, IInv, Typed, Step
  <2> QED
    BY <1>a, <2>1, <2>2 DEF IInv, PermitInv
<1>6. ConsentEndsWithGeneration'
  BY <1>2 DEF IInv, ConsentEndsWithGeneration, CurrentInv, Typed, RequestAction, At, Fails,
       Transition, Step, DecisionType, ProposalState, Terminal, Keeps
<1> QED
  BY <1>1, <1>2, <1>3, <1>4, <1>5, <1>6 DEF IInv, Keeps

\* The submission is recorded, or the acceptance is rolled back.
LEMMA RecordSubmittedKeeps ==
    ASSUME IInv, RecordSubmitted
    PROVE  IInv'
<1>1. Typed'
  BY ProposalAssumption, DecisionMoves DEF IInv, Typed, RecordSubmitted, At, Fails, machine,
       Step, ProposalState, Terminal
<1>2. Touches(decision.p, "SUBMITTED")
  BY DecisionEvents
<1>3. StoreInv' /\ CurrentInv'
  BY DecisionMoves DEF IInv, StoreInv, CurrentInv, Typed, RecordSubmitted, At, Fails, machine,
       Step, ProposalState, Terminal
<1>4. RecordInv' /\ SubmissionIsAccepted'
  BY <1>2, DecisionMoves DEF IInv, RecordInv, SubmissionIsAccepted, CurrentInv, Typed,
       RecordSubmitted, At, Fails, machine, Step, Touches
<1>5. PermitInv'
  BY DecisionMoves DEF IInv, PermitInv, Typed, RecordSubmitted, At, Fails, machine, Step
<1>6. ConsentEndsWithGeneration'
  BY <1>2 DEF IInv, ConsentEndsWithGeneration, CurrentInv, Typed, RecordSubmitted, At, Fails,
       machine, Step, ProposalState, Terminal, Touches
<1> QED
  BY <1>1, <1>2, <1>3, <1>4, <1>5, <1>6 DEF IInv, Touches

\* A decision ends with its receipt.
LEMMA FinalizeDecisionKeeps ==
    ASSUME IInv, FinalizeDecision
    PROVE  IInv'
<1>1. Typed'
  <2>1. decision' \in DecisionType
    BY Undecided DEF FinalizeDecision
  <2>2. burned' \subseteq Proposal
    BY DEF IInv, Typed, CurrentInv, FinalizeDecision, At
  <2> QED
    BY <2>1, <2>2 DEF IInv, Typed, FinalizeDecision
<1>2. Keeps \/ Touches(decision.p, "RECEIPT")
  BY DecisionEvents
<1>3. StoreInv' /\ CurrentInv'
  BY Undecided DEF IInv, StoreInv, CurrentInv, Typed, FinalizeDecision, At, Step,
       ProposalState, Terminal
<1>4. RecordInv' /\ SubmissionIsAccepted'
  BY <1>2, Undecided DEF IInv, RecordInv, SubmissionIsAccepted, CurrentInv, Typed,
       FinalizeDecision, At, Step, Keeps, Touches
<1>5. PermitInv'
  BY Undecided DEF IInv, PermitInv, Typed, FinalizeDecision, At, Step
<1>6. ConsentEndsWithGeneration'
  BY <1>2 DEF IInv, ConsentEndsWithGeneration, CurrentInv, Typed, FinalizeDecision, At, Step,
       ProposalState, Terminal, Keeps, Touches
<1> QED
  BY <1>1, <1>2, <1>3, <1>4, <1>5, <1>6 DEF IInv, Keeps, Touches

\* A rollback takes the permit back, or one of its uses when the ledger raises.
LEMMA RollbackKeeps ==
    ASSUME IInv, Rollback
    PROVE  IInv'
<1>1. Typed'
  <2>1. decision' \in DecisionType
    BY DEF IInv, Typed, Rollback, DecisionType, Step
  <2>2. permits' \in [Proposal -> Nat]
    BY DEF IInv, Typed, CurrentInv, Rollback, At
  <2> QED
    BY <2>1, <2>2 DEF IInv, Typed, Rollback
<1>2. Keeps
  BY DecisionEvents
<1>3. StoreInv' /\ CurrentInv'
  BY DEF IInv, StoreInv, CurrentInv, Typed, Rollback, At, DecisionType, ProposalState,
       Terminal
<1>4. RecordInv' /\ SubmissionIsAccepted'
  BY <1>2 DEF IInv, RecordInv, SubmissionIsAccepted, CurrentInv, Typed, Rollback, At,
       DecisionType, Keeps
<1>5. PermitInv'
  BY DEF IInv, PermitInv, Typed, Rollback, At, DecisionType
<1>6. ConsentEndsWithGeneration'
  BY <1>2 DEF IInv, ConsentEndsWithGeneration, CurrentInv, Typed, Rollback, At, DecisionType,
       ProposalState, Terminal, Keeps
<1> QED
  BY <1>1, <1>2, <1>3, <1>4, <1>5, <1>6 DEF IInv, Keeps

\* A rolled-back proposal is closed.
LEMMA InvalidateKeeps ==
    ASSUME IInv, Invalidate
    PROVE  IInv'
<1>1. Typed'
  BY ProposalAssumption, Undecided DEF IInv, Typed, Invalidate, At, Transition, machine, Step,
       DecisionType, ProposalState, Terminal
<1>2. Keeps \/ Touches(decision.p, "INVALIDATED")
  BY DecisionEvents
<1>3. StoreInv' /\ CurrentInv'
  BY Undecided DEF IInv, StoreInv, CurrentInv, Typed, Invalidate, At, Transition, machine,
       Step, DecisionType, ProposalState, Terminal
<1>4. RecordInv' /\ SubmissionIsAccepted'
  BY <1>2, Undecided DEF IInv, RecordInv, SubmissionIsAccepted, CurrentInv, Typed, Invalidate,
       At, Transition, machine, Step, DecisionType, Keeps, Touches
<1>5. PermitInv'
  BY Undecided DEF IInv, PermitInv, Typed, Invalidate, At, Transition, machine, Step,
       DecisionType
<1>6. ConsentEndsWithGeneration'
  BY <1>2 DEF IInv, ConsentEndsWithGeneration, CurrentInv, Typed, Invalidate, At, Transition,
       machine, Step, DecisionType, ProposalState, Terminal, Keeps, Touches
<1> QED
  BY <1>1, <1>2, <1>3, <1>4, <1>5, <1>6 DEF IInv, Keeps, Touches

\* A rollback ends with the Runtime disarmed.
LEMMA DisarmAfterRollbackKeeps ==
    ASSUME IInv, DisarmAfterRollback
    PROVE  IInv'
<1>1. Typed'
  BY ProposalAssumption, Undecided DEF IInv, Typed, DisarmAfterRollback, At, Step,
       ProposalState, Terminal
<1>2. Keeps
  BY DecisionEvents
<1>3. StoreInv' /\ CurrentInv'
  BY Undecided DEF IInv, StoreInv, CurrentInv, Typed, DisarmAfterRollback, At, Step,
       ProposalState, Terminal
<1>4. RecordInv' /\ SubmissionIsAccepted'
  BY <1>2, Undecided DEF IInv, RecordInv, SubmissionIsAccepted, CurrentInv, Typed,
       DisarmAfterRollback, At, Step, Keeps
<1>5. PermitInv'
  BY Undecided DEF IInv, PermitInv, Typed, DisarmAfterRollback, At, Step
<1>6. ConsentEndsWithGeneration'
  BY <1>2 DEF IInv, ConsentEndsWithGeneration, CurrentInv, Typed, DisarmAfterRollback, At,
       Step, ProposalState, Terminal, Keeps
<1> QED
  BY <1>1, <1>2, <1>3, <1>4, <1>5, <1>6 DEF IInv, Keeps

\* Arming touches no proposal.
LEMMA ArmRuntimeKeeps ==
    ASSUME IInv, ArmRuntime
    PROVE  IInv'
<1>1. Typed'
  BY ProposalAssumption DEF IInv, Typed, ArmRuntime, ProposalState, Terminal
<1>2. Keeps
  BY TouchesOrKeeps DEF IInv, ArmRuntime
<1>3. StoreInv' /\ CurrentInv'
  BY DEF IInv, StoreInv, CurrentInv, Typed, ArmRuntime, ProposalState, Terminal
<1>4. RecordInv' /\ SubmissionIsAccepted'
  BY <1>2 DEF IInv, RecordInv, SubmissionIsAccepted, CurrentInv, Typed, ArmRuntime, Keeps
<1>5. PermitInv'
  BY DEF IInv, PermitInv, Typed, ArmRuntime
<1>6. ConsentEndsWithGeneration'
  BY <1>2 DEF IInv, ConsentEndsWithGeneration, CurrentInv, Typed, ArmRuntime,
       ProposalState, Terminal, Keeps
<1> QED
  BY <1>1, <1>2, <1>3, <1>4, <1>5, <1>6 DEF IInv, Keeps

\* A safety stop touches no proposal.
LEMMA EmergencyStopKeeps ==
    ASSUME IInv, EmergencyStop
    PROVE  IInv'
<1>1. Typed'
  BY ProposalAssumption DEF IInv, Typed, EmergencyStop, ProposalState, Terminal
<1>2. Keeps
  BY TouchesOrKeeps DEF IInv, EmergencyStop
<1>3. StoreInv' /\ CurrentInv'
  BY DEF IInv, StoreInv, CurrentInv, Typed, EmergencyStop, ProposalState, Terminal
<1>4. RecordInv' /\ SubmissionIsAccepted'
  BY <1>2 DEF IInv, RecordInv, SubmissionIsAccepted, CurrentInv, Typed, EmergencyStop, Keeps
<1>5. PermitInv'
  BY DEF IInv, PermitInv, Typed, EmergencyStop
<1>6. ConsentEndsWithGeneration'
  BY <1>2 DEF IInv, ConsentEndsWithGeneration, CurrentInv, Typed, EmergencyStop,
       ProposalState, Terminal, Keeps
<1> QED
  BY <1>1, <1>2, <1>3, <1>4, <1>5, <1>6 DEF IInv, Keeps

\* A crash keeps the ledger and nothing else.
LEMMA CrashKeeps ==
    ASSUME IInv, Crash
    PROVE  IInv'
<1>1. Typed'
  <2>1. decision' \in DecisionType
    BY Undecided DEF Crash
  <2>2. state' \in [Proposal -> ProposalState \cup {"none", "earlier"}]
    BY DEF IInv, Typed, Crash
  <2>3. listing' \in [Lister -> [at : {"idle", "saw", "presented"}, p : Proposal \cup {NoProposal}]]
    BY DEF Crash, NoListing
  <2>4. creating' \in [Proposal -> {"idle", "session", "record"}]
        /\ session' \in [Proposal -> {"none", "active", "ended"}] /\ permits' \in [Proposal -> Nat]
    BY DEF Crash
  <2>5. crashes' \in 0 .. MaxCrashes
    BY ProposalAssumption DEF IInv, Typed, Crash
  <2> QED
    BY <2>1, <2>2, <2>3, <2>4, <2>5 DEF IInv, Typed, Crash
<1>2. Keeps
  BY DEF IInv, Keeps, LedgerTyped, Crash
<1>3. StoreInv' /\ CurrentInv'
  <2>1. StoreInv'
    BY FS_EmptySet, ProposalAssumption DEF Crash, StoreInv
  <2> QED
    BY <2>1, Undecided DEF CurrentInv, Crash, NoListing
<1>4. RecordInv' /\ SubmissionIsAccepted'
  BY <1>2, Undecided DEF IInv, RecordInv, SubmissionIsAccepted, CurrentInv, Typed, Crash,
       NoListing, Step, Keeps
<1>5. PermitInv'
  BY Undecided DEF IInv, PermitInv, Typed, Crash, NoListing, Step
<1>6. ConsentEndsWithGeneration'
  BY <1>2 DEF IInv, ConsentEndsWithGeneration, CurrentInv, Typed, Crash, NoListing, Step,
       ProposalState, Terminal, Keeps
<1> QED
  BY <1>1, <1>2, <1>3, <1>4, <1>5, <1>6 DEF IInv, Keeps

\* A restart reads the ledger and closes nothing yet.
LEMMA RestartKeeps ==
    ASSUME IInv, Restart
    PROVE  IInv'
<1>1. Typed'
  BY ProposalAssumption DEF IInv, Typed, Restart, machine, ProposalState, Terminal
<1>2. Keeps
  BY DEF IInv, Restart, Keeps, LedgerTyped
<1>3. StoreInv' /\ CurrentInv'
  BY DEF IInv, StoreInv, CurrentInv, Typed, Restart, machine, ProposalState, Terminal
<1>4. RecordInv' /\ SubmissionIsAccepted'
  BY <1>2 DEF IInv, RecordInv, SubmissionIsAccepted, CurrentInv, Typed, Restart, machine,
       Keeps
<1>5. PermitInv'
  BY DEF IInv, PermitInv, Typed, Restart, machine
<1>6. ConsentEndsWithGeneration'
  BY <1>2 DEF IInv, ConsentEndsWithGeneration, CurrentInv, Typed, Restart, machine,
       ProposalState, Terminal, Keeps
<1> QED
  BY <1>1, <1>2, <1>3, <1>4, <1>5, <1>6 DEF IInv, Keeps

\* Serving begins when nothing of an earlier generation is undecided.
LEMMA ServeKeeps ==
    ASSUME IInv, Serve
    PROVE  IInv'
<1>1. Typed'
  BY ProposalAssumption DEF IInv, Typed, Serve, machine, Unclosed, ProposalState, Terminal
<1>2. Keeps
  BY TouchesOrKeeps DEF IInv, Serve
<1>3. StoreInv' /\ CurrentInv'
  BY DEF IInv, StoreInv, CurrentInv, Typed, Serve, machine, Unclosed, ProposalState, Terminal
<1>4. RecordInv' /\ SubmissionIsAccepted'
  BY <1>2 DEF IInv, RecordInv, SubmissionIsAccepted, CurrentInv, Typed, Serve, machine,
       Unclosed, Keeps
<1>5. PermitInv'
  BY DEF IInv, PermitInv, Typed, Serve, machine, Unclosed
<1>6. ConsentEndsWithGeneration'
  BY <1>2 DEF ConsentEndsWithGeneration, Serve, Unclosed, Invalidatable, Keeps
<1> QED
  BY <1>1, <1>2, <1>3, <1>4, <1>5, <1>6 DEF IInv, Keeps

-----------------------------------------------------------------------------
(* The theorems *)

\* The invariant holds before the first generation.
LEMMA InitHolds == Init => IInv
<1> SUFFICES ASSUME Init PROVE IInv
  OBVIOUS
<1>a. 0 \in 0 .. MaxFaults /\ 0 \in 0 .. MaxCrashes
  BY ProposalAssumption
<1>1. Typed
  <2>1. decision \in DecisionType
    BY Undecided DEF Init
  <2>2. listing \in [Lister -> [at : {"idle", "saw", "presented"}, p : Proposal \cup {NoProposal}]]
    BY DEF Init, NoListing
  <2> QED
    BY <1>a, <2>1, <2>2 DEF Init, Typed
<1>2. LedgerTyped
  BY <1>a DEF Init, LedgerTyped
<1>3. StoreInv
  BY FS_EmptySet, ProposalAssumption DEF Init, StoreInv
<1>4. CurrentInv /\ RecordInv
  BY Undecided DEF Init, CurrentInv, RecordInv, NoListing
<1>5. PermitInv /\ SubmissionIsAccepted /\ ConsentEndsWithGeneration
  BY DEF Init, PermitInv, SubmissionIsAccepted, ConsentEndsWithGeneration
<1> QED
  BY <1>1, <1>2, <1>3, <1>4, <1>5 DEF IInv

\* Every step of the consent plane keeps the invariant.
LEMMA StepKeeps == IInv /\ [Next]_vars => IInv'
<1> SUFFICES ASSUME IInv, [Next]_vars PROVE IInv'
  OBVIOUS
<1>1. ASSUME NEW p \in Proposal,
             \/ CreateProposal(p) \/ CreateSession(p) \/ RecordCreated(p)
             \/ OpenSession(p) \/ EndSession(p) \/ TimePasses(p)
      PROVE  IInv'
  BY <1>1, CreateProposalKeeps, CreateSessionKeeps, RecordCreatedKeeps, OpenSessionKeeps,
     EndSessionKeeps, TimePassesKeeps
<1>2. ASSUME NEW p \in Proposal,
             \/ Expire(p) \/ AuditExpired(p) \/ Synchronize(p) \/ CancelProposal(p)
             \/ Decide(p) \/ ActionEnds(p) \/ InvalidatePrevious(p)
      PROVE  IInv'
  BY <1>2, ExpireKeeps, AuditExpiredKeeps, SynchronizeKeeps, CancelProposalKeeps, DecideKeeps,
     ActionEndsKeeps, InvalidatePreviousKeeps
<1>3. ASSUME NEW l \in Lister,
             ListPresents(l) \/ ListRecords(l) \/ \E p \in Proposal : ListFinds(l, p)
      PROVE  IInv'
  BY <1>3, ListFindsKeeps, ListPresentsKeeps, ListRecordsKeeps
<1>4. CASE \/ RecordCancelled \/ RecordDeclined \/ RecordAccepted \/ ArmAfterDecision \/ IssuePermit
           \/ RecordPermit \/ RequestAction \/ RecordSubmitted \/ FinalizeDecision
  BY <1>4, RecordCancelledKeeps, RecordDeclinedKeeps, RecordAcceptedKeeps, ArmAfterDecisionKeeps,
     IssuePermitKeeps, RecordPermitKeeps, RequestActionKeeps, RecordSubmittedKeeps,
     FinalizeDecisionKeeps
<1>5. CASE \/ Rollback \/ Invalidate \/ DisarmAfterRollback
           \/ ArmRuntime \/ EmergencyStop \/ Crash \/ Restart \/ Serve
  BY <1>5, RollbackKeeps, InvalidateKeeps, DisarmAfterRollbackKeeps, ArmRuntimeKeeps,
     EmergencyStopKeeps, CrashKeeps, RestartKeeps, ServeKeeps
<1>6. CASE UNCHANGED vars
  BY <1>6 DEF vars, machine, ledger, IInv, Typed, LedgerTyped, StoreInv, CurrentInv, RecordInv,
              PermitInv, SubmissionIsAccepted, ConsentEndsWithGeneration
<1> QED
  BY <1>1, <1>2, <1>3, <1>4, <1>5, <1>6 DEF Next

\* The invariant is inductive.
LEMMA Invariance == Spec => []IInv
  BY InitHolds, StepKeeps, PTL DEF Spec

\* Every variable keeps its type, and the store never holds more than its
\* capacity.
THEOREM TypeCorrect == Spec => []TypeOK
<1>1. IInv => TypeOK
  BY DEF IInv, Typed, LedgerTyped, StoreInv, DecisionType, Step, TypeOK
<1> QED
  BY <1>1, Invariance, PTL

\* No action is queued for a proposal whose acceptance and permit are not on
\* the ledger, whichever append fails and wherever the daemon dies.
THEOREM SubmittedWasAccepted == Spec => []SubmissionIsAccepted
<1>1. IInv => SubmissionIsAccepted
  BY DEF IInv
<1> QED
  BY <1>1, Invariance, PTL

\* The rollback of an acceptance that failed half-way takes its permit back.
THEOREM RollbackTakesPermit == Spec => []NoLeftoverPermit
<1>1. IInv => NoLeftoverPermit
  BY DEF IInv, Typed, PermitInv, NoLeftoverPermit
<1> QED
  BY <1>1, Invariance, PTL

\* A daemon that serves has closed what the generations before it left open.
THEOREM ConsentEnds == Spec => []ConsentEndsWithGeneration
<1>1. IInv => ConsentEndsWithGeneration
  BY DEF IInv
<1> QED
  BY <1>1, Invariance, PTL

-----------------------------------------------------------------------------
(* Decisions that nobody overwrites *)

Stops ==
    RollingBack /\ decision' = NoDecision /\ phase' = "up"
        => latched' \/ decision.p \in done \/ decision.p \in overwritten

\* A new proposal is open and has no events.
LEMMA CreateProposalDecided ==
    ASSUME QInv, NEW p \in Proposal, CreateProposal(p)
    PROVE  DecidedInv' /\ DeclineStands' /\ QueuedInv' /\ Stops
<1>1. Keeps
  BY TouchesOrKeeps DEF QInv, IInv, CreateProposal
<1>2. DecidedInv' /\ DeclineStands'
  BY <1>1 DEF QInv, IInv, Typed, CurrentInv, DecidedInv, DeclineStands, Open, Accepting,
       Pending, ProposalState, Terminal, CreateProposal, machine, HasRoom, ledger, Keeps
<1>3. QueuedInv'
  <2>1. UNCHANGED <<decision, done, overwritten>>
    BY DEF CreateProposal, machine
  <2>2. \A q \in Proposal : state'[q] \in ProposalState \ Terminal => q \in store'
    BY DEF CreateProposal, QInv, QueuedInv, IInv, Typed
  <2>3. decision.at # "idle" => state'[decision.p] = state[decision.p]
    BY DEF QInv, IInv, CurrentInv, CreateProposal, Typed, ProposalState, Terminal
  <2> QED
    BY <2>1, <2>2, <2>3 DEF QInv, QueuedInv
<1>4. Stops
  BY Undecided DEF Stops, RollingBack, CreateProposal, machine
<1> QED
  BY <1>2, <1>3, <1>4

\* Looking up the session decides nothing.
LEMMA CreateSessionDecided ==
    ASSUME QInv, NEW p \in Proposal, CreateSession(p)
    PROVE  DecidedInv' /\ DeclineStands' /\ QueuedInv' /\ Stops
<1>1. Keeps
  BY ProposalEvents DEF QInv
<1>2. DecidedInv' /\ DeclineStands'
  BY <1>1 DEF QInv, IInv, Typed, CurrentInv, DecidedInv, DeclineStands, Open, Accepting,
       Pending, ProposalState, Terminal, CreateSession, machine, Keeps
<1>3. QueuedInv'
  BY DEF QInv, QueuedInv, CreateSession, machine
<1>4. Stops
  BY Undecided DEF Stops, RollingBack, CreateSession, machine
<1> QED
  BY <1>2, <1>3, <1>4

\* The state of p is set without the decision lock.
Overwritten(p) ==
    overwritten' = IF state[p] \in {"CREATED", "PRESENTED"} THEN overwritten
                                                            ELSE overwritten \cup {p}

\* A creation event is no decision, and a creation that fails overwrites one.
LEMMA RecordCreatedDecided ==
    ASSUME QInv, NEW p \in Proposal, RecordCreated(p)
    PROVE  DecidedInv' /\ DeclineStands' /\ QueuedInv' /\ Stops
<1>1. Touches(p, "CREATED")
  BY ProposalEvents DEF QInv
<1>a. /\ UNCHANGED <<store, decision, done, submitted>>
      /\ \/ UNCHANGED <<state, overwritten>>
         \/ state' = [state EXCEPT ![p] = "INVALIDATED"] /\ Overwritten(p)
  BY DEF RecordCreated, machine, Overwrites, Transition, Overwritten
<1>2. DecidedInv' /\ DeclineStands'
  BY <1>1, <1>a DEF QInv, IInv, Typed, CurrentInv, DecidedInv, DeclineStands, Open, Accepting,
       Pending, Touches, Overwritten
<1>3. QueuedInv'
  BY <1>a DEF QInv, IInv, Typed, CurrentInv, QueuedInv, Terminal, Accepting, Overwritten
<1>4. Stops
  BY Undecided DEF Stops, RollingBack, RecordCreated, machine
<1> QED
  BY <1>2, <1>3, <1>4

\* Opening a session decides nothing.
LEMMA OpenSessionDecided ==
    ASSUME QInv, NEW p \in Proposal, OpenSession(p)
    PROVE  DecidedInv' /\ DeclineStands' /\ QueuedInv' /\ Stops
<1>1. Keeps
  BY TouchesOrKeeps DEF QInv, IInv, OpenSession
<1>2. DecidedInv' /\ DeclineStands'
  BY <1>1 DEF QInv, IInv, Typed, CurrentInv, DecidedInv, DeclineStands, Open, Accepting,
       Pending, ProposalState, Terminal, OpenSession, machine, ledger, Keeps
<1>3. QueuedInv'
  BY <1>1 DEF QInv, IInv, Typed, CurrentInv, QueuedInv, ProposalState, Terminal,
       OpenSession, machine, ledger, Keeps
<1>4. Stops
  BY Undecided DEF Stops, RollingBack, OpenSession, machine
<1> QED
  BY <1>2, <1>3, <1>4

\* The end of a session decides nothing.
LEMMA EndSessionDecided ==
    ASSUME QInv, NEW p \in Proposal, EndSession(p)
    PROVE  DecidedInv' /\ DeclineStands' /\ QueuedInv' /\ Stops
<1>1. Keeps
  BY TouchesOrKeeps DEF QInv, IInv, EndSession
<1>2. DecidedInv' /\ DeclineStands'
  BY <1>1 DEF QInv, IInv, Typed, CurrentInv, DecidedInv, DeclineStands, Open, Accepting,
       Pending, ProposalState, Terminal, EndSession, ledger, Keeps
<1>3. QueuedInv'
  BY <1>1 DEF QInv, IInv, Typed, CurrentInv, QueuedInv, ProposalState, Terminal,
       EndSession, ledger, Keeps
<1>4. Stops
  BY Undecided DEF Stops, RollingBack, EndSession
<1> QED
  BY <1>2, <1>3, <1>4

\* The clock decides nothing.
LEMMA TimePassesDecided ==
    ASSUME QInv, NEW p \in Proposal, TimePasses(p)
    PROVE  DecidedInv' /\ DeclineStands' /\ QueuedInv' /\ Stops
<1>1. Keeps
  BY TouchesOrKeeps DEF QInv, IInv, TimePasses
<1>2. DecidedInv' /\ DeclineStands'
  BY <1>1 DEF QInv, IInv, Typed, CurrentInv, DecidedInv, DeclineStands, Open, Accepting,
       Pending, ProposalState, Terminal, TimePasses, machine, ledger, Keeps
<1>3. QueuedInv'
  BY <1>1 DEF QInv, IInv, Typed, CurrentInv, QueuedInv, ProposalState, Terminal,
       TimePasses, machine, ledger, Keeps
<1>4. Stops
  BY Undecided DEF Stops, RollingBack, TimePasses, machine
<1> QED
  BY <1>2, <1>3, <1>4

\* An expiry reopens nothing.
LEMMA ExpireDecided ==
    ASSUME QInv, NEW p \in Proposal, Expire(p)
    PROVE  DecidedInv' /\ DeclineStands' /\ QueuedInv' /\ Stops
<1>1. Keeps
  BY ProposalEvents DEF QInv
<1>2. DecidedInv' /\ DeclineStands'
  BY <1>1 DEF QInv, IInv, Typed, CurrentInv, DecidedInv, DeclineStands, Open, Accepting,
       Pending, ProposalState, Terminal, Expire, Transition, machine, Keeps
<1>3. QueuedInv'
  BY <1>1 DEF QInv, IInv, Typed, CurrentInv, QueuedInv, ProposalState, Terminal,
       Expire, Transition, machine, Keeps
<1>4. Stops
  BY Undecided DEF Stops, RollingBack, Expire, machine
<1> QED
  BY <1>2, <1>3, <1>4

\* Recording an expiry reopens nothing.
LEMMA AuditExpiredDecided ==
    ASSUME QInv, NEW p \in Proposal, AuditExpired(p)
    PROVE  DecidedInv' /\ DeclineStands' /\ QueuedInv' /\ Stops
<1>1. Touches(p, "EXPIRED")
  BY ProposalEvents DEF QInv
<1>2. DecidedInv' /\ DeclineStands'
  BY <1>1 DEF QInv, IInv, Typed, CurrentInv, DecidedInv, DeclineStands, Open, Accepting,
       Pending, ProposalState, Terminal, AuditExpired, machine, Touches
<1>3. QueuedInv'
  BY <1>1 DEF QInv, IInv, Typed, CurrentInv, QueuedInv, ProposalState, Terminal,
       AuditExpired, machine, Touches
<1>4. Stops
  BY Undecided DEF Stops, RollingBack, AuditExpired, machine
<1> QED
  BY <1>2, <1>3, <1>4

\* A completed proposal stays closed.
LEMMA SynchronizeDecided ==
    ASSUME QInv, NEW p \in Proposal, Synchronize(p)
    PROVE  DecidedInv' /\ DeclineStands' /\ QueuedInv' /\ Stops
<1>1. Touches(p, "TERMINAL")
  BY ProposalEvents DEF QInv
<1>2. DecidedInv' /\ DeclineStands'
  BY <1>1 DEF QInv, IInv, Typed, CurrentInv, DecidedInv, DeclineStands, Open, Accepting,
       Pending, ProposalState, Terminal, Synchronize, Transition, machine, Touches
<1>3. QueuedInv'
  BY <1>1 DEF QInv, IInv, Typed, CurrentInv, QueuedInv, ProposalState, Terminal,
       Synchronize, Transition, machine, Touches
<1>4. Stops
  BY Undecided DEF Stops, RollingBack, Synchronize, machine
<1> QED
  BY <1>2, <1>3, <1>4

\* A cancellation reopens nothing.
LEMMA CancelProposalDecided ==
    ASSUME QInv, NEW p \in Proposal, CancelProposal(p)
    PROVE  DecidedInv' /\ DeclineStands' /\ QueuedInv' /\ Stops
<1>1. Keeps
  BY TouchesOrKeeps DEF QInv, IInv, CancelProposal
<1>2. DecidedInv' /\ DeclineStands'
  BY <1>1 DEF QInv, IInv, Typed, CurrentInv, DecidedInv, DeclineStands, Open, Accepting,
       Pending, ProposalState, Terminal, CancelProposal, At, Transition, Decision, machine,
       DecisionType, ledger, Keeps
<1>3. QueuedInv'
  BY <1>1 DEF QInv, IInv, Typed, CurrentInv, QueuedInv, ProposalState, Terminal,
       CancelProposal, At, Transition, Decision, machine, DecisionType, ledger, Keeps
<1>4. Stops
  BY <1>1 DEF QInv, IInv, Typed, CurrentInv, QueuedInv, Stops, RollingBack,
       CancelProposal, At, Transition, Decision, machine, DecisionType, ledger, Keeps
<1> QED
  BY <1>2, <1>3, <1>4

\* What is decided was open, so it was neither declined nor queued before.
LEMMA DecideDecided ==
    ASSUME QInv, NEW p \in Proposal, Decide(p)
    PROVE  DecidedInv' /\ DeclineStands' /\ QueuedInv' /\ Stops
<1>1. Keeps
  BY TouchesOrKeeps DEF QInv, IInv, Decide
<1>2. DecidedInv' /\ DeclineStands'
  BY <1>1 DEF QInv, IInv, Typed, CurrentInv, DecidedInv, DeclineStands, Open, Accepting,
       Pending, ProposalState, Terminal, Decide, At, Transition, Decision, machine, Pending,
       DecisionType, ledger, Keeps
<1>3. QueuedInv'
  BY <1>1 DEF QInv, IInv, Typed, CurrentInv, QueuedInv, ProposalState, Terminal,
       Decide, At, Transition, Decision, machine, Pending, DecisionType, ledger, Keeps
<1>4. Stops
  BY <1>1 DEF QInv, IInv, Typed, CurrentInv, QueuedInv, Stops, RollingBack,
       Decide, At, Transition, Decision, machine, Pending, DecisionType, ledger, Keeps
<1> QED
  BY <1>2, <1>3, <1>4

\* The end of an action reopens nothing.
LEMMA ActionEndsDecided ==
    ASSUME QInv, NEW p \in Proposal, ActionEnds(p)
    PROVE  DecidedInv' /\ DeclineStands' /\ QueuedInv' /\ Stops
<1>1. Keeps
  BY TouchesOrKeeps DEF QInv, IInv, ActionEnds
<1>2. DecidedInv' /\ DeclineStands'
  BY <1>1 DEF QInv, IInv, Typed, CurrentInv, DecidedInv, DeclineStands, Open, Accepting,
       Pending, ProposalState, Terminal, ActionEnds, ledger, Keeps
<1>3. QueuedInv'
  BY <1>1 DEF QInv, IInv, Typed, CurrentInv, QueuedInv, ProposalState, Terminal,
       ActionEnds, ledger, Keeps
<1>4. Stops
  BY Undecided DEF Stops, RollingBack, ActionEnds
<1> QED
  BY <1>2, <1>3, <1>4

\* An invalidated proposal stays closed.
LEMMA InvalidatePreviousDecided ==
    ASSUME QInv, NEW p \in Proposal, InvalidatePrevious(p)
    PROVE  DecidedInv' /\ DeclineStands' /\ QueuedInv' /\ Stops
<1>1. Touches(p, "INVALIDATED")
  BY ProposalEvents DEF QInv
<1>2. DecidedInv' /\ DeclineStands'
  BY <1>1 DEF QInv, IInv, Typed, CurrentInv, DecidedInv, DeclineStands, Open, Accepting,
       Pending, ProposalState, Terminal, InvalidatePrevious, machine, Unclosed, Invalidatable,
       Touches
<1>3. QueuedInv'
  BY <1>1 DEF QInv, IInv, Typed, CurrentInv, QueuedInv, ProposalState, Terminal,
       InvalidatePrevious, machine, Unclosed, Invalidatable, Touches
<1>4. Stops
  BY Undecided DEF Stops, RollingBack, InvalidatePrevious, machine
<1> QED
  BY <1>2, <1>3, <1>4

\* To find a proposal decides nothing.
LEMMA ListFindsDecided ==
    ASSUME QInv, NEW l \in Lister, NEW p \in Proposal, ListFinds(l, p)
    PROVE  DecidedInv' /\ DeclineStands' /\ QueuedInv' /\ Stops
<1>1. UNCHANGED <<store, state, decision, submitted, done, events, overwritten>>
  BY DEF ListFinds, machine, ledger
<1> QED
  BY <1>1, Undecided DEF QInv, DecidedInv, DeclineStands, QueuedInv, Stops, RollingBack

\* A proposal that is presented after it was decided is overwritten.
LEMMA ListPresentsDecided ==
    ASSUME QInv, NEW l \in Lister, ListPresents(l)
    PROVE  DecidedInv' /\ DeclineStands' /\ QueuedInv' /\ Stops
<1> DEFINE p == listing[l].p
<1>1. /\ UNCHANGED <<store, decision, done, submitted, events>> /\ p \in Proposal
      /\ \/ UNCHANGED <<state, overwritten>>
         \/ p \in store /\ state' = [state EXCEPT ![p] = "PRESENTED"] /\ Overwritten(p)
  BY DEF ListPresents, machine, ledger, Overwrites, Transition, Overwritten, QInv, IInv,
       CurrentInv
<1> HIDE DEF p
<1>2. DecidedInv' /\ DeclineStands'
  BY <1>1 DEF QInv, IInv, Typed, CurrentInv, DecidedInv, DeclineStands, Open, Accepting,
       Pending, Overwritten
<1>3. QueuedInv'
  BY <1>1 DEF QInv, IInv, Typed, CurrentInv, QueuedInv, Overwritten
<1>4. Stops
  BY <1>1, Undecided DEF Stops, RollingBack
<1> QED
  BY <1>2, <1>3, <1>4

\* What is presented is recorded, which decides nothing.
LEMMA ListRecordsDecided ==
    ASSUME QInv, NEW l \in Lister, ListRecords(l)
    PROVE  DecidedInv' /\ DeclineStands' /\ QueuedInv' /\ Stops
<1>1. /\ UNCHANGED <<store, state, decision, submitted, done, overwritten>>
      /\ listing[l].p \in Proposal /\ Touches(listing[l].p, "PRESENTED")
  BY TouchesOrKeeps DEF ListRecords, machine, QInv, IInv, CurrentInv, Kind, ProposalState,
       Terminal
<1>a. \A q \in Proposal : "DECLINED" \in events'[q] <=> "DECLINED" \in events[q]
  BY <1>1 DEF Touches
<1>b. submitted \subseteq Proposal /\ (decision.at # "idle" => decision.p \in Proposal)
  BY DEF QInv, IInv, Typed, CurrentInv
<1>2. DecidedInv' /\ DeclineStands'
  BY <1>1, <1>a, <1>b DEF QInv, DecidedInv, DeclineStands, Accepting
<1> QED
  BY <1>1, <1>2, Undecided DEF QInv, QueuedInv, Stops, RollingBack

\* Recording a cancellation reopens nothing.
LEMMA RecordCancelledDecided ==
    ASSUME QInv, RecordCancelled
    PROVE  DecidedInv' /\ DeclineStands' /\ QueuedInv' /\ Stops
<1>1. Touches(decision.p, "CANCELLED")
  BY DecisionEvents DEF QInv
<1>2. DecidedInv' /\ DeclineStands'
  BY <1>1, Undecided DEF QInv, IInv, Typed, CurrentInv, DecidedInv, DeclineStands, Open,
       Accepting, Pending, ProposalState, Terminal, RecordCancelled, At, machine, Decision,
       Step, DecisionType, Touches
<1>3. QueuedInv'
  BY <1>1, Undecided DEF QInv, IInv, Typed, CurrentInv, QueuedInv, ProposalState,
       Terminal, RecordCancelled, At, machine, Decision, Step, DecisionType, Touches
<1>4. Stops
  BY <1>1, Undecided DEF QInv, IInv, Typed, CurrentInv, QueuedInv, Stops, RollingBack,
       RecordCancelled, At, machine, Decision, Step, DecisionType, Touches
<1> QED
  BY <1>2, <1>3, <1>4

\* What is recorded as declined was not queued and cannot be decided again.
LEMMA RecordDeclinedDecided ==
    ASSUME QInv, RecordDeclined
    PROVE  DecidedInv' /\ DeclineStands' /\ QueuedInv' /\ Stops
<1>1. Touches(decision.p, "DECLINED")
  BY DecisionEvents DEF QInv
<1>2. DecidedInv' /\ DeclineStands'
  BY <1>1, DecisionMoves, Undecided DEF QInv, IInv, Typed, CurrentInv, DecidedInv,
       DeclineStands, Open, Accepting, Pending, ProposalState, Terminal, RecordDeclined, At,
       machine, Decision, Step, DecisionType, Touches
<1>3. QueuedInv'
  BY <1>1, DecisionMoves, Undecided DEF QInv, IInv, Typed, CurrentInv, QueuedInv,
       ProposalState, Terminal, RecordDeclined, At, machine, Decision, Step, DecisionType,
       Touches
<1>4. Stops
  BY <1>1, DecisionMoves, Undecided DEF QInv, IInv, Typed, CurrentInv, QueuedInv, Stops,
       RollingBack, RecordDeclined, At, machine, Decision, Step, DecisionType,
       Touches
<1> QED
  BY <1>2, <1>3, <1>4

\* What is accepted was never declined.
LEMMA RecordAcceptedDecided ==
    ASSUME QInv, RecordAccepted
    PROVE  DecidedInv' /\ DeclineStands' /\ QueuedInv' /\ Stops
<1>1. Touches(decision.p, "ACCEPTED")
  BY DecisionEvents DEF QInv
<1>2. DecidedInv' /\ DeclineStands'
  BY <1>1, DecisionMoves DEF QInv, IInv, Typed, CurrentInv, DecidedInv, DeclineStands, Open,
       Accepting, Pending, ProposalState, Terminal, RecordAccepted, At, Fails, machine, Step,
       Touches
<1>3. QueuedInv'
  BY <1>1, DecisionMoves DEF QInv, IInv, Typed, CurrentInv, QueuedInv,
       ProposalState, Terminal, RecordAccepted, At, Fails, machine, Step, Touches
<1>4. Stops
  BY <1>1, DecisionMoves DEF QInv, IInv, Typed, CurrentInv, QueuedInv, Stops, RollingBack,
       RecordAccepted, At, Fails, machine, Step, Touches
<1> QED
  BY <1>2, <1>3, <1>4

\* Arming decides nothing.
LEMMA ArmAfterDecisionDecided ==
    ASSUME QInv, ArmAfterDecision
    PROVE  DecidedInv' /\ DeclineStands' /\ QueuedInv' /\ Stops
<1>1. Keeps
  BY DecisionEvents DEF QInv
<1>2. DecidedInv' /\ DeclineStands'
  <2>1. decision'.p = decision.p /\ decision'.at \in {"permit", "rollback"} /\ decision.at = "arm"
    BY DecisionMoves DEF QInv, IInv, Typed, ArmAfterDecision, At, Fails, Step, DecisionType
  <2> QED
    BY <1>1, <2>1 DEF QInv, DecidedInv, DeclineStands, Accepting, ArmAfterDecision, Keeps
<1>3. QueuedInv'
  <2>1. /\ decision'.p = decision.p /\ decision'.at \in {"permit", "rollback"}
        /\ decision'.queues = decision.queues /\ decision.at = "arm"
    BY DecisionMoves DEF QInv, IInv, Typed, ArmAfterDecision, At, Fails, Step, DecisionType
  <2> QED
    BY <2>1 DEF QInv, QueuedInv, ArmAfterDecision
<1>4. Stops
  BY <1>1, DecisionMoves DEF QInv, IInv, Typed, CurrentInv, QueuedInv, Stops, RollingBack,
       ArmAfterDecision, At, Fails, Step, DecisionType, Keeps
<1> QED
  BY <1>2, <1>3, <1>4

\* An accepted proposal gets its permit, or a rollback begins.
LEMMA IssuePermitDecided ==
    ASSUME QInv, IssuePermit
    PROVE  DecidedInv' /\ DeclineStands' /\ QueuedInv' /\ Stops
<1>1. Keeps
  BY DecisionEvents DEF QInv
<1>2. DecidedInv' /\ DeclineStands'
  BY <1>1, DecisionMoves DEF QInv, IInv, Typed, CurrentInv, DecidedInv, DeclineStands, Open,
       Accepting, Pending, ProposalState, Terminal, IssuePermit, At, Fails, Transition, Step,
       Keeps
<1>3. QueuedInv'
  BY <1>1, DecisionMoves DEF QInv, IInv, Typed, CurrentInv, QueuedInv,
       ProposalState, Terminal, IssuePermit, At, Fails, Transition, Step, Keeps
<1>4. Stops
  BY <1>1, DecisionMoves DEF QInv, IInv, Typed, CurrentInv, QueuedInv, Stops, RollingBack,
       IssuePermit, At, Fails, Transition, Step, Keeps
<1> QED
  BY <1>2, <1>3, <1>4

\* The proposal keeps its permit until its action is requested.
LEMMA RecordPermitDecided ==
    ASSUME QInv, RecordPermit
    PROVE  DecidedInv' /\ DeclineStands' /\ QueuedInv' /\ Stops
<1>1. Touches(decision.p, "PERMIT_ISSUED")
  BY DecisionEvents DEF QInv
<1>2. DecidedInv' /\ DeclineStands'
  BY <1>1, DecisionMoves DEF QInv, IInv, Typed, CurrentInv, DecidedInv, DeclineStands, Open,
       Accepting, Pending, ProposalState, Terminal, RecordPermit, At, Fails, machine, Step,
       Touches
<1>3. QueuedInv'
  BY <1>1, DecisionMoves DEF QInv, IInv, Typed, CurrentInv, QueuedInv,
       ProposalState, Terminal, RecordPermit, At, Fails, machine, Step, Touches
<1>4. Stops
  BY <1>1, DecisionMoves DEF QInv, IInv, Typed, CurrentInv, QueuedInv, Stops, RollingBack,
       RecordPermit, At, Fails, machine, Step, Touches
<1> QED
  BY <1>2, <1>3, <1>4

\* What is queued was accepted and never declined.
LEMMA RequestActionDecided ==
    ASSUME QInv, RequestAction
    PROVE  DecidedInv' /\ DeclineStands' /\ QueuedInv' /\ Stops
<1>1. Keeps
  BY DecisionEvents DEF QInv
<1>a. /\ decision.at = "request" /\ decision.p \in Proposal /\ decision \in DecisionType
      /\ ~decision.queues
      /\ decision.p \notin overwritten =>
            /\ state[decision.p] = "PERMIT_ISSUED" /\ decision.p \in store
            /\ "DECLINED" \notin events[decision.p]
  BY DEF RequestAction, At, QInv, IInv, Typed, CurrentInv, DecidedInv, QueuedInv,
         Accepting, ProposalState, Terminal
<1>b. UNCHANGED <<store, done, overwritten>>
  BY DEF RequestAction
<1>c. \/ Goes("rollback") /\ UNCHANGED <<state, submitted>>
      \/ /\ decision' = [decision EXCEPT !.at = "submitted", !.queues = TRUE]
         /\ submitted' = submitted \cup {decision.p} /\ decision.p \in store
         /\ state' = [state EXCEPT ![decision.p] = "SUBMITTED"]
      \/ /\ decision' = [decision EXCEPT !.at = "rollback", !.queues = TRUE]
         /\ submitted' = submitted \cup {decision.p} /\ decision.p \in overwritten
         /\ UNCHANGED state
  BY <1>a DEF RequestAction, Transition, Fails
<1>d. /\ decision'.p = decision.p
      /\ \/ decision'.at = "rollback" /\ ~decision'.queues /\ UNCHANGED <<state, submitted>>
         \/ /\ decision'.at = "submitted"
            /\ submitted' = submitted \cup {decision.p} /\ decision.p \in store
            /\ state'[decision.p] = "SUBMITTED"
            /\ \A q \in Proposal \ {decision.p} : state'[q] = state[q]
         \/ /\ decision'.at = "rollback"
            /\ submitted' = submitted \cup {decision.p} /\ decision.p \in overwritten
            /\ UNCHANGED state
  BY <1>a, <1>c, DecisionMoves DEF QInv, IInv, Typed, DecisionType, Step
<1>2. DecidedInv' /\ DeclineStands'
  BY <1>1, <1>a, <1>b, <1>d
     DEF QInv, DecidedInv, DeclineStands, Accepting, Open, Pending, Keeps
<1>3. QueuedInv'
  BY <1>a, <1>b, <1>d DEF QInv, QueuedInv
<1>4. Stops
  BY <1>1, DecisionMoves DEF QInv, IInv, Typed, CurrentInv, QueuedInv, Stops, RollingBack,
       RequestAction, At, Fails, Transition, Step, DecisionType, Keeps
<1> QED
  BY <1>2, <1>3, <1>4

\* A queued action is submitted on the record, or its rollback stops it.
LEMMA RecordSubmittedDecided ==
    ASSUME QInv, RecordSubmitted
    PROVE  DecidedInv' /\ DeclineStands' /\ QueuedInv' /\ Stops
<1>1. Touches(decision.p, "SUBMITTED")
  BY DecisionEvents DEF QInv
<1>2. DecidedInv' /\ DeclineStands'
  BY <1>1, DecisionMoves DEF QInv, IInv, Typed, CurrentInv, DecidedInv, DeclineStands, Open,
       Accepting, Pending, ProposalState, Terminal, RecordSubmitted, At, Fails, machine, Step,
       Touches
<1>3. QueuedInv'
  BY <1>1, DecisionMoves DEF QInv, IInv, Typed, CurrentInv, QueuedInv,
       ProposalState, Terminal, RecordSubmitted, At, Fails, machine, Step, Touches
<1>4. Stops
  BY <1>1, DecisionMoves DEF QInv, IInv, Typed, CurrentInv, QueuedInv, Stops, RollingBack,
       RecordSubmitted, At, Fails, machine, Step, Touches
<1> QED
  BY <1>2, <1>3, <1>4

\* A finished decision leaves nothing to stop.
LEMMA FinalizeDecisionDecided ==
    ASSUME QInv, FinalizeDecision
    PROVE  DecidedInv' /\ DeclineStands' /\ QueuedInv' /\ Stops
<1>1. Keeps \/ Touches(decision.p, "RECEIPT")
  BY DecisionEvents DEF QInv
<1>2. DecidedInv' /\ DeclineStands'
  BY <1>1, Undecided DEF QInv, IInv, Typed, CurrentInv, DecidedInv, DeclineStands, Open,
       Accepting, Pending, ProposalState, Terminal, FinalizeDecision, At, Decision, Step,
       DecisionType, Keeps, Touches
<1>3. QueuedInv'
  BY <1>1, Undecided DEF QInv, IInv, Typed, CurrentInv, QueuedInv, ProposalState,
       Terminal, FinalizeDecision, At, Decision, Step, DecisionType, Keeps, Touches
<1>4. Stops
  BY <1>1, Undecided DEF QInv, IInv, Typed, CurrentInv, QueuedInv, Stops, RollingBack,
       FinalizeDecision, At, Decision, Step, DecisionType, Keeps, Touches
<1> QED
  BY <1>2, <1>3, <1>4

\* A rollback remembers that the action was queued.
LEMMA RollbackDecided ==
    ASSUME QInv, Rollback
    PROVE  DecidedInv' /\ DeclineStands' /\ QueuedInv' /\ Stops
<1>1. Keeps
  BY DecisionEvents DEF QInv
<1>2. DecidedInv' /\ DeclineStands'
  BY <1>1 DEF QInv, IInv, Typed, CurrentInv, DecidedInv, DeclineStands, Open, Accepting,
       Pending, ProposalState, Terminal, Rollback, At, DecisionType, Keeps
<1>3. QueuedInv'
  BY <1>1 DEF QInv, IInv, Typed, CurrentInv, QueuedInv, ProposalState, Terminal,
       Rollback, At, DecisionType, Keeps
<1>4. Stops
  BY <1>1 DEF QInv, IInv, Typed, CurrentInv, QueuedInv, Stops, RollingBack,
       Rollback, At, DecisionType, Keeps
<1> QED
  BY <1>2, <1>3, <1>4

\* Closing the proposal remembers what has to be stopped.
LEMMA InvalidateDecided ==
    ASSUME QInv, Invalidate
    PROVE  DecidedInv' /\ DeclineStands' /\ QueuedInv' /\ Stops
<1>1. Keeps \/ Touches(decision.p, "INVALIDATED")
  BY DecisionEvents DEF QInv
<1>2. DecidedInv' /\ DeclineStands'
  BY <1>1, Undecided DEF QInv, IInv, Typed, CurrentInv, DecidedInv, DeclineStands, Open,
       Accepting, Pending, ProposalState, Terminal, Invalidate, At, Transition, machine,
       Decision, Step, DecisionType, Keeps, Touches
<1>3. QueuedInv'
  BY <1>1, Undecided DEF QInv, IInv, Typed, CurrentInv, QueuedInv, ProposalState,
       Terminal, Invalidate, At, Transition, machine, Decision, Step, DecisionType, Keeps,
       Touches
<1>4. Stops
  BY <1>1, Undecided DEF QInv, IInv, Typed, CurrentInv, QueuedInv, Stops, RollingBack,
       Invalidate, At, Transition, machine, Decision, Step, DecisionType, Keeps,
       Touches
<1> QED
  BY <1>2, <1>3, <1>4

\* A queued action of a failed acceptance meets the safety stop.
LEMMA DisarmAfterRollbackDecided ==
    ASSUME QInv, DisarmAfterRollback
    PROVE  DecidedInv' /\ DeclineStands' /\ QueuedInv' /\ Stops
<1>1. Keeps
  BY DecisionEvents DEF QInv
<1>2. DecidedInv' /\ DeclineStands'
  BY <1>1, Undecided DEF QInv, IInv, Typed, CurrentInv, DecidedInv, DeclineStands, Open,
       Accepting, Pending, ProposalState, Terminal, DisarmAfterRollback, At, Decision, Step,
       DecisionType, Keeps
<1>3. QueuedInv'
  BY <1>1, Undecided DEF QInv, IInv, Typed, CurrentInv, QueuedInv, ProposalState,
       Terminal, DisarmAfterRollback, At, Decision, Step, DecisionType, Keeps
<1>4. Stops
  BY <1>1, Undecided DEF QInv, IInv, Typed, CurrentInv, QueuedInv, Stops, RollingBack,
       DisarmAfterRollback, At, Decision, Step, DecisionType, Keeps
<1> QED
  BY <1>2, <1>3, <1>4

\* Arming decides nothing.
LEMMA ArmRuntimeDecided ==
    ASSUME QInv, ArmRuntime
    PROVE  DecidedInv' /\ DeclineStands' /\ QueuedInv' /\ Stops
<1>1. Keeps
  BY TouchesOrKeeps DEF QInv, IInv, ArmRuntime
<1>2. DecidedInv' /\ DeclineStands'
  BY <1>1 DEF QInv, IInv, Typed, CurrentInv, DecidedInv, DeclineStands, Open, Accepting,
       Pending, ProposalState, Terminal, ArmRuntime, ledger, Keeps
<1>3. QueuedInv'
  BY <1>1 DEF QInv, IInv, Typed, CurrentInv, QueuedInv, ProposalState, Terminal,
       ArmRuntime, ledger, Keeps
<1>4. Stops
  BY Undecided DEF Stops, RollingBack, ArmRuntime
<1> QED
  BY <1>2, <1>3, <1>4

\* A safety stop decides nothing.
LEMMA EmergencyStopDecided ==
    ASSUME QInv, EmergencyStop
    PROVE  DecidedInv' /\ DeclineStands' /\ QueuedInv' /\ Stops
<1>1. Keeps
  BY TouchesOrKeeps DEF QInv, IInv, EmergencyStop
<1>2. DecidedInv' /\ DeclineStands'
  BY <1>1 DEF QInv, IInv, Typed, CurrentInv, DecidedInv, DeclineStands, Open, Accepting,
       Pending, ProposalState, Terminal, EmergencyStop, ledger, Keeps
<1>3. QueuedInv'
  BY <1>1 DEF QInv, IInv, Typed, CurrentInv, QueuedInv, ProposalState, Terminal,
       EmergencyStop, ledger, Keeps
<1>4. Stops
  BY Undecided DEF Stops, RollingBack, EmergencyStop
<1> QED
  BY <1>2, <1>3, <1>4

\* A crash forgets the decision and keeps the events.
LEMMA CrashDecided ==
    ASSUME QInv, Crash
    PROVE  DecidedInv' /\ DeclineStands' /\ QueuedInv' /\ Stops
<1>1. Keeps
  BY DEF QInv, IInv, Keeps, LedgerTyped, Crash
<1>2. DecidedInv' /\ DeclineStands'
  BY <1>1, Undecided DEF QInv, IInv, Typed, CurrentInv, DecidedInv, DeclineStands, Open,
       Accepting, Pending, ProposalState, Terminal, Crash, Decision, Step, DecisionType, Keeps
<1>3. QueuedInv'
  BY <1>1, Undecided DEF QInv, IInv, Typed, CurrentInv, QueuedInv, ProposalState,
       Terminal, Crash, Decision, Step, DecisionType, Keeps
<1>4. Stops
  BY <1>1, Undecided DEF QInv, IInv, Typed, CurrentInv, QueuedInv, Stops, RollingBack,
       Crash, Decision, Step, DecisionType, Keeps
<1> QED
  BY <1>2, <1>3, <1>4

\* A restart decides nothing.
LEMMA RestartDecided ==
    ASSUME QInv, Restart
    PROVE  DecidedInv' /\ DeclineStands' /\ QueuedInv' /\ Stops
<1>1. Keeps
  BY DEF QInv, IInv, Restart, Keeps, LedgerTyped
<1>2. DecidedInv' /\ DeclineStands'
  BY <1>1 DEF QInv, IInv, Typed, CurrentInv, DecidedInv, DeclineStands, Open, Accepting,
       Pending, ProposalState, Terminal, Restart, machine, ledger, Keeps
<1>3. QueuedInv'
  BY <1>1 DEF QInv, IInv, Typed, CurrentInv, QueuedInv, ProposalState, Terminal,
       Restart, machine, ledger, Keeps
<1>4. Stops
  BY Undecided DEF Stops, RollingBack, Restart, machine
<1> QED
  BY <1>2, <1>3, <1>4

\* Serving reopens nothing.
LEMMA ServeDecided ==
    ASSUME QInv, Serve
    PROVE  DecidedInv' /\ DeclineStands' /\ QueuedInv' /\ Stops
<1>1. Keeps
  BY TouchesOrKeeps DEF QInv, IInv, Serve
<1>2. DecidedInv' /\ DeclineStands'
  BY <1>1 DEF QInv, IInv, Typed, CurrentInv, DecidedInv, DeclineStands, Open, Accepting,
       Pending, ProposalState, Terminal, Serve, machine, Unclosed, ledger, Keeps
<1>3. QueuedInv'
  BY <1>1 DEF QInv, IInv, Typed, CurrentInv, QueuedInv, ProposalState, Terminal,
       Serve, machine, Unclosed, ledger, Keeps
<1>4. Stops
  BY Undecided DEF Stops, RollingBack, Serve, machine
<1> QED
  BY <1>2, <1>3, <1>4

\* Nothing is decided at first.
LEMMA DecidedInit == Init => DecidedInv /\ DeclineStands /\ QueuedInv
<1> SUFFICES ASSUME Init PROVE DecidedInv /\ DeclineStands /\ QueuedInv
  OBVIOUS
<1>1. DecidedInv /\ DeclineStands
  BY Undecided DEF Init, DecidedInv, DeclineStands, Accepting
<1>2. QueuedInv
  BY Undecided DEF Init, QueuedInv, ProposalState, Terminal
<1> QED
  BY <1>1, <1>2

\* Every step keeps what has been decided.
LEMMA DecidedStep ==
    ASSUME QInv, [Next]_vars
    PROVE  QInv' /\ [Stops]_vars
<1>1. IInv'
  BY StepKeeps DEF QInv
<1> DEFINE Goal == DecidedInv' /\ DeclineStands' /\ QueuedInv' /\ Stops
<1>2. ASSUME NEW p \in Proposal,
             \/ CreateProposal(p) \/ CreateSession(p) \/ RecordCreated(p)
             \/ OpenSession(p) \/ EndSession(p) \/ TimePasses(p)
      PROVE  Goal
  BY <1>2, CreateProposalDecided, CreateSessionDecided, RecordCreatedDecided, OpenSessionDecided,
     EndSessionDecided, TimePassesDecided
<1>3. ASSUME NEW p \in Proposal,
             \/ Expire(p) \/ AuditExpired(p) \/ Synchronize(p) \/ CancelProposal(p)
             \/ Decide(p) \/ ActionEnds(p) \/ InvalidatePrevious(p)
      PROVE  Goal
  BY <1>3, ExpireDecided, AuditExpiredDecided, SynchronizeDecided, CancelProposalDecided,
     DecideDecided, ActionEndsDecided, InvalidatePreviousDecided
<1>4. ASSUME NEW l \in Lister,
             ListPresents(l) \/ ListRecords(l) \/ \E p \in Proposal : ListFinds(l, p)
      PROVE  Goal
  BY <1>4, ListFindsDecided, ListPresentsDecided, ListRecordsDecided
<1>5. CASE \/ RecordCancelled \/ RecordDeclined \/ RecordAccepted \/ ArmAfterDecision \/ IssuePermit
           \/ RecordPermit \/ RequestAction \/ RecordSubmitted \/ FinalizeDecision
  BY <1>1, <1>5, RecordCancelledDecided, RecordDeclinedDecided, RecordAcceptedDecided,
     ArmAfterDecisionDecided, IssuePermitDecided, RecordPermitDecided, RequestActionDecided,
     RecordSubmittedDecided, FinalizeDecisionDecided DEF QInv
<1>6. CASE \/ Rollback \/ Invalidate \/ DisarmAfterRollback
           \/ ArmRuntime \/ EmergencyStop \/ Crash \/ Restart \/ Serve
  BY <1>1, <1>6, RollbackDecided, InvalidateDecided, DisarmAfterRollbackDecided,
     ArmRuntimeDecided, EmergencyStopDecided, CrashDecided, RestartDecided, ServeDecided DEF QInv
<1>7. CASE UNCHANGED vars
  <2>1. DecidedInv' /\ DeclineStands'
    BY <1>7 DEF vars, machine, ledger, QInv, DecidedInv, DeclineStands
  <2>2. QueuedInv'
    BY <1>7 DEF vars, machine, ledger, QInv, QueuedInv
  <2> QED
    BY <1>1, <1>7, <2>1, <2>2 DEF QInv
<1> QED
  BY <1>1, <1>2, <1>3, <1>4, <1>5, <1>6, <1>7 DEF Next, QInv

\* A declined proposal is executed only after a thread without the decision lock
\* has overwritten it, however many threads list proposals, and whatever fails or
\* crashes between the decisions.
THEOREM DeclinesStand == Spec => []DeclineStands
<1>1. Init => QInv
  BY InitHolds, DecidedInit DEF QInv
<1>2. QInv /\ [Next]_vars => QInv'
  BY DecidedStep
<1>3. QInv => DeclineStands
  BY DEF QInv
<1> QED
  BY <1>1, <1>2, <1>3, PTL DEF Spec

\* An acceptance that fails after its action was queued does not return before a
\* safety stop is requested, unless the action has ended or a thread without the
\* decision lock has overwritten the proposal.
THEOREM FailedAcceptanceStops == Spec => RollbackStops
<1>1. Init => QInv
  BY InitHolds, DecidedInit DEF QInv
<1>2. QInv /\ [Next]_vars => QInv' /\ [Stops]_vars
  BY DecidedStep
<1>3. [Stops]_vars <=>
         [RollingBack /\ decision' = NoDecision /\ phase' = "up"
             => latched' \/ decision.p \in done \/ decision.p \in overwritten]_vars
  BY DEF Stops
<1> QED
  BY <1>1, <1>2, <1>3, PTL DEF Spec, RollbackStops

=============================================================================
