------------------------- MODULE ControlPlaneProofs -------------------------
(***************************************************************************)
(* What the control plane keeps for every number of actions, sessions,     *)
(* threads, crashes and failing appends: queue slots are conserved, the    *)
(* events of an action are written in order, an action reaches its         *)
(* executor at most once and never off the record, an override stands,     *)
(* and what a crash left unknown is reviewed before anything else moves.   *)
(***************************************************************************)
EXTENDS ControlPlane, FiniteSetTheorems, TLAPS

-----------------------------------------------------------------------------
(* The inductive invariant *)

\* The events of an action: it is not known, it was submitted, it was started,
\* or it has ended.
Blank(j) == j = <<>>
Queued(j) == j \in Seq(ActionEvent) /\ Len(j) = 1 /\ j[1] = Submitted
Running(j) == j \in Seq(ActionEvent) /\ Len(j) = 2 /\ j[1] = Submitted /\ j[2] = Started
Over(j) ==
    /\ j \in Seq(ActionEvent) /\ Len(j) \in {2, 3} /\ j[1] = Submitted
    /\ Len(j) = 3 => j[2] = Started
    /\ \E f \in Final : j[Len(j)] = Terminal(f)

Began(j) == Len(j) >= 2 /\ j[1] = Submitted /\ j[2] = Started

Waiting == {"pending", "picked"}
Working == InFlight \ Waiting
Flying == {a \in Action : pc[a] \in InFlight}

\* Memory agrees with the ledger about a job that has not ended, and with the
\* thread of the job.
JobOK(a) ==
    /\ Blank(journal[a]) \/ Queued(journal[a]) \/ Running(journal[a]) \/ Over(journal[a])
    /\ pc[a] \in Waiting => sched[a] = "QUEUED"
    /\ pc[a] \in Working => sched[a] = "RUNNING"
    /\ sched[a] = "QUEUED" => Queued(journal[a])
    /\ sched[a] = "RUNNING" => Running(journal[a])
    /\ pc[a] \in {"returned", "checked"} => result[a] \in Final
    /\ a \in toEnd => ~Blank(journal[a]) /\ (sched[a] = "QUEUED" => override[a] # "none")

JobInv == \A a \in Action : JobOK(a)

\* A daemon that is down or starting has no threads, and one that is starting
\* holds every action the ledger says was started.
BootInv ==
    up \in {"down", "starting"} =>
        /\ \A a \in Action : pc[a] = "idle" /\ override[a] = "none"
        /\ toEnd = {} /\ \A s \in Session : losing[s] = "no"
        /\ up = "starting" => \A a \in Action : Running(journal[a]) => sched[a] = "RUNNING"

SlotInv == slots \in Nat /\ slots + Cardinality(Flying) = QueueSize

\* What has been dispatched is on record, and no thread is about to do it again.
DispatchOK(a) ==
    /\ dispatched[a] <= 1
    /\ dispatched[a] > 0 =>
          /\ Began(journal[a])
          /\ pc[a] \notin Waiting \cup {"started", "authorized", "submitted"}
    /\ a \in Real /\ (pc[a] \in {"authorized", "submitted"} \/ dispatched[a] > 0) =>
          permit[a] \in Spent

DispatchInv == \A a \in Action : DispatchOK(a)

\* The review the ledger says is pending.
Pending == PendingBefore(Len(recoveryLog) + 1)

\* What a crash left unknown is reviewed, or pending on the ledger, or has not
\* been sealed yet; and no REAL action is under way before it is reviewed.
ReviewInv ==
    /\ up = "starting" => recovery = Pending
    /\ up \in {"running", "closing"} => unknown \subseteq recovery \cup reviewed
    /\ \A b \in unknown :
          /\ ~Blank(journal[b]) /\ pc[b] = "idle"
          /\ b \in reviewed \cup Pending \/ Running(journal[b])
    /\ \A a \in Real : pc[a] \in InFlight => unknown \subseteq reviewed

\* Without a failing append, memory and ledger agree on what is pending.
HealthInv ==
    faults = 0 => handle = "open" /\ RecoveryReadable /\ (up # "down" => recovery = Pending)

\* OverrideStands, for one action.
OverrideOK(a) ==
    override[a] # "none" /\ sched[a] = "FINISHED" =>
        /\ result[a] \in {override[a], "FAILED"}
        /\ DecodedResult(journal[a]) # "COMPLETED"

OverrideInv == \A a \in Action : OverrideOK(a)

\* UnrecordedRealIsReviewed, for one action.
MissingOK(a) == a \in OutcomeMissing => a \in recovery \cup reviewed \/ pc[a] \in InFlight

MissingInv == up \in {"running", "closing"} => \A a \in Action : MissingOK(a)

\* TypeOK, but for the range of slots, which follows from SlotInv.
Typed ==
    /\ journal \in [Action -> Seq(ActionEvent)]
    /\ recoveryLog \in Seq(RecoveryEvent)
    /\ permit \in [Action -> PermitState]
    /\ up \in {"down", "starting", "running", "closing"}
    /\ handle \in {"open", "failed"}
    /\ ledgerFailed \in BOOLEAN
    /\ sched \in [Action -> {"none", "QUEUED", "RUNNING", "FINISHED", "CANCELLED"}]
    /\ pc \in [Action -> {"idle"} \cup InFlight]
    /\ result \in [Action -> Final \cup {"none"}]
    /\ override \in [Action -> {"none", "TIMED_OUT", "ORPHANED"}]
    /\ sessionLost \subseteq Action
    /\ stopRequested \subseteq Action
    /\ toEnd \subseteq Action
    /\ toStop \subseteq Action
    /\ session \in [Session -> {"none", "ACTIVE", "LOST", "CLOSED"}]
    /\ losing \in [Session -> {"no", "revoke", "mark"}]
    /\ supervision \in {"DISARMED", "ARMED", "ESTOPPED", "STOPPING"}
    /\ stopping \in BOOLEAN
    /\ latched \in BOOLEAN
    /\ recovery \subseteq Action
    /\ late \subseteq Action
    /\ dispatched \in [Action -> Nat]
    /\ unknown \subseteq Real
    /\ reviewed \subseteq Action
    /\ crashes \in 0 .. MaxCrashes
    /\ faults \in 0 .. MaxFaults
    /\ losses \in 0 .. MaxLosses

IInv ==
    /\ Typed
    /\ JobInv
    /\ BootInv
    /\ SlotInv
    /\ DispatchInv
    /\ ReviewInv
    /\ HealthInv
    /\ OverrideInv
    /\ MissingInv

-----------------------------------------------------------------------------
(* The events of an action *)

\* The kinds of events are told apart.
LEMMA EventsDiffer ==
    /\ Submitted \in ActionEvent /\ Started \in ActionEvent
    /\ Submitted # Started /\ Submitted.final = "none" /\ Started.final = "none"
    /\ Submitted.type # "ACTION_TERMINAL" /\ Started.type # "ACTION_TERMINAL"
    /\ \A f \in Final :
          /\ Terminal(f) \in ActionEvent /\ Terminal(f) # Started /\ Terminal(f) # Submitted
          /\ Terminal(f).final = f /\ Terminal(f).type = "ACTION_TERMINAL"
  BY DEF Submitted, Started, Terminal, ActionEvent

\* An unknown action has no events.
LEMMA EmptyJournal == <<>> \in Seq(ActionEvent) /\ Len(<<>>) = 0
  OBVIOUS

\* The four shapes are different.
LEMMA ShapesDiffer ==
    ASSUME NEW j
    PROVE  /\ Blank(j) => ~Queued(j) /\ ~Running(j) /\ ~Over(j)
           /\ Queued(j) => ~Running(j) /\ ~Over(j)
           /\ Running(j) => ~Over(j)
<1>1. Blank(j) => ~Queued(j) /\ ~Running(j) /\ ~Over(j)
  BY DEF Blank, Queued, Running, Over
<1>2. Queued(j) => ~Running(j) /\ ~Over(j)
  BY DEF Queued, Running, Over
<1>3. Running(j) => ~Over(j)
  BY EventsDiffer DEF Running, Over
<1> QED
  BY <1>1, <1>2, <1>3

\* Each of them is what the reader of the ledger expects.
LEMMA ShapesWellFormed ==
    ASSUME NEW j, Blank(j) \/ Queued(j) \/ Running(j) \/ Over(j)
    PROVE  j \in Seq(ActionEvent) /\ WellFormed(j, Final)
<1>1. j \in Seq(ActionEvent) /\ DOMAIN j = 1 .. Len(j)
  <2>1. j \in Seq(ActionEvent)
    <3>1. Blank(j) => j \in Seq(ActionEvent)
      BY EmptyJournal DEF Blank
    <3>2. ~Blank(j) => j \in Seq(ActionEvent)
      BY DEF Queued, Running, Over
    <3> QED
      BY <3>1, <3>2
  <2> QED
    BY <2>1
<1>2. CASE Blank(j)
  BY <1>1, <1>2 DEF Blank, WellFormed
<1>3. CASE Queued(j)
  BY <1>1, <1>3, EventsDiffer DEF Queued, WellFormed
<1>4. CASE Running(j)
  BY <1>1, <1>4, EventsDiffer DEF Running, WellFormed
<1>5. CASE Over(j)
  BY <1>1, <1>5, EventsDiffer DEF Over, WellFormed
<1> QED
  BY <1>1, <1>2, <1>3, <1>4, <1>5

\* What append makes of them.
LEMMA ShapesGrow ==
    ASSUME NEW j
    PROVE  /\ Blank(j) => Queued(Append(j, Submitted))
           /\ Queued(j) => Running(Append(j, Started))
           /\ \A f \in Final : Queued(j) \/ Running(j) =>
                 Over(Append(j, Terminal(f))) /\ DecodedResult(Append(j, Terminal(f))) = f
           /\ \A f \in Final : Running(j) => Began(Append(j, Terminal(f)))
           /\ Running(j) => Began(j)
           /\ Blank(j) \/ Queued(j) => ~Began(j)
<1>1. ASSUME NEW e \in ActionEvent, Blank(j) \/ Queued(j) \/ Running(j)
      PROVE  /\ Append(j, e) \in Seq(ActionEvent) /\ Len(Append(j, e)) = Len(j) + 1
             /\ Append(j, e)[Len(j) + 1] = e /\ \A i \in 1 .. Len(j) : Append(j, e)[i] = j[i]
             /\ Append(j, e) # <<>>
  <2>1. j \in Seq(ActionEvent)
    BY <1>1, EmptyJournal DEF Blank, Queued, Running
  <2> QED
    BY <1>1, <2>1
<1>2. Blank(j) => Queued(Append(j, Submitted))
  BY <1>1, EventsDiffer DEF Blank, Queued
<1>3. Queued(j) => Running(Append(j, Started))
  BY <1>1, EventsDiffer DEF Queued, Running
<1>4. ASSUME NEW f \in Final, Queued(j) \/ Running(j)
      PROVE  /\ Over(Append(j, Terminal(f))) /\ DecodedResult(Append(j, Terminal(f))) = f
             /\ Running(j) => Began(Append(j, Terminal(f)))
  <2> DEFINE k == Append(j, Terminal(f))
  <2>1. /\ k \in Seq(ActionEvent) /\ Len(k) = Len(j) + 1 /\ k[Len(j) + 1] = Terminal(f)
        /\ \A i \in 1 .. Len(j) : k[i] = j[i]
        /\ k # <<>> /\ Terminal(f).final = f
    BY <1>1, <1>4, EventsDiffer
  <2> HIDE DEF k
  <2>2. k[1] = Submitted /\ Len(k) \in {2, 3} /\ k[Len(k)] = Terminal(f)
        /\ (Len(k) = 3 => k[2] = Started) /\ (Running(j) => Len(k) = 3)
    BY <1>4, <2>1 DEF Queued, Running
  <2>3. Over(k) /\ DecodedResult(k) = f /\ (Running(j) => Began(k))
    BY <2>1, <2>2 DEF Over, DecodedResult, Began
  <2> QED
    BY <2>3 DEF k
<1>5. (Running(j) => Began(j)) /\ (Blank(j) \/ Queued(j) => ~Began(j))
  BY DEF Blank, Queued, Running, Began
<1> QED
  BY <1>2, <1>3, <1>4, <1>5

\* What a restart makes of them.
LEMMA ShapesDecoded ==
    ASSUME NEW j
    PROVE  /\ Blank(j) => DecodedState(j) = "none" /\ DecodedResult(j) = "none"
           /\ Queued(j) => DecodedState(j) = "QUEUED" /\ DecodedResult(j) = "none"
           /\ Running(j) => DecodedState(j) = "RUNNING" /\ DecodedResult(j) = "none"
           /\ Over(j) => DecodedState(j) \in {"FINISHED", "CANCELLED"} /\ DecodedResult(j) \in Final
           /\ Over(j) => \E i \in DOMAIN j : j[i].type = "ACTION_TERMINAL"
<1>1. Blank(j) => DecodedState(j) = "none" /\ DecodedResult(j) = "none"
  BY DEF Blank, DecodedState, DecodedResult
<1>2. ASSUME Queued(j) PROVE DecodedState(j) = "QUEUED" /\ DecodedResult(j) = "none"
  <2>1. j[Len(j)] = Submitted
    BY <1>2 DEF Queued
  <2>2. j # <<>>
    BY <1>2, ShapesDiffer DEF Blank
  <2> QED
    BY <2>1, <2>2, EventsDiffer DEF DecodedState, DecodedResult, Final
<1>3. ASSUME Running(j) PROVE DecodedState(j) = "RUNNING" /\ DecodedResult(j) = "none"
  <2>1. j[Len(j)] = Started
    BY <1>3 DEF Running
  <2>2. j # <<>>
    BY <1>3, ShapesDiffer DEF Blank
  <2> QED
    BY <2>1, <2>2, EventsDiffer DEF DecodedState, DecodedResult, Final
<1>4. ASSUME Over(j)
      PROVE  /\ DecodedState(j) \in {"FINISHED", "CANCELLED"} /\ DecodedResult(j) \in Final
             /\ \E i \in DOMAIN j : j[i].type = "ACTION_TERMINAL"
  <2>1. PICK f \in Final : j[Len(j)] = Terminal(f)
    BY <1>4 DEF Over
  <2>2. j # <<>> /\ Len(j) \in DOMAIN j
    BY <1>4 DEF Over
  <2> QED
    BY <2>1, <2>2, EventsDiffer DEF DecodedState, DecodedResult
<1> QED
  BY <1>1, <1>2, <1>3, <1>4

-----------------------------------------------------------------------------
(* What a step may leave alone *)

\* The threads are finitely many.
LEMMA FlyingFinite == IsFiniteSet(Flying) /\ Cardinality(Flying) \in Nat
  BY ControlAssumption, FS_Subset, FS_CardinalityType DEF Flying

\* The bound on slots is a consequence of their conservation.
LEMMA InvariantTyped == IInv => TypeOK /\ SlotsConserved
<1>1. SlotInv => slots \in 0 .. QueueSize
  BY FlyingFinite, ControlAssumption DEF SlotInv
<1>2. SlotInv => SlotsConserved
  BY DEF SlotInv, SlotsConserved, Flying
<1> QED
  BY <1>1, <1>2 DEF IInv, Typed, TypeOK

\* What is pending is a set of actions, and they are known to a readable ledger.
LEMMA PendingKnown ==
    ASSUME Typed
    PROVE  /\ Pending \subseteq Action
           /\ RecoveryReadable => \A b \in Pending : journal[b] # <<>>
<1> DEFINE n == Len(recoveryLog)
<1>1. n \in Nat /\ DOMAIN recoveryLog = 1 .. n
  BY DEF Typed
<1>2. CASE n > 0 /\ recoveryLog[n].type = "RECOVERY_REQUIRED"
  <2>1. n \in DOMAIN recoveryLog /\ recoveryLog[n] \in RecoveryEvent
    BY <1>1, <1>2 DEF Typed
  <2>2. recoveryLog[n].ids \subseteq Action
    BY <2>1 DEF RecoveryEvent, Required, Acknowledged
  <2>3. Pending = recoveryLog[n].ids
    BY <1>1, <1>2 DEF Pending, PendingBefore
  <2>4. RecoveryReadable => \A b \in recoveryLog[n].ids : journal[b] # <<>>
    BY <1>2, <2>1 DEF RecoveryReadable
  <2> QED
    BY <2>2, <2>3, <2>4
<1>3. CASE ~(n > 0 /\ recoveryLog[n].type = "RECOVERY_REQUIRED")
  <2>1. Pending = {}
    BY <1>1, <1>3 DEF Pending, PendingBefore
  <2> QED
    BY <2>1
<1> QED
  BY <1>2, <1>3

\* Journals that only grow keep an unchanged review log readable.
LEMMA ReadableKept ==
    ASSUME Typed, recoveryLog' = recoveryLog,
           \A b \in Action : journal[b] # <<>> => journal'[b] # <<>>
    PROVE  Pending' = Pending /\ (RecoveryReadable => RecoveryReadable')
<1>1. Pending' = Pending
  BY DEF Pending, PendingBefore
<1>2. ASSUME RecoveryReadable PROVE RecoveryReadable'
  <2>1. ASSUME NEW i \in DOMAIN recoveryLog
        PROVE  /\ PendingBefore(i)' = PendingBefore(i)
               /\ recoveryLog[i].type = "RECOVERY_REQUIRED" =>
                     \A b \in recoveryLog[i].ids : journal'[b] # <<>>
    <3>1. recoveryLog[i].ids \subseteq Action
      <4>1. recoveryLog[i] \in RecoveryEvent
        BY DEF Typed
      <4> QED
        BY <4>1 DEF RecoveryEvent, Required, Acknowledged
    <3>2. PendingBefore(i)' = PendingBefore(i)
      BY DEF PendingBefore
    <3> QED
      BY <1>2, <3>1, <3>2 DEF RecoveryReadable
  <2> QED
    BY <1>2, <2>1 DEF RecoveryReadable
<1> QED
  BY <1>1, <1>2

\* One more event of a review, in order, keeps the log readable.
LEMMA ReadableGrows ==
    ASSUME Typed, journal' = journal, NEW e \in RecoveryEvent,
           recoveryLog' = Append(recoveryLog, e)
    PROVE  /\ recoveryLog' \in Seq(RecoveryEvent)
           /\ e.type = "RECOVERY_REQUIRED" => Pending' = e.ids
           /\ e.type = "RECOVERY_ACKNOWLEDGED" => Pending' = {}
           /\ recoveryLog' # recoveryLog
           /\ (/\ RecoveryReadable /\ e.ids # {}
               /\ e.type = "RECOVERY_REQUIRED" =>
                     Pending \subseteq e.ids /\ \A b \in e.ids : journal[b] # <<>>
               /\ e.type = "RECOVERY_ACKNOWLEDGED" => e.ids = Pending) => RecoveryReadable'
<1> DEFINE n == Len(recoveryLog)
<1>1. /\ n \in Nat /\ Len(recoveryLog') = n + 1 /\ recoveryLog' \in Seq(RecoveryEvent)
      /\ DOMAIN recoveryLog = 1 .. n /\ DOMAIN recoveryLog' = 1 .. (n + 1)
      /\ recoveryLog'[n + 1] = e /\ \A i \in 1 .. n : recoveryLog'[i] = recoveryLog[i]
  BY DEF Typed
<1> HIDE DEF n
<1>2. recoveryLog' # recoveryLog
  <2>1. n + 1 \in DOMAIN recoveryLog' /\ n + 1 \notin DOMAIN recoveryLog
    BY <1>1
  <2> QED
    BY <2>1
<1>3. Pending' = IF e.type = "RECOVERY_REQUIRED" THEN e.ids ELSE {}
  BY <1>1 DEF Pending, PendingBefore
<1>4. ASSUME NEW i \in 1 .. (n + 1) PROVE PendingBefore(i)' = PendingBefore(i)
  <2>1. i > 1 => i - 1 \in 1 .. n
    BY <1>1
  <2> QED
    BY <1>1, <2>1 DEF PendingBefore
<1>5. ASSUME RecoveryReadable, e.ids # {},
             e.type = "RECOVERY_REQUIRED" =>
                Pending \subseteq e.ids /\ \A b \in e.ids : journal[b] # <<>>,
             e.type = "RECOVERY_ACKNOWLEDGED" => e.ids = Pending
      PROVE  RecoveryReadable'
  <2>1. PendingBefore(n + 1) = Pending
    BY DEF Pending, n
  <2>2. ASSUME NEW i \in 1 .. (n + 1)
        PROVE  /\ recoveryLog'[i].ids # {}
               /\ recoveryLog'[i].type = "RECOVERY_REQUIRED" =>
                     /\ PendingBefore(i) \subseteq recoveryLog'[i].ids
                     /\ \A b \in recoveryLog'[i].ids : journal[b] # <<>>
               /\ recoveryLog'[i].type = "RECOVERY_ACKNOWLEDGED" =>
                     recoveryLog'[i].ids = PendingBefore(i)
    <3>1. CASE i = n + 1
      BY <1>1, <1>5, <2>1, <3>1
    <3>2. CASE i # n + 1
      <4>1. i \in 1 .. n /\ recoveryLog'[i] = recoveryLog[i]
        BY <1>1, <3>2
      <4> QED
        BY <1>1, <1>5, <4>1 DEF RecoveryReadable
    <3> QED
      BY <3>1, <3>2
  <2> QED
    BY <1>1, <1>4, <2>2 DEF RecoveryReadable
<1> QED
  BY <1>1, <1>2, <1>3, <1>5

\* An append that raises is counted, or the handle has failed before.
LEMMA FaultCounted ==
    ASSUME Typed, HealthInv, AppendFails
    PROVE  /\ handle' \in {"open", "failed"}
           /\ faults' \in 0 .. MaxFaults /\ faults' # 0
  BY ControlAssumption DEF Typed, HealthInv, AppendFails

\* The same of an append whose failure is noted.
LEMMA FaultNoted ==
    ASSUME Typed, HealthInv, Fault
    PROVE  /\ handle' \in {"open", "failed"} /\ ledgerFailed' \in BOOLEAN
           /\ faults' \in 0 .. MaxFaults /\ faults' # 0
  BY FaultCounted DEF Fault

\* Withdrawing permits yields permits, and one that was consumed stays spent.
LEMMA WithdrawnPermits ==
    ASSUME Typed, NEW actions
    PROVE  /\ Withdrawn(actions) \in [Action -> PermitState]
           /\ \A a \in Action : permit[a] \in Spent => Withdrawn(actions)[a] \in Spent
  BY DEF Typed, Withdrawn, PermitState, Usable, Spent

\* What an append to the journal of one action does, whether or not it raises.
LEMMA AppendOutcome ==
    ASSUME Typed, HealthInv, NEW a \in Action, NEW e \in ActionEvent, JournalledOrNoted(a, e)
    PROVE  /\ journal' \in [Action -> Seq(ActionEvent)]
           /\ handle' \in {"open", "failed"} /\ ledgerFailed' \in BOOLEAN
           /\ faults' \in 0 .. MaxFaults
           /\ faults' = 0 => faults = 0 /\ handle' = "open" /\ journal' # journal
           /\ \A b \in Action : b # a => journal'[b] = journal[b]
           /\ journal'[a] = journal[a] \/ journal'[a] = Append(journal[a], e)
           /\ Journalled(a, e) => journal'[a] = Append(journal[a], e)
<1> DEFINE grown == [journal EXCEPT ![a] = Append(@, e)]
<1>1. /\ grown \in [Action -> Seq(ActionEvent)] /\ grown[a] = Append(journal[a], e)
      /\ \A b \in Action : b # a => grown[b] = journal[b]
  BY DEF Typed
<1>2. grown # journal
  <2>1. Len(grown[a]) # Len(journal[a])
    BY <1>1 DEF Typed
  <2> QED
    BY <2>1
<1>3. CASE Journalled(a, e)
  <2>1. /\ journal' = grown /\ handle = "open"
        /\ handle' = handle /\ ledgerFailed' = ledgerFailed /\ faults' = faults
    BY <1>3 DEF Journalled, health
  <2> HIDE DEF grown
  <2> QED
    BY <1>1, <1>2, <2>1 DEF Typed
<1>4. CASE JournalRaises(a, e)
  <2>1. Fault /\ (journal' = journal \/ journal' = grown)
    BY <1>4 DEF JournalRaises, Raises
  <2>2. Journalled(a, e) => journal' = grown
    BY DEF Journalled
  <2> HIDE DEF grown
  <2> QED
    BY <1>1, <2>1, <2>2, FaultNoted DEF Typed
<1> QED
  BY <1>3, <1>4 DEF JournalledOrNoted

-----------------------------------------------------------------------------
(* Steps that leave every job where it is *)

\* What such a step leaves alone.
Quiet ==
    /\ UNCHANGED <<journal, recoveryLog, sched, pc, result, override, slots, dispatched,
                   unknown, reviewed, recovery>>
    /\ up' = up \/ (up = "running" /\ up' = "closing")
    /\ \A a \in Action : permit[a] \in Spent => permit'[a] \in Spent
    /\ faults' = 0 => faults = 0 /\ handle' = "open"
    /\ toEnd' \subseteq toEnd
    /\ up \in {"down", "starting"} => losing' = losing

\* Such a step keeps the invariant.
LEMMA QuietKeeps ==
    ASSUME IInv, Typed', Quiet
    PROVE  IInv'
<1> USE DEF IInv
<1>1. JobInv'
  BY DEF JobInv, JobOK, Quiet
<1>2. BootInv'
  BY DEF BootInv, Quiet
<1>3. SlotInv'
  BY DEF SlotInv, Flying, Quiet
<1>4. DispatchInv'
  BY DEF DispatchInv, DispatchOK, Quiet
<1>5. Pending' = Pending /\ (RecoveryReadable => RecoveryReadable')
  BY ReadableKept DEF Quiet
<1>6. ReviewInv'
  BY <1>5 DEF ReviewInv, Quiet, Typed
<1>7. HealthInv'
  BY <1>5 DEF HealthInv, Quiet
<1>8. OverrideInv'
  BY DEF OverrideInv, OverrideOK, Quiet
<1>9. MissingInv'
  BY DEF MissingInv, MissingOK, OutcomeMissing, Quiet
<1> QED
  BY <1>1, <1>2, <1>3, <1>4, <1>6, <1>7, <1>8, <1>9

\* A failing append that carries no job moves no job.
LEMMA LedgerFaultStep ==
    ASSUME IInv, LedgerFault
    PROVE  IInv'
<1> USE DEF IInv
<1>1. Typed'
  BY FaultNoted, ControlAssumption DEF Typed, LedgerFault, durable, marks, jobs, sessions,
     safety, history, health
<1>2. Quiet
  BY FaultNoted DEF Typed, HealthInv, BootInv, Quiet, LedgerFault, durable, marks, jobs,
     sessions, safety, history, health
<1> QED
  BY <1>1, <1>2, QuietKeeps

\* arm_runtime moves no job.
LEMMA ArmStep ==
    ASSUME IInv, Arm
    PROVE  IInv'
<1> USE DEF IInv
<1>1. Typed'
  BY ControlAssumption DEF Typed, Arm, durable, marks, jobs, sessions, safety, history,
     health
<1>2. Quiet
  BY DEF Typed, HealthInv, BootInv, Quiet, Arm, durable, marks, jobs, sessions, safety,
     history, health
<1> QED
  BY <1>1, <1>2, QuietKeeps

\* emergency_stop moves no job.
LEMMA EmergencyStopStep ==
    ASSUME IInv, EmergencyStop
    PROVE  IInv'
<1> USE DEF IInv
<1>1. Typed'
  BY ControlAssumption DEF Typed, EmergencyStop, durable, marks, jobs, sessions, safety,
     history, health
<1>2. Quiet
  BY DEF Typed, HealthInv, BootInv, Quiet, EmergencyStop, durable, marks, jobs, sessions,
     safety, history, health
<1> QED
  BY <1>1, <1>2, QuietKeeps

\* The latch of the Runtime moves no job.
LEMMA LatchStep ==
    ASSUME IInv, Latch
    PROVE  IInv'
<1> USE DEF IInv
<1>1. Typed'
  BY ControlAssumption DEF Typed, Latch, durable, marks, jobs, sessions, safety, history,
     health
<1>2. Quiet
  BY DEF Typed, HealthInv, BootInv, Quiet, Latch, durable, marks, jobs, sessions, safety,
     history, health
<1> QED
  BY <1>1, <1>2, QuietKeeps

\* close moves no job.
LEMMA CloseStep ==
    ASSUME IInv, Close
    PROVE  IInv'
<1> USE DEF IInv
<1>1. Typed'
  BY ControlAssumption DEF Typed, Close, durable, marks, jobs, sessions, safety, history,
     health
<1>2. Quiet
  BY DEF Typed, HealthInv, BootInv, Quiet, Close, durable, marks, jobs, sessions, safety,
     history, health
<1> QED
  BY <1>1, <1>2, QuietKeeps

\* create_session moves no job.
LEMMA CreateSessionStep ==
    ASSUME IInv, NEW s \in Session, CreateSession(s)
    PROVE  IInv'
<1> USE DEF IInv
<1>1. Typed'
  BY ControlAssumption DEF Typed, CreateSession, durable, marks, jobs, sessions, safety,
     history, health
<1>2. Quiet
  BY DEF Typed, HealthInv, BootInv, Quiet, CreateSession, durable, marks, jobs, sessions,
     safety, history, health
<1> QED
  BY <1>1, <1>2, QuietKeeps

\* The end of a session moves no job.
LEMMA EndSessionStep ==
    ASSUME IInv, NEW s \in Session, EndSession(s)
    PROVE  IInv'
<1> USE DEF IInv
<1>1. Typed'
  <2>1. session' \in [Session -> {"none", "ACTIVE", "LOST", "CLOSED"}]
    <3>1. session' = session \/ \E x \in {"CLOSED", "LOST"} : session' = [session EXCEPT ![s] = x]
      BY DEF EndSession
    <3> QED
      BY <3>1 DEF Typed
  <2>2. losing' \in [Session -> {"no", "revoke", "mark"}]
    BY DEF Typed, EndSession
  <2> QED
    BY <2>1, <2>2, ControlAssumption DEF Typed, EndSession, durable, marks, jobs, sessions,
       safety, history, health
<1>2. Quiet
  BY DEF Typed, HealthInv, BootInv, Quiet, EndSession, durable, marks, jobs, sessions,
     safety, history, health
<1> QED
  BY <1>1, <1>2, QuietKeeps

\* A loss nobody handles moves no job.
LEMMA LoseSessionUnhandledStep ==
    ASSUME IInv, NEW s \in Session, LoseSessionUnhandled(s)
    PROVE  IInv'
<1> USE DEF IInv
<1>1. Typed'
  BY ControlAssumption DEF Typed, LoseSessionUnhandled, durable, marks, jobs, sessions,
     safety, history, health
<1>2. Quiet
  BY DEF Typed, HealthInv, BootInv, Quiet, LoseSessionUnhandled, durable, marks, jobs,
     sessions, safety, history, health
<1> QED
  BY <1>1, <1>2, QuietKeeps

\* The revocation of the permits of a lost session moves no job.
LEMMA RevokeSessionStep ==
    ASSUME IInv, NEW s \in Session, RevokeSession(s)
    PROVE  IInv'
<1> USE DEF IInv
<1>1. Typed'
  <2>1. permit' \in [Action -> PermitState]
    <3>1. permit' = permit \/ \E gone : permit' = Withdrawn(gone)
      BY DEF RevokeSession
    <3> QED
      BY <3>1, WithdrawnPermits DEF Typed
  <2>2. losing' \in [Session -> {"no", "revoke", "mark"}]
    BY DEF Typed, RevokeSession
  <2>3. UNCHANGED health \/ Fault
    BY DEF RevokeSession
  <2> QED
    BY <2>1, <2>2, <2>3, FaultNoted DEF Typed, RevokeSession, durable, marks, jobs, sessions,
       safety, history, health
<1>2. \A a \in Action : permit[a] \in Spent => permit'[a] \in Spent
  <2>1. permit' = permit \/ \E gone : permit' = Withdrawn(gone)
    BY DEF RevokeSession
  <2> QED
    BY <2>1, WithdrawnPermits
<1>3. Quiet
  BY <1>2, FaultNoted DEF Typed, HealthInv, BootInv, Quiet, RevokeSession, durable, marks, jobs,
     sessions, safety, history, health
<1> QED
  BY <1>1, <1>3, QuietKeeps

\* _issue_permit_core moves no job.
LEMMA IssuePermitStep ==
    ASSUME IInv, NEW a \in Action, IssuePermit(a)
    PROVE  IInv'
<1> USE DEF IInv
<1>1. /\ permit' \in [Action -> PermitState]
      /\ \A b \in Action : permit[b] \in Spent => permit'[b] \in Spent
  <2>1. \/ permit' = permit
        \/ permit[a] = "consumed" /\ permit' = [permit EXCEPT ![a] = "renewed"]
        \/ permit[a] \notin Spent /\ permit' = [permit EXCEPT ![a] = "active"]
    BY DEF Typed, IssuePermit, Usable, Spent
  <2> QED
    BY <2>1 DEF Typed, PermitState, Spent
<1>2. Typed'
  BY <1>1, FaultNoted, ControlAssumption DEF Typed, IssuePermit, durable, marks, jobs, sessions,
     safety, history, health
<1>3. Quiet
  BY <1>1, FaultNoted DEF Typed, HealthInv, BootInv, Quiet, IssuePermit, durable, marks, jobs,
     sessions, safety, history, health
<1> QED
  BY <1>2, <1>3, QuietKeeps

\* A deadline moves no job.
LEMMA DeadlinePassesStep ==
    ASSUME IInv, NEW a \in Action, DeadlinePasses(a)
    PROVE  IInv'
<1> USE DEF IInv
<1>1. Typed'
  BY ControlAssumption DEF Typed, DeadlinePasses, durable, marks, jobs, sessions, safety,
     history, health
<1>2. Quiet
  BY DEF Typed, HealthInv, BootInv, Quiet, DeadlinePasses, durable, marks, jobs, sessions,
     safety, history, health
<1> QED
  BY <1>1, <1>2, QuietKeeps

\* _stop_overridden_action moves no job.
LEMMA StopRunningStep ==
    ASSUME IInv, NEW a \in Action, StopRunning(a)
    PROVE  IInv'
<1> USE DEF IInv
<1>1. Typed'
  BY ControlAssumption DEF Typed, StopRunning, StopOverridden, durable, marks, jobs,
     sessions, safety, history, health
<1>2. Quiet
  BY DEF Typed, HealthInv, BootInv, Quiet, StopRunning, durable, marks, jobs, sessions,
     safety, history, health
<1> QED
  BY <1>1, <1>2, QuietKeeps

-----------------------------------------------------------------------------
(* Steps of one job that is with its thread *)

\* Nothing of any other job changes, and nothing is forgotten.
JobStep(a) ==
    /\ pc[a] \in InFlight
    /\ \A b \in Action : b # a =>
          /\ journal'[b] = journal[b] /\ sched'[b] = sched[b] /\ pc'[b] = pc[b]
          /\ result'[b] = result[b] /\ override'[b] = override[b]
          /\ dispatched'[b] = dispatched[b] /\ permit'[b] = permit[b]
    /\ UNCHANGED <<recoveryLog, up, losing, unknown, reviewed>>
    /\ toEnd' \subseteq toEnd
    /\ recovery \subseteq recovery'
    /\ faults' = 0 => faults = 0 /\ handle' = "open" /\ recovery' = recovery
    /\ ~Blank(journal'[a])
    /\ \/ pc'[a] \in InFlight /\ slots' = slots
       \/ pc'[a] = "idle" /\ slots' = slots + 1

\* A job with a thread belongs to a daemon that serves.
LEMMA ThreadsServe ==
    ASSUME IInv, NEW a \in Action, pc[a] \in InFlight
    PROVE  up \in {"running", "closing"} /\ "idle" \notin InFlight
  BY DEF IInv, BootInv, Typed, InFlight

\* Such a step keeps the invariant when it keeps it for its own job.
LEMMA JobStepKeeps ==
    ASSUME IInv, Typed', NEW a \in Action, JobStep(a),
           JobOK(a)', DispatchOK(a)', OverrideOK(a)', MissingOK(a)'
    PROVE  IInv'
<1> USE DEF IInv
<1>0. up' \in {"running", "closing"} /\ up' = up /\ "idle" \notin InFlight
  BY ThreadsServe DEF JobStep
<1>1. JobInv'
  <2>1. ASSUME NEW b \in Action, b # a PROVE JobOK(b)'
    BY <2>1 DEF JobInv, JobOK, JobStep
  <2> QED
    BY <2>1 DEF JobInv
<1>2. BootInv'
  BY <1>0 DEF BootInv
<1>3. SlotInv'
  <2>1. CASE pc'[a] \in InFlight /\ slots' = slots
    <3>1. Flying' = Flying
      BY <2>1 DEF Flying, JobStep
    <3> QED
      BY <2>1, <3>1 DEF SlotInv
  <2>2. CASE pc'[a] = "idle" /\ slots' = slots + 1
    <3>1. Flying' = Flying \ {a} /\ a \in Flying
      BY <1>0, <2>2 DEF Flying, JobStep
    <3>2. Cardinality(Flying') = Cardinality(Flying) - 1
      BY <3>1, FlyingFinite, FS_RemoveElement
    <3> QED
      BY <2>2, <3>2, FlyingFinite, ControlAssumption DEF SlotInv
  <2> QED
    BY <2>1, <2>2 DEF JobStep
<1>4. DispatchInv'
  <2>1. ASSUME NEW b \in Action, b # a PROVE DispatchOK(b)'
    BY <2>1 DEF DispatchInv, DispatchOK, JobStep
  <2> QED
    BY <2>1 DEF DispatchInv
<1>5. Pending' = Pending /\ (RecoveryReadable => RecoveryReadable')
  BY ReadableKept DEF JobStep, Blank
<1>6. ReviewInv'
  <2>1. \A b \in unknown : b \in Action /\ b # a
    BY <1>0, ControlAssumption DEF ReviewInv, JobStep, Typed
  <2> QED
    BY <1>0, <1>5, <2>1, ControlAssumption DEF ReviewInv, JobStep
<1>7. HealthInv'
  BY <1>5 DEF HealthInv, JobStep
<1>8. OverrideInv'
  <2>1. ASSUME NEW b \in Action, b # a PROVE OverrideOK(b)'
    BY <2>1 DEF OverrideInv, OverrideOK, JobStep
  <2> QED
    BY <2>1 DEF OverrideInv
<1>9. MissingInv'
  <2>1. ASSUME NEW b \in Action, b # a PROVE MissingOK(b)'
    <3>1. b \in OutcomeMissing' => b \in OutcomeMissing
      BY <2>1 DEF OutcomeMissing, JobStep
    <3>2. MissingOK(b)
      BY <1>0 DEF MissingInv
    <3> QED
      BY <2>1, <3>1, <3>2 DEF MissingOK, JobStep
  <2> QED
    BY <2>1 DEF MissingInv
<1> QED
  BY <1>1, <1>2, <1>3, <1>4, <1>6, <1>7, <1>8, <1>9

\* A waiting job is queued and was never dispatched; a working one is running.
LEMMA JobFacts ==
    ASSUME IInv, NEW a \in Action
    PROVE  /\ pc[a] \in Waiting =>
                 sched[a] = "QUEUED" /\ Queued(journal[a]) /\ dispatched[a] = 0
           /\ pc[a] \in Working => sched[a] = "RUNNING" /\ Running(journal[a])
           /\ pc[a] \in InFlight => ~Blank(journal[a])
<1>1. JobOK(a) /\ DispatchOK(a) /\ dispatched[a] \in Nat
  BY DEF IInv, JobInv, DispatchInv, Typed
<1>2. pc[a] \in Waiting => sched[a] = "QUEUED" /\ Queued(journal[a]) /\ dispatched[a] = 0
  BY <1>1 DEF JobOK, DispatchOK
<1>3. pc[a] \in Working => sched[a] = "RUNNING" /\ Running(journal[a])
  BY <1>1 DEF JobOK
<1> QED
  BY <1>2, <1>3, ShapesDiffer DEF Working

\* The pool takes the future of an action.
LEMMA PickStep ==
    ASSUME IInv, NEW a \in Action, Pick(a)
    PROVE  IInv'
<1> USE DEF IInv
<1>1. pc[a] = "pending" /\ pc[a] \in InFlight /\ pc'[a] \in InFlight
  BY DEF Typed, Pick, Goto, InFlight
<1>2. Typed'
  BY DEF Typed, Pick, Goto, durable, marks, jobs, sessions, safety, history, health,
     InFlight, Final
<1>3. JobStep(a)
  BY <1>1, JobFacts DEF Typed, HealthInv, JobStep, Pick, Goto, durable, marks, jobs,
     sessions, safety, history, health
<1>4. JobOK(a)'
  BY <1>1, JobFacts DEF Typed, JobInv, JobOK, Pick, Goto, durable, marks, jobs, sessions,
     safety, history, health, InFlight, Waiting, Working, Final
<1>5. DispatchOK(a)'
  BY <1>1, JobFacts, ShapesGrow DEF Typed, DispatchInv, DispatchOK, Pick, Goto, durable,
     marks, jobs, sessions, safety, history, health, InFlight, Waiting, Working
<1>6. OverrideOK(a)'
  BY <1>1, JobFacts DEF Typed, OverrideOK, Pick, Goto, durable, marks, jobs, sessions,
     safety, history, health, InFlight, Waiting, Working
<1>7. MissingOK(a)'
  BY <1>1 DEF MissingOK
<1> QED
  BY <1>2, <1>3, <1>4, <1>5, <1>6, <1>7, JobStepKeeps

\* The permit authority answers the thread of an action.
LEMMA AuthorizeStep ==
    ASSUME IInv, NEW a \in Action, Authorize(a)
    PROVE  IInv'
<1> USE DEF IInv
<1>1. pc[a] = "started" /\ pc[a] \in InFlight /\ pc'[a] \in InFlight
  BY DEF Typed, Authorize, Goto, Refuse, InFlight
<1>2. Typed'
  <2>1. pc' \in [Action -> {"idle"} \cup InFlight]
    <3>1. \E x \in InFlight : pc' = [pc EXCEPT ![a] = x]
      BY DEF Authorize, Goto, Refuse, InFlight
    <3> QED
      BY <3>1 DEF Typed
  <2>2. result' \in [Action -> Final \cup {"none"}]
    BY DEF Typed, Authorize, Refuse, Final
  <2>3. permit' \in [Action -> PermitState]
    <3>1. permit' = permit \/ permit' = [permit EXCEPT ![a] = "consumed"]
      BY DEF Authorize
    <3> QED
      BY <3>1 DEF Typed, PermitState
  <2>4. handle' \in {"open", "failed"} /\ ledgerFailed' \in BOOLEAN /\ faults' \in 0 .. MaxFaults
    <3>1. \/ UNCHANGED health
          \/ AppendFails /\ (ledgerFailed' = TRUE \/ UNCHANGED ledgerFailed)
      BY DEF Authorize
    <3> QED
      BY <3>1, FaultCounted DEF Typed, health
  <2> QED
    BY <2>1, <2>2, <2>3, <2>4 DEF Typed, Authorize, durable, marks, jobs, sessions, safety,
       history, health
<1>3. JobStep(a)
  BY <1>1, JobFacts, FaultCounted DEF Typed, HealthInv, JobStep, Authorize, Goto, Refuse,
     durable, marks, jobs, sessions, safety, history, health
<1>4. JobOK(a)'
  BY <1>1, JobFacts DEF Typed, JobInv, JobOK, Authorize, Goto, Refuse, durable, marks, jobs,
     sessions, safety, history, health, InFlight, Waiting, Working, Final
<1>5. DispatchOK(a)'
  BY <1>1, JobFacts, ShapesGrow DEF Typed, DispatchInv, DispatchOK, Authorize, Goto, Refuse,
     durable, marks, jobs, sessions, safety, history, health, InFlight, Waiting, Working,
     Usable, Spent
<1>6. OverrideOK(a)'
  BY <1>1, JobFacts DEF Typed, OverrideOK, Authorize, Goto, Refuse, durable, marks, jobs,
     sessions, safety, history, health, InFlight, Waiting, Working
<1>7. MissingOK(a)'
  BY <1>1 DEF MissingOK
<1> QED
  BY <1>2, <1>3, <1>4, <1>5, <1>6, <1>7, JobStepKeeps

\* The Runtime accepts or refuses an action.
LEMMA SubmitStep ==
    ASSUME IInv, NEW a \in Action, Submit(a)
    PROVE  IInv'
<1> USE DEF IInv
<1>1. pc[a] = "authorized" /\ pc[a] \in InFlight /\ pc'[a] \in InFlight
  BY DEF Typed, Submit, Goto, Refuse, InFlight
<1>2. Typed'
  <2>1. pc' \in [Action -> {"idle"} \cup InFlight]
    <3>1. \E x \in InFlight : pc' = [pc EXCEPT ![a] = x]
      BY DEF Submit, Goto, Refuse, InFlight
    <3> QED
      BY <3>1 DEF Typed
  <2>2. result' \in [Action -> Final \cup {"none"}]
    BY DEF Typed, Submit, Refuse, Final
  <2> QED
    BY <2>1, <2>2 DEF Typed, Submit, durable, marks, jobs, sessions, safety, history, health
<1>3. JobStep(a)
  BY <1>1, JobFacts DEF Typed, HealthInv, JobStep, Submit, Goto, Refuse, durable, marks,
     jobs, sessions, safety, history, health
<1>4. JobOK(a)'
  BY <1>1, JobFacts DEF Typed, JobInv, JobOK, Submit, Goto, Refuse, durable, marks, jobs,
     sessions, safety, history, health, InFlight, Waiting, Working, Final
<1>5. DispatchOK(a)'
  BY <1>1, JobFacts, ShapesGrow DEF Typed, DispatchInv, DispatchOK, Submit, Goto, Refuse,
     durable, marks, jobs, sessions, safety, history, health, InFlight, Waiting, Working
<1>6. OverrideOK(a)'
  BY <1>1, JobFacts DEF Typed, OverrideOK, Submit, Goto, Refuse, durable, marks, jobs,
     sessions, safety, history, health, InFlight, Waiting, Working
<1>7. MissingOK(a)'
  BY <1>1 DEF MissingOK
<1> QED
  BY <1>2, <1>3, <1>4, <1>5, <1>6, <1>7, JobStepKeeps

\* The gateway rejects an action or calls its executor.
LEMMA DispatchStep ==
    ASSUME IInv, NEW a \in Action, Dispatch(a)
    PROVE  IInv'
<1> USE DEF IInv
<1>1. pc[a] = "submitted" /\ pc[a] \in InFlight /\ pc'[a] \in InFlight
  BY DEF Typed, Dispatch, Goto, Refuse, InFlight
<1>2. Typed'
  <2>1. pc' \in [Action -> {"idle"} \cup InFlight]
    <3>1. \E x \in InFlight : pc' = [pc EXCEPT ![a] = x]
      BY DEF Dispatch, Goto, Refuse, InFlight
    <3> QED
      BY <3>1 DEF Typed
  <2>2. result' \in [Action -> Final \cup {"none"}]
    BY DEF Typed, Dispatch, Refuse, Final
  <2>3. dispatched' \in [Action -> Nat]
    <3>1. dispatched' = dispatched \/ dispatched' = [dispatched EXCEPT ![a] = @ + 1]
      BY DEF Dispatch
    <3>2. dispatched[a] + 1 \in Nat
      BY DEF Typed
    <3> QED
      BY <3>1, <3>2 DEF Typed
  <2> QED
    BY <2>1, <2>2, <2>3 DEF Typed, Dispatch, durable, marks, jobs, sessions, safety,
       history, health
<1>3. JobStep(a)
  BY <1>1, JobFacts DEF Typed, HealthInv, JobStep, Dispatch, Goto, Refuse, durable, marks,
     jobs, sessions, safety, history, health
<1>4. JobOK(a)'
  BY <1>1, JobFacts DEF Typed, JobInv, JobOK, Dispatch, Goto, Refuse, durable, marks, jobs,
     sessions, safety, history, health, InFlight, Waiting, Working, Final
<1>5. DispatchOK(a)'
  <2>1. DispatchOK(a) /\ dispatched[a] \in Nat
    BY DEF DispatchInv, Typed
  <2>2. dispatched[a] = 0 /\ (a \in Real => permit[a] \in Spent)
    BY <1>1, <2>1 DEF DispatchOK
  <2>3. Began(journal[a])
    BY <1>1, JobFacts, ShapesGrow DEF InFlight, Waiting, Working
  <2>4. journal' = journal /\ permit' = permit /\ dispatched'[a] \in {0, 1}
    BY <2>2 DEF Typed, Dispatch, Refuse, durable
  <2>5. pc'[a] \in {"returned", "executing"}
    BY DEF Typed, Dispatch, Goto, Refuse
  <2> QED
    BY <2>2, <2>3, <2>4, <2>5 DEF DispatchOK, Waiting
<1>6. OverrideOK(a)'
  BY <1>1, JobFacts DEF Typed, OverrideOK, Dispatch, Goto, Refuse, durable, marks, jobs,
     sessions, safety, history, health, InFlight, Waiting, Working
<1>7. MissingOK(a)'
  BY <1>1 DEF MissingOK
<1> QED
  BY <1>2, <1>3, <1>4, <1>5, <1>6, <1>7, JobStepKeeps

\* The executor returns.
LEMMA ReturnStep ==
    ASSUME IInv, NEW a \in Action, Return(a)
    PROVE  IInv'
<1> USE DEF IInv
<1>1. pc[a] = "executing" /\ pc[a] \in InFlight /\ pc'[a] \in InFlight
  BY DEF Typed, Return, Goto, Refuse, InFlight
<1>2. Typed'
  BY DEF Typed, Return, Goto, Refuse, durable, marks, jobs, sessions, safety, history,
     health, InFlight, Final
<1>3. JobStep(a)
  BY <1>1, JobFacts DEF Typed, HealthInv, JobStep, Return, Goto, Refuse, durable, marks,
     jobs, sessions, safety, history, health
<1>4. JobOK(a)'
  BY <1>1, JobFacts DEF Typed, JobInv, JobOK, Return, Goto, Refuse, durable, marks, jobs,
     sessions, safety, history, health, InFlight, Waiting, Working, Final
<1>5. DispatchOK(a)'
  BY <1>1, JobFacts, ShapesGrow DEF Typed, DispatchInv, DispatchOK, Return, Goto, Refuse,
     durable, marks, jobs, sessions, safety, history, health, InFlight, Waiting, Working
<1>6. OverrideOK(a)'
  BY <1>1, JobFacts DEF Typed, OverrideOK, Return, Goto, Refuse, durable, marks, jobs,
     sessions, safety, history, health, InFlight, Waiting, Working
<1>7. MissingOK(a)'
  BY <1>1 DEF MissingOK
<1> QED
  BY <1>2, <1>3, <1>4, <1>5, <1>6, <1>7, JobStepKeeps

\* The thread looks for an override.
LEMMA CheckOverrideStep ==
    ASSUME IInv, NEW a \in Action, CheckOverride(a)
    PROVE  IInv'
<1> USE DEF IInv
<1>1. pc[a] = "returned" /\ pc[a] \in InFlight /\ pc'[a] \in InFlight
  BY DEF Typed, CheckOverride, Goto, StopOverridden, InFlight
<1>2. Typed'
  <2>1. pc' \in [Action -> {"idle"} \cup InFlight]
    BY DEF Typed, CheckOverride, Goto, Refuse, InFlight
  <2>2. /\ stopRequested' \subseteq Action /\ stopping' \in BOOLEAN
        /\ supervision' \in {"DISARMED", "ARMED", "ESTOPPED", "STOPPING"}
    <3>1. CASE UNCHANGED <<stopRequested, supervision, stopping>>
      BY <3>1 DEF Typed
    <3>2. CASE StopOverridden(a)
      BY <3>2 DEF Typed, StopOverridden
    <3> QED
      BY <3>1, <3>2 DEF CheckOverride
  <2> QED
    BY <2>1, <2>2 DEF Typed, CheckOverride, durable, marks, jobs, sessions, safety, history,
       health
<1>3. JobStep(a)
  BY <1>1, JobFacts DEF Typed, HealthInv, JobStep, CheckOverride, Goto, StopOverridden,
     durable, marks, jobs, sessions, safety, history, health
<1>4. JobOK(a)'
  BY <1>1, JobFacts DEF Typed, JobInv, JobOK, CheckOverride, Goto, StopOverridden, durable,
     marks, jobs, sessions, safety, history, health, InFlight, Waiting, Working, Final
<1>5. DispatchOK(a)'
  BY <1>1, JobFacts, ShapesGrow DEF Typed, DispatchInv, DispatchOK, CheckOverride, Goto,
     StopOverridden, durable, marks, jobs, sessions, safety, history, health, InFlight,
     Waiting, Working
<1>6. OverrideOK(a)'
  BY <1>1, JobFacts DEF Typed, OverrideOK, CheckOverride, Goto, StopOverridden, durable,
     marks, jobs, sessions, safety, history, health, InFlight, Waiting, Working
<1>7. MissingOK(a)'
  BY <1>1 DEF MissingOK
<1> QED
  BY <1>2, <1>3, <1>4, <1>5, <1>6, <1>7, JobStepKeeps

-----------------------------------------------------------------------------
(* Steps that end a job *)

\* The future of a is done with receipt r, and event e was to be recorded.
Ending(a, state, r, e) ==
    /\ pc[a] \in InFlight
    /\ Finish(a, state, r)
    /\ JournalledOrNoted(a, e)
    /\ override' \in [Action -> {"none", "TIMED_OUT", "ORPHANED"}]
    /\ \A b \in Action : b # a => override'[b] = override[b]
    /\ UNCHANGED <<recoveryLog, permit, up, sessionLost, stopRequested, toStop, session, losing,
                   supervision, stopping, late, dispatched, history>>
    /\ toEnd' \subseteq toEnd
    /\ latched' \in BOOLEAN
    /\ recovery \subseteq recovery' /\ recovery' \subseteq Action
    /\ faults' = 0 => recovery' = recovery

\* Such a step keeps the invariant, if the receipt respects the override and a REAL
\* receipt that may be lost is put under review.
LEMMA EndingKeeps ==
    ASSUME IInv, NEW a \in Action, NEW state \in {"FINISHED", "CANCELLED"}, NEW r \in Final,
           NEW e \in ActionEvent, Ending(a, state, r, e), NEW f \in Final,
           e = Terminal(f) \/ (e = Started /\ pc[a] = "picked"),
           override'[a] # "none" /\ state = "FINISHED" =>
              r \in {override'[a], "FAILED"} /\ f # "COMPLETED",
           dispatched[a] = 0 \/ (Journalled(a, e) /\ e = Terminal(f))
              \/ (a \in Real => a \in recovery')
    PROVE  IInv'
<1> USE DEF IInv
<1>1. /\ journal' \in [Action -> Seq(ActionEvent)]
      /\ handle' \in {"open", "failed"} /\ ledgerFailed' \in BOOLEAN
      /\ faults' \in 0 .. MaxFaults
      /\ faults' = 0 => faults = 0 /\ handle' = "open"
      /\ \A b \in Action : b # a => journal'[b] = journal[b]
      /\ journal'[a] = journal[a] \/ journal'[a] = Append(journal[a], e)
      /\ Journalled(a, e) => journal'[a] = Append(journal[a], e)
  BY AppendOutcome DEF Ending
<1>2. /\ sched' \in [Action -> {"none", "QUEUED", "RUNNING", "FINISHED", "CANCELLED"}]
      /\ result' \in [Action -> Final \cup {"none"}] /\ pc' \in [Action -> {"idle"} \cup InFlight]
      /\ sched'[a] = state /\ result'[a] = r /\ pc'[a] = "idle" /\ slots' = slots + 1
      /\ \A b \in Action : b # a =>
            sched'[b] = sched[b] /\ result'[b] = result[b] /\ pc'[b] = pc[b]
  BY DEF Ending, Finish, Typed
<1>3. Typed'
  BY <1>1, <1>2, ControlAssumption DEF Typed, Ending, history
<1>4. /\ Queued(journal[a]) \/ Running(journal[a])
      /\ e = Started => Queued(journal[a])
      /\ "idle" \notin InFlight
      /\ pc[a] \in InFlight
  BY JobFacts, EventsDiffer DEF Ending, InFlight, Waiting, Working
<1>5. /\ Queued(journal'[a]) \/ Running(journal'[a]) \/ Over(journal'[a])
      /\ Began(journal[a]) => Began(journal'[a])
      /\ DecodedResult(journal'[a]) \in {"none", f}
  <2>1. CASE journal'[a] = journal[a]
    BY <1>4, <2>1, ShapesDecoded
  <2>2. CASE e = Started /\ journal'[a] = Append(journal[a], e)
    <3>1. Queued(journal[a]) /\ Running(journal'[a])
      BY <1>4, <2>2, ShapesGrow
    <3> QED
      BY <3>1, ShapesDecoded, ShapesGrow
  <2>3. CASE e = Terminal(f) /\ journal'[a] = Append(journal[a], e)
    BY <1>4, <2>3, ShapesGrow
  <2> QED
    BY <1>1, <2>1, <2>2, <2>3
<1>6. ~Blank(journal'[a])
  BY <1>5, ShapesDiffer
<1>7. JobStep(a)
  BY <1>1, <1>2, <1>4, <1>6 DEF JobStep, Ending, history
<1>8. JobOK(a)'
  BY <1>2, <1>4, <1>5, <1>6 DEF JobOK, Waiting, Working
<1>9. DispatchOK(a)'
  <2>1. DispatchOK(a)
    BY DEF DispatchInv
  <2>2. permit' = permit /\ dispatched' = dispatched
    BY DEF Ending
  <2> QED
    BY <1>2, <1>5, <2>1, <2>2 DEF DispatchOK, Waiting
<1>10. OverrideOK(a)'
  BY <1>2, <1>5 DEF OverrideOK, Final
<1>11. MissingOK(a)'
  <2>1. CASE dispatched[a] = 0
    BY <2>1 DEF MissingOK, OutcomeMissing, Ending
  <2>2. CASE Journalled(a, e) /\ e = Terminal(f)
    <3>0. journal'[a] = Append(journal[a], Terminal(f))
      BY <1>1, <2>2
    <3>1. Over(Append(journal[a], Terminal(f)))
      BY <1>4, ShapesGrow
    <3>2. Over(journal'[a])
      BY <3>0, <3>1
    <3> QED
      BY <3>2, ShapesDecoded DEF MissingOK, OutcomeMissing
  <2>3. CASE a \in Real => a \in recovery'
    BY <2>3 DEF MissingOK, OutcomeMissing
  <2> QED
    BY <2>1, <2>2, <2>3
<1> QED
  BY <1>3, <1>7, <1>8, <1>9, <1>10, <1>11, JobStepKeeps

\* cancel_action ends a job whose future it could cancel.
LEMMA CancelActionStep ==
    ASSUME IInv, NEW a \in Action, CancelAction(a)
    PROVE  IInv'
<1> USE DEF IInv
<1>1. Ending(a, "CANCELLED", "CANCELLED", Terminal("CANCELLED"))
  BY DEF CancelAction, Ending, Typed, InFlight, marks, sessions, safety, history
<1>2. dispatched[a] = 0
  BY JobFacts DEF CancelAction, Waiting
<1>3. "CANCELLED" \in Final /\ Terminal("CANCELLED") \in ActionEvent
  BY EventsDiffer DEF Final
<1> QED
  BY <1>1, <1>2, <1>3, EndingKeeps

\* _finish_overridden_job_locked ends a job that still waits.
LEMMA OverriddenEnds ==
    ASSUME IInv, NEW a \in Action, pc[a] \in Waiting, NEW f \in {"TIMED_OUT", "ORPHANED"},
           FinishOverridden(a, f), toEnd' \subseteq toEnd,
           UNCHANGED <<recoveryLog, permit, up, sessionLost, stopRequested, toStop, session,
                       losing, supervision, stopping, latched, recovery, late, dispatched,
                       history>>
    PROVE  IInv'
<1> USE DEF IInv
<1>1. /\ override' \in [Action -> {"none", "TIMED_OUT", "ORPHANED"}] /\ override'[a] = f
      /\ \A b \in Action : b # a => override'[b] = override[b]
  BY DEF FinishOverridden, Typed
<1>2. Ending(a, "FINISHED", f, Terminal(f))
  BY <1>1 DEF FinishOverridden, Ending, Typed, InFlight, Waiting, history
<1>3. dispatched[a] = 0
  BY JobFacts
<1>4. f \in Final /\ Terminal(f) \in ActionEvent /\ f # "COMPLETED"
  BY EventsDiffer DEF Final
<1> QED
  BY <1>1, <1>2, <1>3, <1>4, EndingKeeps

\* The watchdog's thread ends a queued job, or leaves it to its own thread.
LEMMA EndQueuedStep ==
    ASSUME IInv, NEW a \in Action, EndQueued(a)
    PROVE  IInv'
<1> USE DEF IInv
<1>1. CASE sched[a] = "QUEUED" /\ pc[a] = "pending"
  <2>1. JobOK(a) /\ a \in toEnd
    BY DEF JobInv, EndQueued
  <2>2. override[a] \in {"TIMED_OUT", "ORPHANED"}
    BY <1>1, <2>1 DEF JobOK, Typed
  <2>3. FinishOverridden(a, override[a]) /\ pc[a] \in Waiting
    BY <1>1 DEF EndQueued, Waiting
  <2>4. /\ toEnd' \subseteq toEnd
        /\ UNCHANGED <<recoveryLog, permit, up, sessionLost, stopRequested, toStop, session,
                       losing, supervision, stopping, latched, recovery, late, dispatched,
                       history>>
    BY DEF EndQueued, sessions, safety
  <2> QED
    BY <2>2, <2>3, <2>4, OverriddenEnds
<1>2. CASE ~(sched[a] = "QUEUED" /\ pc[a] = "pending")
  <2>1. Typed'
    BY <1>2 DEF Typed, EndQueued, sessions, safety, history, health
  <2>2. Quiet
    BY <1>2 DEF Typed, HealthInv, Quiet, EndQueued, sessions, history, health
  <2> QED
    BY <2>1, <2>2, QuietKeeps
<1> QED
  BY <1>1, <1>2

\* The first critical section of a thread ends its job or records its start.
LEMMA BeginStep ==
    ASSUME IInv, NEW a \in Action, Begin(a)
    PROVE  IInv'
<1> USE DEF IInv
<1>1. /\ pc[a] = "picked" /\ pc[a] \in Waiting /\ pc[a] \in InFlight
      /\ dispatched[a] = 0 /\ Queued(journal[a]) /\ sched[a] = "QUEUED"
  BY JobFacts DEF Begin, Waiting, InFlight
<1>2. /\ toEnd' \subseteq toEnd
      /\ UNCHANGED <<recoveryLog, permit, up, sessionLost, stopRequested, toEnd, toStop, session,
                     losing, supervision, stopping, latched, recovery, late, dispatched,
                     history>>
  BY DEF Begin, marks, sessions, safety
<1>3. CASE override[a] # "none" /\ FinishOverridden(a, override[a])
  <2>1. override[a] \in {"TIMED_OUT", "ORPHANED"}
    BY <1>3 DEF Typed
  <2> QED
    BY <1>1, <1>2, <1>3, <2>1, OverriddenEnds
<1>4. CASE override[a] = "none" /\ FinishOverridden(a, "TIMED_OUT")
  BY <1>1, <1>2, <1>4, OverriddenEnds
<1>5. CASE /\ override[a] = "none"
           /\ JournalRaises(a, Started)
           /\ Finish(a, "FINISHED", "FAILED")
           /\ UNCHANGED override
  <2>1. Ending(a, "FINISHED", "FAILED", Started)
    BY <1>1, <1>2, <1>5 DEF Ending, JournalledOrNoted, Typed
  <2>2. "FAILED" \in Final /\ Started \in ActionEvent
    BY EventsDiffer DEF Final
  <2> QED
    BY <1>1, <1>5, <2>1, <2>2, EndingKeeps
<1>6. CASE /\ Journalled(a, Started)
           /\ sched' = [sched EXCEPT ![a] = "RUNNING"]
           /\ Goto(a, IF a \in Real THEN "started" ELSE "submitted")
           /\ UNCHANGED <<result, override, slots>>
  <2>1. /\ journal' \in [Action -> Seq(ActionEvent)]
        /\ handle' \in {"open", "failed"} /\ ledgerFailed' \in BOOLEAN
        /\ faults' \in 0 .. MaxFaults
        /\ faults' = 0 => faults = 0 /\ handle' = "open"
        /\ \A b \in Action : b # a => journal'[b] = journal[b]
        /\ journal'[a] = Append(journal[a], Started)
    BY <1>6, AppendOutcome, EventsDiffer DEF JournalledOrNoted
  <2>2. /\ sched' \in [Action -> {"none", "QUEUED", "RUNNING", "FINISHED", "CANCELLED"}]
        /\ sched'[a] = "RUNNING" /\ \A b \in Action : b # a => sched'[b] = sched[b]
    BY <1>6 DEF Typed
  <2>3. /\ pc' \in [Action -> {"idle"} \cup InFlight]
        /\ pc'[a] = IF a \in Real THEN "started" ELSE "submitted"
        /\ \A b \in Action : b # a => pc'[b] = pc[b]
    BY <1>6 DEF Typed, Goto, InFlight
  <2>4. Typed'
    BY <1>2, <1>6, <2>1, <2>2, <2>3 DEF Typed, history
  <2>5. Running(journal'[a]) /\ ~Blank(journal'[a])
    BY <1>1, <2>1, ShapesGrow, ShapesDiffer
  <2>6. pc'[a] \in InFlight /\ pc'[a] \in Working /\ pc'[a] \notin Waiting
        /\ pc'[a] \notin {"returned", "checked"}
    BY <2>3 DEF InFlight, Waiting, Working
  <2>7. JobStep(a)
    BY <1>1, <1>2, <1>6, <2>1, <2>2, <2>3, <2>5, <2>6 DEF JobStep, history
  <2>8. JobOK(a)'
    BY <2>2, <2>5, <2>6 DEF JobOK
  <2>9. DispatchOK(a)'
    BY <1>1, <1>2, <2>3 DEF DispatchOK
  <2>10. OverrideOK(a)'
    BY <2>2 DEF OverrideOK
  <2>11. MissingOK(a)'
    BY <2>6 DEF MissingOK
  <2> QED
    BY <2>4, <2>7, <2>8, <2>9, <2>10, <2>11, JobStepKeeps
<1> QED
  BY <1>3, <1>4, <1>5, <1>6 DEF Begin

\* The last critical section of a thread ends its job.
LEMMA FinalizeStep ==
    ASSUME IInv, NEW a \in Action, Finalize(a)
    PROVE  IInv'
<1> USE DEF IInv
<1>1. pc[a] \in InFlight /\ JobOK(a) /\ override[a] \in {"none", "TIMED_OUT", "ORPHANED"}
  BY DEF Finalize, InFlight, JobInv, Typed
<1>2. PICK f \in Final :
         /\ f = IF override[a] = "none" THEN result[a] ELSE override[a]
         /\ override[a] # "none" => f = override[a] /\ f # "COMPLETED"
  BY <1>1 DEF JobOK, Finalize, Final
<1>3. UNCHANGED <<recoveryLog, permit, up, override, sessionLost, stopRequested, toEnd, toStop,
                  session, losing, supervision, stopping, late, dispatched, history>>
  BY DEF Finalize, marks, sessions
<1>4. Terminal(f) \in ActionEvent /\ "FAILED" \in Final
  BY <1>2, EventsDiffer DEF Final
<1>5. CASE /\ Journalled(a, Terminal(f)) /\ Finish(a, "FINISHED", f)
           /\ UNCHANGED <<recovery, latched>>
  <2>1. Ending(a, "FINISHED", f, Terminal(f))
    BY <1>1, <1>3, <1>5 DEF Ending, JournalledOrNoted, Typed
  <2>2. override'[a] # "none" => f \in {override'[a], "FAILED"} /\ f # "COMPLETED"
    BY <1>2, <1>3
  <2> QED
    BY <1>2, <1>4, <1>5, <2>1, <2>2, EndingKeeps
<1>6. CASE /\ JournalRaises(a, Terminal(f)) /\ Finish(a, "FINISHED", "FAILED")
           /\ recovery' = IF a \in Real THEN recovery \cup {a} ELSE recovery
           /\ latched' = (latched \/ a \in Real)
  <2>1. faults' # 0
    BY <1>6, FaultNoted DEF JournalRaises, Raises
  <2>2. Ending(a, "FINISHED", "FAILED", Terminal(f))
    BY <1>1, <1>3, <1>6, <2>1 DEF Ending, JournalledOrNoted, Typed
  <2>3. override'[a] # "none" => f # "COMPLETED"
    BY <1>2, <1>3
  <2>4. a \in Real => a \in recovery'
    BY <1>6
  <2> QED
    BY <1>2, <1>4, <2>2, <2>3, <2>4, EndingKeeps
<1> QED
  <2> DEFINE g == IF override[a] = "none" THEN result[a] ELSE override[a]
  <2>1. \/ Journalled(a, Terminal(g)) /\ Finish(a, "FINISHED", g) /\ UNCHANGED <<recovery, latched>>
        \/ /\ JournalRaises(a, Terminal(g)) /\ Finish(a, "FINISHED", "FAILED")
           /\ recovery' = IF a \in Real THEN recovery \cup {a} ELSE recovery
           /\ latched' = (latched \/ a \in Real)
    BY DEF Finalize
  <2>2. g = f
    BY <1>2
  <2> HIDE DEF g
  <2>3. \/ Journalled(a, Terminal(f)) /\ Finish(a, "FINISHED", f) /\ UNCHANGED <<recovery, latched>>
        \/ /\ JournalRaises(a, Terminal(f)) /\ Finish(a, "FINISHED", "FAILED")
           /\ recovery' = IF a \in Real THEN recovery \cup {a} ELSE recovery
           /\ latched' = (latched \/ a \in Real)
    <3>1. CASE /\ Journalled(a, Terminal(g)) /\ Finish(a, "FINISHED", g)
               /\ UNCHANGED <<recovery, latched>>
      BY <2>2, <3>1 DEF Journalled, Finish
    <3>2. CASE /\ JournalRaises(a, Terminal(g)) /\ Finish(a, "FINISHED", "FAILED")
               /\ recovery' = IF a \in Real THEN recovery \cup {a} ELSE recovery
               /\ latched' = (latched \/ a \in Real)
      BY <2>2, <3>2 DEF JournalRaises, Raises
    <3> QED
      BY <2>1, <3>1, <3>2
  <2> QED
    BY <1>5, <1>6, <2>3

-----------------------------------------------------------------------------
(* Start, restart recovery and crash *)

\* An action whose outcome is missing was started and has not ended.
LEMMA MissingRuns ==
    ASSUME IInv, NEW b \in OutcomeMissing
    PROVE  b \in Real /\ b \in Action /\ Running(journal[b])
<1>1. b \in Real /\ b \in Action /\ dispatched[b] > 0
      /\ \A i \in DOMAIN journal[b] : journal[b][i].type # "ACTION_TERMINAL"
  BY ControlAssumption DEF OutcomeMissing
<1>2. JobOK(b) /\ DispatchOK(b)
  BY <1>1 DEF IInv, JobInv, DispatchInv
<1>3. Began(journal[b])
  BY <1>1, <1>2 DEF DispatchOK
<1>4. ~Over(journal[b])
  BY <1>1, ShapesDecoded
<1> QED
  BY <1>1, <1>2, <1>3, <1>4, ShapesGrow DEF JobOK

\* A restart reads back the jobs and the review that is pending.
LEMMA StartStep ==
    ASSUME IInv, Start
    PROVE  IInv'
<1> USE DEF IInv
<1>0. /\ up = "down" /\ up' = "starting"
      /\ UNCHANGED <<journal, recoveryLog, handle, ledgerFailed, faults, pc, override,
                     sessionLost, stopRequested, toEnd, toStop, slots, session, losing,
                     supervision, stopping, latched, late, dispatched, unknown, reviewed,
                     crashes, losses>>
  BY DEF Start, health, marks, sessions, safety, history
<1>1. ASSUME NEW b \in Action
      PROVE  /\ sched'[b] \in {"none", "QUEUED", "RUNNING", "FINISHED", "CANCELLED"}
             /\ result'[b] \in Final \cup {"none"}
             /\ permit'[b] \in PermitState
             /\ permit[b] \in Spent => permit'[b] \in Spent
             /\ sched'[b] = "QUEUED" => Queued(journal[b])
             /\ sched'[b] = "RUNNING" <=> Running(journal[b])
             /\ JobOK(b) /\ pc[b] = "idle" /\ override[b] = "none"
  <2>1. JobOK(b) /\ pc[b] = "idle" /\ override[b] = "none"
    BY <1>0 DEF JobInv, BootInv
  <2>2. sched'[b] = DecodedState(journal[b]) /\ result'[b] = DecodedResult(journal[b])
    BY DEF Start
  <2>3. /\ permit'[b] \in PermitState
        /\ permit[b] \in Spent => permit'[b] \in Spent
    BY WithdrawnPermits DEF Start
  <2>4. Blank(journal[b]) \/ Queued(journal[b]) \/ Running(journal[b]) \/ Over(journal[b])
    BY <2>1 DEF JobOK
  <2> QED
    BY <2>1, <2>2, <2>3, <2>4, ShapesDecoded, ShapesDiffer
<1>2. Typed'
  <2>1. /\ sched' = [b \in Action |-> sched'[b]] /\ result' = [b \in Action |-> result'[b]]
        /\ permit' = [b \in Action |-> permit'[b]]
    BY DEF Start, Withdrawn
  <2>2. sched' \in [Action -> {"none", "QUEUED", "RUNNING", "FINISHED", "CANCELLED"}]
    BY <1>1, <2>1
  <2>3. result' \in [Action -> Final \cup {"none"}]
    BY <1>1, <2>1
  <2>4. permit' \in [Action -> PermitState]
    BY <1>1, <2>1
  <2>5. recovery' \subseteq Action
    BY PendingKnown DEF Start, Pending
  <2> QED
    BY <1>0, <2>2, <2>3, <2>4, <2>5 DEF Typed
<1>3. JobInv'
  BY <1>0, <1>1 DEF JobInv, JobOK, BootInv, Waiting, Working, InFlight
<1>4. BootInv'
  BY <1>0, <1>1 DEF BootInv
<1>5. SlotInv'
  BY <1>0 DEF SlotInv, Flying
<1>6. DispatchInv'
  BY <1>0, <1>1 DEF DispatchInv, DispatchOK
<1>7. Pending' = Pending /\ (RecoveryReadable => RecoveryReadable') /\ recovery' = Pending
  BY <1>0, ReadableKept DEF Start, Pending
<1>8. ReviewInv'
  BY <1>0, <1>7 DEF ReviewInv
<1>9. HealthInv'
  BY <1>0, <1>7 DEF HealthInv
<1>10. OverrideInv' /\ MissingInv'
  BY <1>0, <1>1 DEF OverrideInv, OverrideOK, MissingInv
<1> QED
  BY <1>2, <1>3, <1>4, <1>5, <1>6, <1>8, <1>9, <1>10

\* The requirement to review is what the ledger then says is pending.
LEMMA RequireReviewStep ==
    ASSUME IInv, RequireReview
    PROVE  IInv'
<1> USE DEF IInv
<1> DEFINE ids == recovery \cup Interrupted
<1>0. /\ up = "starting" /\ recovery' = ids /\ ids # {} /\ latched' = TRUE
      /\ UNCHANGED <<journal, permit, up, handle, ledgerFailed, faults, sched, pc, result,
                     override, sessionLost, stopRequested, toEnd, toStop, slots, session, losing,
                     supervision, stopping, late, dispatched, unknown, reviewed, crashes, losses>>
  BY DEF RequireReview, health, jobs, marks, sessions, history
<1>1. recovery = Pending /\ ids \subseteq Action
  BY <1>0, ControlAssumption DEF ReviewInv, Typed, Interrupted
<1>2. \A b \in Interrupted : journal[b] # <<>>
  <2>1. \A b \in Interrupted : b \in Action /\ Running(journal[b])
    BY ControlAssumption DEF JobInv, JobOK, Interrupted
  <2> QED
    BY <2>1, ShapesDiffer DEF Blank
<1>3. /\ recoveryLog' \in Seq(RecoveryEvent) /\ Pending' = ids
      /\ RecoveryReadable => RecoveryReadable'
  <2>1. CASE Interrupted \subseteq recovery
    <3>1. recoveryLog' = recoveryLog /\ ids = recovery
      BY <2>1 DEF RequireReview
    <3> HIDE DEF ids
    <3> QED
      BY <1>0, <1>1, <3>1, ReadableKept DEF Typed
  <2>2. CASE ~(Interrupted \subseteq recovery)
    <3>1. recoveryLog' = Append(recoveryLog, Required(ids))
      BY <2>2 DEF RequireReview
    <3> HIDE DEF ids
    <3>2. /\ Required(ids) \in RecoveryEvent /\ Required(ids).ids = ids
          /\ Required(ids).type = "RECOVERY_REQUIRED"
      BY <1>1 DEF RecoveryEvent, Required
    <3>3. RecoveryReadable => Pending \subseteq ids /\ \A b \in ids : journal[b] # <<>>
      BY <1>1, <1>2, PendingKnown DEF ids
    <3> QED
      BY <1>0, <3>1, <3>2, <3>3, ReadableGrows
  <2> QED
    BY <2>1, <2>2
<1> HIDE DEF ids
<1>4. Typed'
  BY <1>0, <1>1, <1>3 DEF Typed
<1>5. JobInv' /\ BootInv'
  BY <1>0 DEF JobInv, JobOK, BootInv
<1>6. SlotInv'
  BY <1>0 DEF SlotInv, Flying
<1>7. DispatchInv' /\ OverrideInv'
  BY <1>0 DEF DispatchInv, DispatchOK, OverrideInv, OverrideOK
<1>8. ReviewInv'
  <2>1. Pending \subseteq Pending'
    BY <1>1, <1>3 DEF ids
  <2> QED
    BY <1>0, <1>3, <2>1 DEF ReviewInv
<1>9. HealthInv'
  BY <1>0, <1>3 DEF HealthInv
<1>10. MissingInv'
  BY <1>0 DEF MissingInv
<1> QED
  BY <1>4, <1>5, <1>6, <1>7, <1>8, <1>9, <1>10

\* A sealed action that had been started is pending review on the ledger.
LEMMA SealStep ==
    ASSUME IInv, NEW a \in Action, Seal(a)
    PROVE  IInv'
<1> USE DEF IInv
<1>0. /\ up = "starting" /\ ReviewRequired
      /\ UNCHANGED <<recoveryLog, permit, up, pc, override, sessionLost, stopRequested, toEnd,
                     toStop, slots, session, losing, supervision, stopping, latched, recovery,
                     late, dispatched, unknown, reviewed, crashes, losses>>
  BY DEF Seal, marks, sessions, safety, history
<1>1. PICK f \in Final : /\ Journalled(a, Terminal(f))
                         /\ sched'[a] \in {"FINISHED", "CANCELLED"}
                         /\ \A b \in Action : b # a => sched'[b] = sched[b]
                         /\ sched' \in [Action -> {"none", "QUEUED", "RUNNING", "FINISHED",
                                                   "CANCELLED"}]
                         /\ result' \in [Action -> Final \cup {"none"}]
  <2>1. CASE sched[a] = "RUNNING"
    <3>1. /\ Journalled(a, Terminal("FAILED")) /\ sched' = [sched EXCEPT ![a] = "FINISHED"]
          /\ result' = [result EXCEPT ![a] = "FAILED"]
      BY <2>1 DEF Seal, Journalled
    <3> QED
      BY <3>1 DEF Typed, Final
  <2>2. CASE sched[a] # "RUNNING"
    <3>1. /\ Journalled(a, Terminal("CANCELLED")) /\ sched' = [sched EXCEPT ![a] = "CANCELLED"]
          /\ result' = [result EXCEPT ![a] = "CANCELLED"]
      BY <2>2 DEF Seal, Journalled
    <3> QED
      BY <3>1 DEF Typed, Final
  <2> QED
    BY <2>1, <2>2
<1>2. /\ journal' \in [Action -> Seq(ActionEvent)]
      /\ handle' \in {"open", "failed"} /\ ledgerFailed' \in BOOLEAN
      /\ faults' \in 0 .. MaxFaults
      /\ faults' = 0 => faults = 0 /\ handle' = "open"
      /\ \A b \in Action : b # a => journal'[b] = journal[b]
      /\ journal'[a] = Append(journal[a], Terminal(f))
  <2>1. Terminal(f) \in ActionEvent /\ JournalledOrNoted(a, Terminal(f))
    BY <1>1, EventsDiffer DEF JournalledOrNoted
  <2> QED
    BY <1>1, <2>1, AppendOutcome
<1>3. Typed'
  BY <1>0, <1>1, <1>2 DEF Typed
<1>4. /\ Queued(journal[a]) \/ Running(journal[a])
      /\ sched[a] = "RUNNING" <=> Running(journal[a])
  <2>1. JobOK(a) /\ sched[a] \in {"QUEUED", "RUNNING"}
    BY DEF JobInv, Seal
  <2> QED
    BY <2>1, ShapesDiffer DEF JobOK
<1>5. /\ Over(journal'[a]) /\ (Began(journal[a]) => Began(journal'[a]))
      /\ ~Blank(journal'[a]) /\ ~Running(journal'[a])
  <2>1. /\ Over(Append(journal[a], Terminal(f)))
        /\ Began(journal[a]) => Began(Append(journal[a], Terminal(f)))
    BY <1>4, ShapesGrow
  <2> QED
    BY <1>2, <2>1, ShapesDiffer
<1>6. \A b \in Action : pc[b] = "idle" /\ override[b] = "none"
  BY <1>0 DEF BootInv
<1>7. JobInv'
  <2>1. ASSUME NEW b \in Action, b # a PROVE JobOK(b)'
    BY <1>0, <1>1, <1>2, <1>6, <2>1 DEF JobInv, JobOK, BootInv, Waiting, Working, InFlight
  <2>2. JobOK(a)'
    BY <1>0, <1>1, <1>5, <1>6 DEF JobOK, BootInv, Waiting, Working, InFlight
  <2> QED
    BY <2>1, <2>2 DEF JobInv
<1>8. BootInv'
  BY <1>0, <1>1, <1>2, <1>5 DEF BootInv
<1>9. SlotInv'
  BY <1>0 DEF SlotInv, Flying
<1>10. DispatchInv'
  <2>1. ASSUME NEW b \in Action PROVE Began(journal[b]) => Began(journal'[b])
    BY <1>2, <1>5
  <2> QED
    BY <1>0, <2>1 DEF DispatchInv, DispatchOK
<1>11. Pending' = Pending /\ (RecoveryReadable => RecoveryReadable')
  BY <1>0, <1>2, <1>5, ReadableKept DEF Blank
<1>12. ReviewInv'
  <2>1. a \in unknown /\ Running(journal[a]) => a \in Pending
    BY <1>0, <1>4 DEF ReviewInv, ReviewRequired, Interrupted, Typed
  <2>2. \A b \in unknown : b \in Action
    BY ControlAssumption DEF Typed
  <2> QED
    BY <1>0, <1>2, <1>5, <1>6, <1>11, <2>1, <2>2 DEF ReviewInv
<1>13. HealthInv'
  BY <1>0, <1>2, <1>11 DEF HealthInv
<1>14. OverrideInv' /\ MissingInv'
  BY <1>0, <1>6 DEF OverrideInv, OverrideOK, MissingInv
<1> QED
  BY <1>3, <1>7, <1>8, <1>9, <1>10, <1>12, <1>13, <1>14

\* Serving begins when nothing is left to seal.
LEMMA ServeStep ==
    ASSUME IInv, Serve
    PROVE  IInv'
<1> USE DEF IInv
<1>0. /\ up = "starting" /\ up' = "running" /\ supervision' = "DISARMED"
      /\ UNCHANGED <<journal, recoveryLog, permit, handle, ledgerFailed, faults, pc, override,
                     sessionLost, stopRequested, toEnd, toStop, slots, session, losing,
                     stopping, latched, recovery, late, dispatched, unknown, reviewed,
                     crashes, losses>>
  BY DEF Serve, durable, health, marks, sessions, history
<1>1. PICK drop : sched' = Forget(sched, drop) /\ result' = Forget(result, drop)
  BY DEF Serve
<1>2. /\ sched' \in [Action -> {"none", "FINISHED", "CANCELLED"}]
      /\ result' \in [Action -> Final \cup {"none"}]
  BY <1>1 DEF Serve, Forget, Typed
<1>3. Typed'
  BY <1>0, <1>2 DEF Typed
<1>4. \A b \in Action : pc[b] = "idle" /\ override[b] = "none" /\ ~Running(journal[b])
  BY <1>0 DEF BootInv, Serve
<1>5. JobInv'
  BY <1>0, <1>2, <1>4 DEF JobInv, JobOK, BootInv, Waiting, Working, InFlight
<1>6. BootInv'
  BY <1>0 DEF BootInv
<1>7. SlotInv'
  BY <1>0 DEF SlotInv, Flying
<1>8. DispatchInv'
  BY <1>0 DEF DispatchInv, DispatchOK
<1>9. Pending' = Pending /\ (RecoveryReadable => RecoveryReadable')
  BY <1>0, ReadableKept
<1>10. ReviewInv'
  <2>1. \A b \in unknown : b \in Action
    BY ControlAssumption DEF Typed
  <2> QED
    BY <1>0, <1>4, <1>9, <2>1 DEF ReviewInv
<1>11. HealthInv'
  BY <1>0, <1>9 DEF HealthInv
<1>12. OverrideInv'
  BY <1>0, <1>4 DEF OverrideInv, OverrideOK
<1>13. MissingInv'
  <2>1. OutcomeMissing' = OutcomeMissing
    BY <1>0 DEF OutcomeMissing
  <2>2. OutcomeMissing = {}
    BY <1>4, MissingRuns
  <2> QED
    BY <2>1, <2>2 DEF MissingInv, MissingOK
<1> QED
  BY <1>3, <1>5, <1>6, <1>7, <1>8, <1>10, <1>11, <1>12, <1>13

\* What a crash leaves unknown is not sealed yet.
LEMMA CrashStep ==
    ASSUME IInv, Crash
    PROVE  IInv'
<1> USE DEF IInv
<1>0. /\ up' = "down" /\ handle' = "open" /\ ledgerFailed' = FALSE
      /\ sched' = [b \in Action |-> "none"] /\ pc' = [b \in Action |-> "idle"]
      /\ result' = [b \in Action |-> "none"] /\ override' = [b \in Action |-> "none"]
      /\ sessionLost' = {} /\ stopRequested' = {} /\ toEnd' = {} /\ toStop' = {}
      /\ slots' = QueueSize
      /\ session' = [t \in Session |-> "none"] /\ losing' = [t \in Session |-> "no"]
      /\ supervision' = "DISARMED" /\ stopping' = FALSE /\ latched' = FALSE
      /\ recovery' = {} /\ unknown' = unknown \cup OutcomeMissing
      /\ crashes' \in 0 .. MaxCrashes
      /\ UNCHANGED <<journal, recoveryLog, permit, faults, late, dispatched, reviewed, losses>>
  BY ControlAssumption DEF Crash, durable, Typed
<1>1. \A b \in OutcomeMissing : b \in Real /\ b \in Action /\ Running(journal[b])
  BY MissingRuns
<1>2. Typed'
  BY <1>0, <1>1 DEF Typed
<1>3. JobInv'
  BY <1>0 DEF JobInv, JobOK, Waiting, Working, InFlight
<1>4. BootInv'
  BY <1>0 DEF BootInv
<1>5. SlotInv'
  <2>1. Flying' = {}
    BY <1>0 DEF Flying, InFlight
  <2> QED
    BY <1>0, <2>1, FS_EmptySet, ControlAssumption DEF SlotInv
<1>6. DispatchInv'
  BY <1>0 DEF DispatchInv, DispatchOK, Waiting
<1>7. Pending' = Pending /\ (RecoveryReadable => RecoveryReadable')
  BY <1>0, ReadableKept
<1>8. ReviewInv'
  <2>1. \A b \in unknown' : b \in Action
    BY <1>0, <1>1, ControlAssumption DEF Typed
  <2>2. ASSUME NEW b \in unknown'
        PROVE  ~Blank(journal[b]) /\ (b \in reviewed \cup Pending \/ Running(journal[b]))
    BY <1>0, <1>1, ShapesDiffer DEF ReviewInv
  <2> QED
    BY <1>0, <1>7, <2>1, <2>2, ControlAssumption DEF ReviewInv, InFlight
<1>9. HealthInv'
  BY <1>0, <1>7 DEF HealthInv
<1>10. OverrideInv' /\ MissingInv'
  BY <1>0 DEF OverrideInv, OverrideOK, MissingInv
<1> QED
  BY <1>2, <1>3, <1>4, <1>5, <1>6, <1>8, <1>9, <1>10

-----------------------------------------------------------------------------
(* Acknowledgement, requests and overrides *)

\* An acknowledgement covers what is pending in memory.
LEMMA AcknowledgeRecoveryStep ==
    ASSUME IInv, AcknowledgeRecovery
    PROVE  IInv'
<1> USE DEF IInv
<1> DEFINE e == Acknowledged(recovery)
<1>0. /\ up \in {"running", "closing"} /\ recovery # {}
      /\ UNCHANGED <<journal, permit, up, sched, pc, result, override, sessionLost,
                     stopRequested, toEnd, toStop, slots, session, losing, supervision,
                     stopping, latched, late, dispatched, unknown, crashes, losses>>
  BY DEF AcknowledgeRecovery, jobs, marks, sessions, safety
<1>1. /\ e \in RecoveryEvent /\ e.ids = recovery /\ e.type = "RECOVERY_ACKNOWLEDGED"
      /\ e.type # "RECOVERY_REQUIRED"
  BY DEF Typed, RecoveryEvent, Acknowledged
<1>2. /\ handle' \in {"open", "failed"} /\ ledgerFailed' \in BOOLEAN
      /\ faults' \in 0 .. MaxFaults
      /\ recoveryLog' = recoveryLog \/ recoveryLog' = Append(recoveryLog, e)
      /\ faults' = 0 => /\ faults = 0 /\ handle' = "open" /\ recovery' = {}
                        /\ recoveryLog' = Append(recoveryLog, e)
      /\ \/ recoveryLog' = recoveryLog /\ recovery' = recovery /\ reviewed' = reviewed
         \/ recovery' \subseteq recovery /\ reviewed' = reviewed \cup recovery
  <2>1. CASE /\ handle = "open"
             /\ recoveryLog' = Append(recoveryLog, e)
             /\ recovery' = {}
             /\ reviewed' = reviewed \cup recovery
             /\ UNCHANGED health
    BY <2>1 DEF Typed, health
  <2>2. CASE /\ Raises(recoveryLog, Append(recoveryLog, e))
             /\ reviewed' = reviewed \cup (IF recoveryLog' = recoveryLog THEN {} ELSE recovery)
             /\ UNCHANGED recovery
    <3>1. Fault /\ (recoveryLog' = recoveryLog \/ recoveryLog' = Append(recoveryLog, e))
      BY <2>2 DEF Raises
    <3> HIDE DEF e
    <3> QED
      BY <2>2, <3>1, FaultNoted
  <2> QED
    BY <2>1, <2>2 DEF AcknowledgeRecovery
<1> HIDE DEF e
<1>3. /\ recoveryLog' \in Seq(RecoveryEvent)
      /\ recoveryLog' = recoveryLog => Pending' = Pending
      /\ recoveryLog' = Append(recoveryLog, e) => Pending' = {}
      /\ faults' = 0 => RecoveryReadable'
  <2>1. CASE recoveryLog' = recoveryLog /\ faults' # 0
    <3>1. Pending' = Pending
      BY <2>1 DEF Pending, PendingBefore
    <3>2. recoveryLog # Append(recoveryLog, e)
      <4>1. Len(Append(recoveryLog, e)) = Len(recoveryLog) + 1 /\ Len(recoveryLog) \in Nat
        BY <1>1 DEF Typed
      <4> QED
        BY <4>1
    <3> QED
      BY <2>1, <3>1, <3>2 DEF Typed
  <2>2. CASE recoveryLog' = Append(recoveryLog, e)
    <3>1. faults' = 0 => RecoveryReadable /\ e.ids = Pending
      BY <1>0, <1>1, <1>2 DEF HealthInv
    <3>2. journal' = journal
      BY <1>0
    <3> QED
      BY <1>0, <1>1, <2>2, <3>1, <3>2, ReadableGrows
  <2>3. faults' = 0 => recoveryLog' = Append(recoveryLog, e)
    BY <1>2
  <2> QED
    BY <1>2, <2>1, <2>2, <2>3
<1>4. Typed'
  BY <1>0, <1>2, <1>3 DEF Typed
<1>5. JobInv' /\ BootInv'
  BY <1>0 DEF JobInv, JobOK, BootInv
<1>6. SlotInv'
  BY <1>0 DEF SlotInv, Flying
<1>7. DispatchInv' /\ OverrideInv'
  BY <1>0 DEF DispatchInv, DispatchOK, OverrideInv, OverrideOK
<1>8. unknown' = unknown /\ unknown \subseteq recovery \cup reviewed
      /\ recovery \cup reviewed \subseteq recovery' \cup reviewed' /\ reviewed \subseteq reviewed'
  BY <1>0, <1>2 DEF ReviewInv
<1>9. ReviewInv'
  <2>1. CASE recoveryLog' = recoveryLog /\ reviewed' = reviewed
    BY <1>0, <1>3, <1>8, <2>1 DEF ReviewInv
  <2>2. CASE reviewed' = reviewed \cup recovery
    BY <1>0, <1>8, <2>2 DEF ReviewInv
  <2> QED
    BY <1>2, <2>1, <2>2
<1>10. HealthInv'
  BY <1>2, <1>3 DEF HealthInv
<1>11. MissingInv'
  BY <1>0, <1>8 DEF MissingInv, MissingOK, OutcomeMissing
<1> QED
  BY <1>4, <1>5, <1>6, <1>7, <1>9, <1>10, <1>11

\* A new action is one the ledger does not know, so it was never dispatched, and
\* a REAL one is only accepted when nothing is left to review.
LEMMA RequestActionStep ==
    ASSUME IInv, NEW a \in Action, RequestAction(a)
    PROVE  IInv'
<1> USE DEF IInv
<1>0. /\ up = "running" /\ (a \in Real => recovery = {}) /\ slots > 0
      /\ sched[a] = "none" /\ Blank(journal[a])
      /\ UNCHANGED <<recoveryLog, permit, up, stopRequested, toEnd, toStop, session, losing,
                     supervision, stopping, latched, recovery, late, dispatched, unknown,
                     reviewed, crashes, losses>>
  BY DEF RequestAction, Known, Blank, sessions, safety, history
<1>1. PICK drop \in SUBSET Ended :
         /\ \/ /\ Journalled(a, Submitted)
               /\ sched' = [Forget(sched, drop) EXCEPT ![a] = "QUEUED"]
               /\ pc' = [pc EXCEPT ![a] = "pending"]
               /\ slots' = slots - 1
            \/ /\ JournalRaises(a, Submitted)
               /\ sched' = Forget(sched, drop)
               /\ UNCHANGED <<pc, slots>>
         /\ result' = Forget(result, drop)
         /\ override' = Forget(override, drop)
         /\ sessionLost' = sessionLost \ drop
  BY DEF RequestAction, Evictions
<1>2. /\ journal' \in [Action -> Seq(ActionEvent)]
      /\ handle' \in {"open", "failed"} /\ ledgerFailed' \in BOOLEAN
      /\ faults' \in 0 .. MaxFaults
      /\ faults' = 0 => faults = 0 /\ handle' = "open"
      /\ \A b \in Action : b # a => journal'[b] = journal[b]
      /\ journal'[a] = journal[a] \/ journal'[a] = Append(journal[a], Submitted)
      /\ Journalled(a, Submitted) => journal'[a] = Append(journal[a], Submitted)
  <2>1. JournalledOrNoted(a, Submitted) /\ Submitted \in ActionEvent
    BY <1>1, EventsDiffer DEF JournalledOrNoted
  <2> QED
    BY <2>1, AppendOutcome
<1>3. /\ pc[a] = "idle" /\ a \notin toEnd /\ dispatched[a] = 0 /\ a \notin drop
      /\ a \notin unknown
  <2>1. JobOK(a) /\ DispatchOK(a) /\ dispatched[a] \in Nat /\ pc[a] \in {"idle"} \cup InFlight
    BY DEF JobInv, DispatchInv, Typed
  <2>2. pc[a] = "idle" /\ a \notin toEnd
    BY <1>0, <2>1 DEF JobOK, Working
  <2>3. ~Began(journal[a])
    BY <1>0, ShapesGrow
  <2>4. dispatched[a] = 0
    BY <2>1, <2>3 DEF DispatchOK
  <2> QED
    BY <1>0, <2>2, <2>4 DEF Ended, ReviewInv
<1>4. \A b \in drop : /\ b \in Action /\ pc[b] = "idle"
  <2>1. ASSUME NEW b \in drop PROVE b \in Action /\ pc[b] = "idle"
    <3>1. b \in Action /\ sched[b] \in {"FINISHED", "CANCELLED"}
      BY DEF Ended
    <3>2. JobOK(b) /\ pc[b] \in {"idle"} \cup InFlight
      BY <3>1 DEF JobInv, Typed
    <3> QED
      BY <3>1, <3>2 DEF JobOK, Working
  <2> QED
    BY <2>1
<1>5. /\ result' \in [Action -> Final \cup {"none"}]
      /\ override' \in [Action -> {"none", "TIMED_OUT", "ORPHANED"}]
      /\ \A b \in Action : /\ override'[b] = IF b \in drop THEN "none" ELSE override[b]
                           /\ result'[b] = IF b \in drop THEN "none" ELSE result[b]
  BY <1>1 DEF Forget, Typed
<1>6. /\ sched' \in [Action -> {"none", "QUEUED", "RUNNING", "FINISHED", "CANCELLED"}]
      /\ \A b \in Action : b # a => sched'[b] = IF b \in drop THEN "none" ELSE sched[b]
      /\ sched'[a] \in {"none", "QUEUED"}
  <2> DEFINE kept == Forget(sched, drop)
  <2>1. /\ kept \in [Action -> {"none", "QUEUED", "RUNNING", "FINISHED", "CANCELLED"}]
        /\ \A b \in Action : kept[b] = IF b \in drop THEN "none" ELSE sched[b]
    BY DEF Forget, Typed
  <2>2. sched' = kept \/ sched' = [kept EXCEPT ![a] = "QUEUED"]
    BY <1>1
  <2> HIDE DEF kept
  <2> QED
    BY <1>0, <1>3, <2>1, <2>2
<1>7. /\ pc' \in [Action -> {"idle"} \cup InFlight]
      /\ \A b \in Action : b # a => pc'[b] = pc[b]
      /\ \/ /\ pc'[a] = "pending" /\ sched'[a] = "QUEUED" /\ slots' = slots - 1
            /\ Queued(journal'[a])
         \/ /\ pc'[a] = "idle" /\ sched'[a] = "none" /\ slots' = slots
            /\ Blank(journal'[a]) \/ Queued(journal'[a])
  <2>1. Queued(Append(journal[a], Submitted))
    BY <1>0, ShapesGrow
  <2>2. CASE /\ Journalled(a, Submitted)
             /\ sched' = [Forget(sched, drop) EXCEPT ![a] = "QUEUED"]
             /\ pc' = [pc EXCEPT ![a] = "pending"]
             /\ slots' = slots - 1
    <3>1. sched'[a] = "QUEUED"
      BY <2>2 DEF Forget
    <3>2. pc' \in [Action -> {"idle"} \cup InFlight] /\ pc'[a] = "pending"
          /\ \A b \in Action : b # a => pc'[b] = pc[b]
      BY <2>2 DEF Typed, InFlight
    <3> QED
      BY <1>2, <2>1, <2>2, <3>1, <3>2
  <2>3. CASE /\ sched' = Forget(sched, drop)
             /\ UNCHANGED <<pc, slots>>
    <3>1. sched'[a] = "none" /\ pc'[a] = "idle"
      BY <1>0, <1>3, <2>3 DEF Forget
    <3>2. Blank(journal'[a]) \/ Queued(journal'[a])
      BY <1>0, <1>2, <2>1
    <3> QED
      BY <2>3, <3>1, <3>2 DEF Typed
  <2> QED
    BY <1>1, <2>2, <2>3
<1>8. Typed'
  BY <1>0, <1>1, <1>2, <1>5, <1>6, <1>7 DEF Typed
<1>9. JobInv'
  <2>1. ASSUME NEW b \in Action, b # a PROVE JobOK(b)'
    <3>1. JobOK(b)
      BY DEF JobInv
    <3>2. CASE b \in drop
      BY <1>0, <1>2, <1>4, <1>6, <1>7, <2>1, <3>1, <3>2 DEF JobOK, Waiting, Working, InFlight
    <3>3. CASE b \notin drop
      BY <1>0, <1>2, <1>5, <1>6, <1>7, <2>1, <3>1, <3>3 DEF JobOK
    <3> QED
      BY <3>2, <3>3
  <2>2. JobOK(a)'
    BY <1>0, <1>3, <1>7 DEF JobOK, Waiting, Working, InFlight
  <2> QED
    BY <2>1, <2>2 DEF JobInv
<1>10. BootInv'
  BY <1>0 DEF BootInv
<1>11. SlotInv'
  <2>1. CASE pc'[a] = "pending" /\ slots' = slots - 1
    <3>1. Flying' = Flying \cup {a} /\ a \notin Flying
      BY <1>3, <1>7, <2>1 DEF Flying, InFlight
    <3>2. Cardinality(Flying') = Cardinality(Flying) + 1
      BY <3>1, FlyingFinite, FS_AddElement
    <3> QED
      BY <1>0, <2>1, <3>2, FlyingFinite, ControlAssumption DEF SlotInv
  <2>2. CASE pc'[a] = "idle" /\ slots' = slots
    <3>1. Flying' = Flying
      BY <1>3, <1>7, <2>2 DEF Flying
    <3> QED
      BY <2>2, <3>1 DEF SlotInv
  <2> QED
    BY <1>7, <2>1, <2>2
<1>12. DispatchInv'
  <2>1. ASSUME NEW b \in Action, b # a PROVE DispatchOK(b)'
    BY <1>0, <1>2, <1>7, <2>1 DEF DispatchInv, DispatchOK
  <2>2. DispatchOK(a)'
    BY <1>0, <1>3, <1>7 DEF DispatchOK
  <2> QED
    BY <2>1, <2>2 DEF DispatchInv
<1>13. Pending' = Pending /\ (RecoveryReadable => RecoveryReadable')
  BY <1>0, <1>2, ReadableKept DEF Blank
<1>14. ReviewInv'
  <2>1. \A b \in unknown : b \in Action /\ b # a
    BY <1>3, ControlAssumption DEF Typed
  <2>2. a \in Real => unknown \subseteq reviewed
    BY <1>0 DEF ReviewInv
  <2>3. \A b \in Real : b \in Action
    BY ControlAssumption
  <2> QED
    BY <1>0, <1>2, <1>7, <1>13, <2>1, <2>2, <2>3 DEF ReviewInv
<1>15. HealthInv'
  BY <1>0, <1>2, <1>13 DEF HealthInv
<1>16. OverrideInv'
  <2>1. ASSUME NEW b \in Action, b # a PROVE OverrideOK(b)'
    BY <1>2, <1>5, <1>6, <2>1 DEF OverrideInv, OverrideOK
  <2>2. OverrideOK(a)'
    BY <1>6 DEF OverrideOK
  <2> QED
    BY <2>1, <2>2 DEF OverrideInv
<1>17. MissingInv'
  <2>1. ASSUME NEW b \in Action, b # a PROVE MissingOK(b)'
    <3>1. MissingOK(b)
      BY <1>0 DEF MissingInv
    <3> QED
      BY <1>0, <1>2, <1>7, <2>1, <3>1 DEF MissingOK, OutcomeMissing
  <2>2. MissingOK(a)'
    BY <1>0, <1>3 DEF MissingOK, OutcomeMissing
  <2> QED
    BY <2>1, <2>2 DEF MissingInv
<1> QED
  BY <1>8, <1>9, <1>10, <1>11, <1>12, <1>14, <1>15, <1>16, <1>17

\* Steps that only override jobs that have not ended.
Overriding ==
    /\ up \in {"running", "closing"}
    /\ UNCHANGED <<journal, recoveryLog, permit, up, handle, faults, sched, pc, result, slots,
                   dispatched, unknown, reviewed, recovery>>
    /\ \A b \in Action :
          /\ override'[b] = override[b] \/ sched[b] # "FINISHED"
          /\ override[b] # "none" => override'[b] = override[b]
          /\ b \in toEnd' => b \in toEnd \/ (sched[b] = "QUEUED" /\ override'[b] # "none")

\* Such a step keeps the invariant.
LEMMA OverridingKeeps ==
    ASSUME IInv, Typed', Overriding
    PROVE  IInv'
<1> USE DEF IInv
<1>1. JobInv'
  <2>1. ASSUME NEW b \in Action PROVE JobOK(b)'
    <3>1. JobOK(b) /\ (sched[b] = "QUEUED" => ~Blank(journal[b]))
      BY ShapesDiffer DEF JobInv, JobOK
    <3> QED
      BY <3>1 DEF JobOK, Overriding
  <2> QED
    BY <2>1 DEF JobInv
<1>2. BootInv'
  BY DEF BootInv, Overriding
<1>3. SlotInv'
  BY DEF SlotInv, Flying, Overriding
<1>4. DispatchInv'
  BY DEF DispatchInv, DispatchOK, Overriding
<1>5. Pending' = Pending /\ (RecoveryReadable => RecoveryReadable')
  BY ReadableKept DEF Overriding
<1>6. ReviewInv' /\ HealthInv'
  BY <1>5 DEF ReviewInv, HealthInv, Overriding
<1>7. OverrideInv'
  BY DEF OverrideInv, OverrideOK, Overriding
<1>8. MissingInv'
  BY DEF MissingInv, MissingOK, OutcomeMissing, Overriding
<1> QED
  BY <1>1, <1>2, <1>3, <1>4, <1>6, <1>7, <1>8

\* The watchdog overrides a job past its deadline or its lease.
LEMMA WatchdogOverrideStep ==
    ASSUME IInv, NEW a \in Action, WatchdogOverride(a)
    PROVE  IInv'
<1> USE DEF IInv
<1>1. /\ override' \in [Action -> {"none", "TIMED_OUT", "ORPHANED"}]
      /\ override'[a] = "TIMED_OUT" /\ override[a] = "none"
      /\ \A b \in Action : b # a => override'[b] = override[b]
  BY DEF WatchdogOverride, Typed
<1>2. /\ toEnd' = toEnd \/ (sched[a] = "QUEUED" /\ toEnd' = toEnd \cup {a})
      /\ toStop' \subseteq Action
  BY DEF WatchdogOverride, Typed
<1>3. Typed'
  BY <1>1, <1>2 DEF WatchdogOverride, Typed, durable, health, sessions, safety, history
<1>4. Overriding
  BY <1>1, <1>2 DEF WatchdogOverride, Overriding, durable, health, history
<1> QED
  BY <1>3, <1>4, OverridingKeeps

\* The handler of a lost session overrides its jobs.
LEMMA MarkOrphansStep ==
    ASSUME IInv, NEW s \in Session, MarkOrphans(s)
    PROVE  IInv'
<1> USE DEF IInv
<1> DEFINE mine == {a \in Action : SessionOf[a] = s /\ sched[a] \in {"QUEUED", "RUNNING"}}
           ends == {a \in mine : ~(sched[a] = "RUNNING" /\ a \in Continue)}
<1>1. /\ losing[s] = "mark" /\ losing' = [losing EXCEPT ![s] = "no"]
      /\ sessionLost' = sessionLost \cup mine
      /\ override' = [a \in Action |->
            IF a \in ends /\ override[a] = "none" THEN "ORPHANED" ELSE override[a]]
      /\ toEnd' = toEnd \cup {a \in ends : sched[a] = "QUEUED"}
      /\ toStop' = toStop \cup {a \in ends : sched[a] = "RUNNING"}
      /\ UNCHANGED <<durable, up, health, sched, pc, result, stopRequested, slots, session,
                     safety, recovery, late, dispatched, history>>
  BY DEF MarkOrphans
<1>2. ends \subseteq Action /\ mine \subseteq Action
      /\ \A a \in ends : sched[a] \in {"QUEUED", "RUNNING"}
  OBVIOUS
<1> HIDE DEF mine, ends
<1>3. up \in {"running", "closing"}
  BY <1>1 DEF BootInv, Typed
<1>4. /\ override' \in [Action -> {"none", "TIMED_OUT", "ORPHANED"}]
      /\ losing' \in [Session -> {"no", "revoke", "mark"}]
  BY <1>1 DEF Typed
<1>5. Typed'
  BY <1>1, <1>2, <1>4 DEF Typed, durable, health, safety, history
<1>6. Overriding
  BY <1>1, <1>2, <1>3 DEF Overriding, durable, health, history
<1> QED
  BY <1>5, <1>6, OverridingKeeps

-----------------------------------------------------------------------------
(* The invariant holds *)

\* The invariant holds of a daemon that was never started.
LEMMA InitInv == Init => IInv
<1> SUFFICES ASSUME Init PROVE IInv
  OBVIOUS
<1>1. Typed
  <2>1. journal \in [Action -> Seq(ActionEvent)] /\ recoveryLog \in Seq(RecoveryEvent)
    BY EmptyJournal DEF Init
  <2>2. crashes \in 0 .. MaxCrashes /\ faults \in 0 .. MaxFaults /\ losses \in 0 .. MaxLosses
    BY ControlAssumption DEF Init
  <2> QED
    BY <2>1, <2>2 DEF Init, Typed, PermitState
<1>2. JobInv /\ DispatchInv /\ OverrideInv /\ MissingInv
  BY DEF Init, JobInv, JobOK, DispatchInv, DispatchOK, OverrideInv, OverrideOK, MissingInv,
         Blank, Waiting, Working, InFlight
<1>3. BootInv
  BY DEF Init, BootInv
<1>4. SlotInv
  <2>1. Flying = {}
    BY DEF Init, Flying, InFlight
  <2> QED
    BY <2>1, FS_EmptySet, ControlAssumption DEF Init, SlotInv
<1>5. ReviewInv
  BY ControlAssumption DEF Init, ReviewInv, InFlight
<1>6. HealthInv
  BY DEF Init, HealthInv, RecoveryReadable
<1> QED
  BY <1>1, <1>2, <1>3, <1>4, <1>5, <1>6 DEF IInv

\* A stuttering step keeps the invariant.
LEMMA StutterInv == IInv /\ UNCHANGED vars => IInv'
<1> SUFFICES ASSUME IInv, UNCHANGED vars PROVE IInv'
  OBVIOUS
<1>1. Typed'
  BY DEF IInv, Typed, vars, durable, health, jobs, marks, sessions, safety, history
<1>2. Quiet
  BY DEF IInv, HealthInv, Quiet, vars, durable, health, jobs, marks, sessions, safety, history
<1> QED
  BY <1>1, <1>2, QuietKeeps

\* Every step of the control plane keeps the invariant.
LEMMA StepInv == IInv /\ [Next]_vars => IInv'
<1> SUFFICES ASSUME IInv, [Next]_vars PROVE IInv'
  OBVIOUS
<1>1. CASE \/ Start \/ RequireReview \/ Serve \/ Close \/ Crash \/ LedgerFault
           \/ Arm \/ EmergencyStop \/ Latch \/ AcknowledgeRecovery
  BY <1>1, StartStep, RequireReviewStep, ServeStep, CloseStep, CrashStep, LedgerFaultStep,
     ArmStep, EmergencyStopStep, LatchStep, AcknowledgeRecoveryStep
<1>2. ASSUME NEW s \in Session,
             CreateSession(s) \/ EndSession(s) \/ LoseSessionUnhandled(s)
                \/ RevokeSession(s) \/ MarkOrphans(s)
      PROVE  IInv'
  BY <1>2, CreateSessionStep, EndSessionStep, LoseSessionUnhandledStep, RevokeSessionStep,
     MarkOrphansStep
<1>3. ASSUME NEW a \in Action,
             \/ Seal(a) \/ IssuePermit(a) \/ RequestAction(a) \/ CancelAction(a)
             \/ Pick(a) \/ Begin(a) \/ Authorize(a) \/ Submit(a) \/ Dispatch(a) \/ Return(a)
             \/ CheckOverride(a) \/ Finalize(a)
             \/ DeadlinePasses(a) \/ WatchdogOverride(a) \/ EndQueued(a) \/ StopRunning(a)
      PROVE  IInv'
  BY <1>3, SealStep, IssuePermitStep, RequestActionStep, CancelActionStep, PickStep, BeginStep,
     AuthorizeStep, SubmitStep, DispatchStep, ReturnStep, CheckOverrideStep, FinalizeStep,
     DeadlinePassesStep, WatchdogOverrideStep, EndQueuedStep, StopRunningStep
<1>4. CASE UNCHANGED vars
  BY <1>4, StutterInv
<1> QED
  BY <1>1, <1>2, <1>3, <1>4 DEF Next

\* The control plane keeps its inductive invariant.
THEOREM Invariant == Spec => []IInv
  BY InitInv, StepInv, PTL DEF Spec

-----------------------------------------------------------------------------
(* What follows *)

\* Every variable of the control plane has its type; in particular the free slots
\* of _queue_slots stay between 0 and its size.
THEOREM TypeCorrect == Spec => []TypeOK
  BY Invariant, InvariantTyped, PTL

\* A queue slot is held by exactly the jobs whose future is not done, through
\* every interleaving of threads, cancellation, watchdog and failing appends.
THEOREM SlotsAreConserved == Spec => []SlotsConserved
  BY Invariant, InvariantTyped, PTL

\* No interleaving of the action threads, the watchdog, cancellation, failing
\* appends, crashes and restart recovery writes the events of an action out of
\* order or ends it twice.
THEOREM JournalsInOrder == Spec => []JournalsWellFormed
<1>1. IInv => JournalsWellFormed
  BY ShapesWellFormed DEF IInv, JobInv, JobOK, JournalsWellFormed
<1> QED
  BY <1>1, Invariant, PTL

\* An action identifier reaches its executor at most once, however often it is
\* requested and however often the daemon restarts.
THEOREM AtMostOnce == Spec => []DispatchedAtMostOnce
<1>1. IInv => DispatchedAtMostOnce
  BY DEF IInv, DispatchInv, DispatchOK, DispatchedAtMostOnce
<1> QED
  BY <1>1, Invariant, PTL

\* No REAL executor is called before submission and start are on the ledger and
\* the permit is consumed.
THEOREM OnRecord == Spec => []DispatchIsOnRecord
<1>1. IInv => DispatchIsOnRecord
  BY ControlAssumption DEF IInv, DispatchInv, DispatchOK, DispatchIsOnRecord, Began
<1> QED
  BY <1>1, Invariant, PTL

\* A late success never replaces an override, in memory or on the ledger.
THEOREM OverridesStand == Spec => []OverrideStands
<1>1. IInv => OverrideStands
  BY DEF IInv, OverrideInv, OverrideOK, OverrideStands
<1> QED
  BY <1>1, Invariant, PTL

\* A REAL receipt that is missing from the ledger of a serving daemon is under
\* review or still with its thread.
THEOREM LostReceiptsReviewed == Spec => []UnrecordedRealIsReviewed
<1>1. IInv => UnrecordedRealIsReviewed
  BY ControlAssumption
     DEF IInv, MissingInv, MissingOK, OutcomeMissing, UnrecordedRealIsReviewed
<1> QED
  BY <1>1, Invariant, PTL

\* As long as no append fails, restart recovery reads back the reviews it and its
\* predecessors recorded, wherever they were cut off.
THEOREM ReviewsStayReadable == Spec => []ReviewsReadableWhileHealthy
<1>1. IInv => ReviewsReadableWhileHealthy
  BY DEF IInv, HealthInv, ReviewsReadableWhileHealthy
<1> QED
  BY <1>1, Invariant, PTL

\* No REAL executor is called while the outcome of a REAL action that a crash cut
\* off has not been acknowledged.
THEOREM ReviewFirst == Spec => NoDispatchBeforeReview
<1>1. ASSUME IInv, [Next]_vars
      PROVE  [\A a \in Real : dispatched'[a] # dispatched[a] => unknown \subseteq reviewed]_vars
  <2>1. ASSUME NEW a \in Action, Dispatch(a), NEW b \in Real, dispatched'[b] # dispatched[b]
        PROVE  unknown \subseteq reviewed
    <3>1. b \in Action /\ b = a /\ pc[b] = "submitted"
      BY <1>1, <2>1, ControlAssumption DEF Dispatch, IInv, Typed
    <3> QED
      BY <1>1, <3>1 DEF IInv, ReviewInv, InFlight
  <2>2. ASSUME ~(\E a \in Action : Dispatch(a)) PROVE dispatched' = dispatched
    BY <1>1, <2>2
       DEF Next, vars, Start, RequireReview, Serve, Close, Crash, LedgerFault, Arm,
           EmergencyStop, Latch, AcknowledgeRecovery, CreateSession, EndSession,
           LoseSessionUnhandled, RevokeSession, MarkOrphans, Seal, IssuePermit, RequestAction,
           CancelAction, Pick, Begin, Authorize, Submit, Return, CheckOverride, Finalize,
           DeadlinePasses, WatchdogOverride, EndQueued, StopRunning
  <2> QED
    BY <2>1, <2>2
<1> QED
  BY <1>1, Invariant, PTL DEF Spec, NoDispatchBeforeReview

=============================================================================
