------------------------- MODULE PermitAuthorityProofs -------------------------
(***************************************************************************)
(* Proofs about PermitAuthority, for any permits, actions, sessions, uses, *)
(* crashes and ledger failures.                                            *)
(***************************************************************************)
EXTENDS PermitAuthority, FiniteSetTheorems, TLAPS

-----------------------------------------------------------------------------
(* Facts about the ledger and what is read from it *)

(* The three kinds of events, and events of different permits or actions, are *)
(* told apart.                                                                *)
LEMMA EventsDiffer ==
    ASSUME NEW p, NEW q, NEW a, NEW b
    PROVE  /\ Registered(p) # Revoked(q)
           /\ Registered(p) # Consumed(q, a)
           /\ Revoked(p) # Consumed(q, a)
           /\ Registered(p) = Registered(q) => p = q
           /\ Revoked(p) = Revoked(q) => p = q
           /\ Consumed(p, a) = Consumed(q, b) => p = q /\ a = b
<1>1. /\ Registered(p).type = "PERMIT_REGISTERED"
      /\ Registered(p).permit = p /\ Registered(q).permit = q
      /\ Revoked(q).type = "PERMIT_REVOKED" /\ Revoked(p).type = "PERMIT_REVOKED"
      /\ Revoked(p).permit = p /\ Revoked(q).permit = q
  BY DEF Registered, Revoked
<1>2. /\ Consumed(p, a).permit = p /\ Consumed(q, b).permit = q /\ Consumed(q, a).permit = q
      /\ Consumed(p, a).action = a /\ Consumed(q, b).action = b
      /\ Consumed(q, a).type = "PERMIT_CONSUMED"
  BY DEF Consumed
<1>3. "PERMIT_REGISTERED" # "PERMIT_REVOKED" /\ "PERMIT_REGISTERED" # "PERMIT_CONSUMED"
      /\ "PERMIT_REVOKED" # "PERMIT_CONSUMED"
  OBVIOUS
<1> QED
  BY <1>1, <1>2, <1>3, Zenon

(* Where an event is found after an append. *)
LEMMA PositionsAppend ==
    ASSUME NEW log \in Seq(PermitEvent), NEW e \in PermitEvent, NEW f
    PROVE  /\ Positions(Append(log, e), f)
                = Positions(log, f) \cup (IF e = f THEN {Len(log) + 1} ELSE {})
           /\ \A i \in Positions(log, f) : i \in Nat /\ i < Len(log) + 1
           /\ Len(log) + 1 \notin Positions(log, f)
<1>1. DOMAIN log = 1 .. Len(log) /\ Len(log) \in Nat
  OBVIOUS
<1>2. DOMAIN Append(log, e) = 1 .. Len(log) + 1
  OBVIOUS
<1>3. \A i \in 1 .. Len(log) : Append(log, e)[i] = log[i]
  OBVIOUS
<1>4. Append(log, e)[Len(log) + 1] = e
  OBVIOUS
<1> QED
  BY <1>1, <1>2, <1>3, <1>4 DEF Positions

(* The consumptions of a permit are finitely many, and an append adds one if   *)
(* it consumes it.                                                             *)
LEMMA ConsumptionsAppend ==
    ASSUME NEW log \in Seq(PermitEvent), NEW e \in PermitEvent, NEW p \in Permit
    PROVE  /\ IsFiniteSet(Consumptions(log, p))
           /\ Cardinality(Consumptions(log, p)) \in Nat
           /\ (\A a \in Action : e # Consumed(p, a)) =>
                 Consumptions(Append(log, e), p) = Consumptions(log, p)
           /\ (\E a \in Action : e = Consumed(p, a)) =>
                 Cardinality(Consumptions(Append(log, e), p))
                    = Cardinality(Consumptions(log, p)) + 1
<1>1. DOMAIN log = 1 .. Len(log) /\ Len(log) \in Nat
  OBVIOUS
<1>2. DOMAIN Append(log, e) = 1 .. Len(log) + 1
  OBVIOUS
<1>3. \A i \in 1 .. Len(log) : Append(log, e)[i] = log[i]
  OBVIOUS
<1>4. Append(log, e)[Len(log) + 1] = e
  OBVIOUS
<1>5. IsFiniteSet(Consumptions(log, p)) /\ Cardinality(Consumptions(log, p)) \in Nat
  <2>1. IsFiniteSet(1 .. Len(log))
    BY <1>1, FS_Interval
  <2>2. Consumptions(log, p) \in SUBSET (1 .. Len(log))
    BY <1>1 DEF Consumptions
  <2> QED
    BY <2>1, <2>2, FS_Subset, FS_CardinalityType
<1>6. (\A a \in Action : e # Consumed(p, a)) =>
         Consumptions(Append(log, e), p) = Consumptions(log, p)
  BY <1>1, <1>2, <1>3, <1>4 DEF Consumptions
<1>7. ASSUME \E a \in Action : e = Consumed(p, a)
      PROVE  Cardinality(Consumptions(Append(log, e), p))
                = Cardinality(Consumptions(log, p)) + 1
  <2>1. Consumptions(Append(log, e), p) = Consumptions(log, p) \cup {Len(log) + 1}
    BY <1>1, <1>2, <1>3, <1>4, <1>7 DEF Consumptions
  <2>2. Len(log) + 1 \notin Consumptions(log, p)
    BY <1>1 DEF Consumptions
  <2> QED
    BY <1>5, <2>1, <2>2, FS_AddElement
<1> QED
  BY <1>5, <1>6, <1>7

(* The event e may follow a replayable ledger. *)
MayFollow(log, e) ==
    /\ \A p \in Permit : e = Registered(p) => Positions(log, Registered(p)) = {}
    /\ \A p \in Permit : e = Revoked(p) =>
          Positions(log, Revoked(p)) = {} /\ Positions(log, Registered(p)) # {}
    /\ \A p \in Permit, a \in Action : e = Consumed(p, a) =>
          /\ Positions(log, Registered(p)) # {}
          /\ <<p, a>> \in Binds
          /\ Cardinality(Consumptions(log, p)) < MaxUses[p]
          /\ \A q \in Permit : Positions(log, Consumed(q, a)) = {}

(* A ledger that replays still does after an event that may follow it: the     *)
(* conditions of _restore_from_ledger, one by one.                             *)
LEMMA AppendReplays ==
    ASSUME NEW log \in Seq(PermitEvent), NEW e \in PermitEvent,
           Replayable(log), MayFollow(log, e)
    PROVE  Replayable(Append(log, e))
<1> DEFINE new == Append(log, e)
<1>1. ASSUME NEW f
      PROVE  /\ Positions(new, f) = Positions(log, f) \cup (IF e = f THEN {Len(log) + 1} ELSE {})
             /\ \A i \in Positions(log, f) : i \in Nat /\ i < Len(log) + 1
             /\ Len(log) + 1 \notin Positions(log, f)
  BY PositionsAppend
<1> HIDE DEF new
<1>2. ASSUME NEW p \in Permit PROVE Once(new, Registered(p)) /\ Once(new, Revoked(p))
  <2>1. Once(log, Registered(p)) /\ Once(log, Revoked(p))
    BY DEF Replayable
  <2>2. e = Registered(p) => Positions(log, Registered(p)) = {}
    BY DEF MayFollow
  <2>3. e = Revoked(p) => Positions(log, Revoked(p)) = {}
    BY DEF MayFollow
  <2> QED
    BY <2>1, <2>2, <2>3, <1>1 DEF Once
<1>3. ASSUME NEW p \in Permit, Positions(new, Revoked(p)) # {}
      PROVE  Before(new, Registered(p), Revoked(p))
  <2>1. Registered(p) # Revoked(p)
    BY EventsDiffer
  <2>2. CASE e = Revoked(p)
    <3>1. Positions(log, Revoked(p)) = {} /\ Positions(log, Registered(p)) # {}
      BY <2>2 DEF MayFollow
    <3>2. Positions(new, Revoked(p)) = {Len(log) + 1}
      BY <2>2, <3>1, <1>1
    <3>3. Positions(new, Registered(p)) = Positions(log, Registered(p))
      BY <2>1, <2>2, <1>1
    <3> QED
      BY <3>1, <3>2, <3>3, <1>1 DEF Before
  <2>3. CASE e # Revoked(p)
    <3>1. Positions(new, Revoked(p)) = Positions(log, Revoked(p))
      BY <2>3, <1>1
    <3>2. Before(log, Registered(p), Revoked(p))
      BY <1>3, <3>1 DEF Replayable
    <3> QED
      BY <3>1, <3>2, <1>1 DEF Before
  <2> QED
    BY <2>2, <2>3
<1>4. ASSUME NEW p \in Permit PROVE Cardinality(Consumptions(new, p)) <= MaxUses[p]
  <2>1. Cardinality(Consumptions(log, p)) <= MaxUses[p]
    BY DEF Replayable
  <2>2. CASE \A a \in Action : e # Consumed(p, a)
    BY <2>1, <2>2, ConsumptionsAppend DEF new
  <2>3. CASE \E a \in Action : e = Consumed(p, a)
    <3>1. Cardinality(Consumptions(log, p)) < MaxUses[p]
      BY <2>3 DEF MayFollow
    <3>2. Cardinality(Consumptions(new, p)) = Cardinality(Consumptions(log, p)) + 1
      BY <2>3, ConsumptionsAppend DEF new
    <3>3. Cardinality(Consumptions(log, p)) \in Nat
      BY ConsumptionsAppend
    <3>4. MaxUses[p] \in Nat
      BY PermitAssumption
    <3> QED
      BY <3>1, <3>2, <3>3, <3>4
  <2> QED
    BY <2>2, <2>3
<1>5. ASSUME NEW p \in Permit, NEW a \in Action, Positions(new, Consumed(p, a)) # {}
      PROVE  Before(new, Registered(p), Consumed(p, a)) /\ <<p, a>> \in Binds
  <2>1. Registered(p) # Consumed(p, a)
    BY EventsDiffer
  <2>2. CASE e = Consumed(p, a)
    <3>1. /\ Positions(log, Consumed(p, a)) = {} /\ Positions(log, Registered(p)) # {}
          /\ <<p, a>> \in Binds
      BY <2>2 DEF MayFollow
    <3>2. Positions(new, Consumed(p, a)) = {Len(log) + 1}
      BY <2>2, <3>1, <1>1
    <3>3. Positions(new, Registered(p)) = Positions(log, Registered(p))
      BY <2>1, <2>2, <1>1
    <3> QED
      BY <3>1, <3>2, <3>3, <1>1 DEF Before
  <2>3. CASE e # Consumed(p, a)
    <3>1. Positions(new, Consumed(p, a)) = Positions(log, Consumed(p, a))
      BY <2>3, <1>1
    <3>2. Before(log, Registered(p), Consumed(p, a)) /\ <<p, a>> \in Binds
      BY <1>5, <3>1 DEF Replayable
    <3> QED
      BY <3>1, <3>2, <1>1 DEF Before
  <2> QED
    BY <2>2, <2>3
<1>6. ASSUME NEW a \in Action, NEW p \in Permit, NEW q \in Permit,
             NEW i \in DOMAIN new, NEW j \in DOMAIN new,
             new[i] = Consumed(p, a), new[j] = Consumed(q, a)
      PROVE  i = j
  <2>1. i \in Positions(new, Consumed(p, a)) /\ j \in Positions(new, Consumed(q, a))
    BY <1>6 DEF Positions
  <2>2. CASE e = Consumed(p, a) \/ e = Consumed(q, a)
    <3>1. Positions(log, Consumed(p, a)) = {} /\ Positions(log, Consumed(q, a)) = {}
      BY <2>2 DEF MayFollow
    <3> QED
      BY <2>1, <3>1, <1>1
  <2>3. CASE e # Consumed(p, a) /\ e # Consumed(q, a)
    <3>1. i \in Positions(log, Consumed(p, a)) /\ j \in Positions(log, Consumed(q, a))
      BY <2>1, <2>3, <1>1
    <3>2. i \in DOMAIN log /\ j \in DOMAIN log /\ log[i] = Consumed(p, a) /\ log[j] = Consumed(q, a)
      BY <3>1 DEF Positions
    <3> QED
      BY <3>2 DEF Replayable
  <2> QED
    BY <2>2, <2>3
<1> QED
  BY <1>2, <1>3, <1>4, <1>5, <1>6 DEF Replayable, new

-----------------------------------------------------------------------------
(* The inductive invariant *)

(* What the tables of the running process say of the ledger.  As long as the   *)
(* handle is open they are what a replay would give, but for revocations the   *)
(* ledger refused; once it has failed the ledger may be one event ahead.       *)
TablesInv ==
    /\ health # "down" => permits \subseteq PermitsIn(ledger)
    /\ health = "open" => PermitsIn(ledger) \subseteq permits
    /\ health = "open" => \A p \in Permit : uses[p] = Cardinality(Consumptions(ledger, p))
    /\ \A a \in Action :
          consumed[a] # NoPermit => Positions(ledger, Consumed(consumed[a], a)) # {}
    /\ health = "open" => \A a \in Action, p \in Permit :
          consumed[a] = NoPermit => Positions(ledger, Consumed(p, a)) = {}

(* Every authorization ever given is on the ledger. *)
GrantedInv == \A g \in granted : Positions(ledger, Consumed(g[1], g[2])) # {}

(* The permits the process found on the ledger are revoked, or will be before  *)
(* the constructor returns.                                                    *)
GenerationInv ==
    /\ health = "down" => ~ready
    /\ health # "down" => PermitsIn(restored) \subseteq revoked \cup revoking
    /\ ready => PermitsIn(restored) \subseteq revoked
    /\ revoking \cap revoked = {}

IInv ==
    /\ TypeOK
    /\ LedgerReplayable
    /\ TablesInv
    /\ RevocationIsFinal
    /\ GrantedInv
    /\ GenerationInv

(* The second half of RevocationIsFinal, of any ledger. *)
NoLateUse(log) ==
    \A p \in Permit, a \in Action :
        \A i \in Positions(log, Revoked(p)), j \in Positions(log, Consumed(p, a)) : j < i

(* What the three kinds of append do to the ledger, whether they return or     *)
(* raise with an unknown outcome.                                              *)
LEMMA LedgerGrows ==
    ASSUME IInv, NEW e \in PermitEvent, MayFollow(ledger, e),
           ledger' \in {ledger, Append(ledger, e)},
           \A p \in Permit, a \in Action :
              e = Consumed(p, a) => Positions(ledger, Revoked(p)) = {}
    PROVE  /\ ledger' \in Seq(PermitEvent)
           /\ LedgerReplayable'
           /\ NoLateUse(ledger')
           /\ \A f : Positions(ledger, f) \subseteq Positions(ledger', f)
           /\ \A f : f # e => Positions(ledger', f) = Positions(ledger, f)
           /\ ledger' = Append(ledger, e) => Positions(ledger', e) # {}
<1>1. ledger \in Seq(PermitEvent) /\ Replayable(ledger) /\ NoLateUse(ledger)
  BY DEF IInv, TypeOK, Log!TypeOK, LedgerReplayable, RevocationIsFinal, NoLateUse
<1>2. CASE ledger' = ledger
  <2>1. Append(ledger, e) # ledger
    BY <1>1
  <2> QED
    BY <1>1, <1>2, <2>1 DEF LedgerReplayable
<1>3. CASE ledger' = Append(ledger, e)
  <2>1. ledger' \in Seq(PermitEvent) /\ LedgerReplayable'
    BY <1>1, <1>3, AppendReplays DEF LedgerReplayable
  <2>2. ASSUME NEW f
        PROVE  /\ Positions(ledger', f)
                    = Positions(ledger, f) \cup (IF e = f THEN {Len(ledger) + 1} ELSE {})
               /\ \A i \in Positions(ledger, f) : i \in Nat /\ i < Len(ledger) + 1
               /\ Len(ledger) + 1 \notin Positions(ledger, f)
    BY <1>1, <1>3, PositionsAppend
  <2>3. ASSUME NEW p \in Permit, NEW a \in Action,
               NEW i \in Positions(ledger', Revoked(p)),
               NEW j \in Positions(ledger', Consumed(p, a))
        PROVE  j < i
    <3>1. Revoked(p) # Consumed(p, a)
      BY EventsDiffer
    <3>2. CASE e = Revoked(p)
      <4>1. j \in Positions(ledger, Consumed(p, a))
        BY <2>2, <3>1, <3>2
      <4>2. i \in Positions(ledger, Revoked(p)) \/ i = Len(ledger) + 1
        BY <2>2
      <4> QED
        BY <1>1, <2>2, <4>1, <4>2 DEF NoLateUse
    <3>3. CASE e # Revoked(p)
      <4>1. i \in Positions(ledger, Revoked(p))
        BY <2>2, <3>3
      <4>2. e # Consumed(p, a)
        BY <4>1
      <4>3. j \in Positions(ledger, Consumed(p, a))
        BY <2>2, <4>2
      <4> QED
        BY <1>1, <4>1, <4>3 DEF NoLateUse
    <3> QED
      BY <3>2, <3>3
  <2> QED
    BY <2>1, <2>2, <2>3 DEF NoLateUse
<1> QED
  BY <1>2, <1>3

(* register() *)
LEMMA RegisterKeeps ==
    ASSUME IInv, NEW p \in Permit, Register(p)
    PROVE  IInv'
<1> DEFINE e == Registered(p)
<1>1. /\ e \in PermitEvent
      /\ \A q \in Permit, a \in Action : e # Consumed(q, a)
      /\ \A q \in Permit : e # Revoked(q) /\ (e = Registered(q) => q = p)
  BY EventsDiffer DEF PermitEvent
<1>2. ASSUME health = "open" PROVE MayFollow(ledger, e)
  <2>1. Positions(ledger, Registered(p)) = {}
    BY <1>2 DEF IInv, TablesInv, PermitsIn, Register
  <2> QED
    BY <1>1, <2>1 DEF MayFollow
<1> HIDE DEF e
<1>3. /\ ready /\ revoking = {} /\ p \notin permits
      /\ UNCHANGED <<restored, consumed, revoked, revoking, ready, expired, granted>>
  BY DEF Register, Idle, AppendRaises, memory, Log!AppendOk, Log!AppendRefused, Log!AppendFails,
     Log!vars
<1>4. CASE ledger' = ledger /\ health' \in {health, "failed"} /\ health # "down" /\ UNCHANGED memory
  BY <1>3, <1>4 DEF IInv, TypeOK, Log!TypeOK, LedgerReplayable, TablesInv, RevocationIsFinal,
        GrantedInv, GenerationInv, memory
<1>5. CASE health = "open" /\ ledger' = Append(ledger, e)
           /\ \/ health' = "open" /\ permits' = permits \cup {p} /\ uses' = [uses EXCEPT ![p] = 0]
              \/ health' = "failed" /\ UNCHANGED <<permits, uses>>
  <2>1. /\ ledger' \in Seq(PermitEvent) /\ LedgerReplayable' /\ NoLateUse(ledger')
        /\ \A f : Positions(ledger, f) \subseteq Positions(ledger', f)
        /\ \A f : f # e => Positions(ledger', f) = Positions(ledger, f)
        /\ Positions(ledger', e) # {}
    BY <1>1, <1>2, <1>5, LedgerGrows
  <2>2. \A q \in Permit : Consumptions(ledger', q) = Consumptions(ledger, q)
    BY <1>1, <1>5, ConsumptionsAppend DEF IInv, TypeOK, Log!TypeOK
  <2>3. Consumptions(ledger, p) = {} /\ Cardinality(Consumptions(ledger, p)) = 0
    <3>1. \A a \in Action : Positions(ledger, Consumed(p, a)) = {}
      <4>1. \A a \in Action : Positions(ledger, Consumed(p, a)) # {} =>
                Positions(ledger, Registered(p)) # {}
        BY DEF IInv, LedgerReplayable, Replayable, Before
      <4>2. Positions(ledger, Registered(p)) = {}
        BY <1>3, <1>5 DEF IInv, TablesInv, PermitsIn
      <4> QED
        BY <4>1, <4>2
    <3>2. Consumptions(ledger, p) = {}
      BY <3>1 DEF Consumptions, Positions
    <3> QED
      BY <3>2, FS_EmptySet
  <2>4. /\ PermitsIn(ledger') = PermitsIn(ledger) \cup {p}
        /\ RevokedIn(ledger') = RevokedIn(ledger)
    BY <1>1, <2>1 DEF PermitsIn, RevokedIn, e
  <2>5. TypeOK'
    BY <1>3, <1>5, <2>1 DEF IInv, TypeOK, Log!TypeOK
  <2>6. TablesInv'
    <3>1. \A q \in Permit : uses'[q] = uses[q] \/ health' # "open" \/ (q = p /\ uses'[q] = 0)
      BY <1>5 DEF IInv, TypeOK
    <3> QED
      BY <1>1, <1>3, <1>5, <2>1, <2>2, <2>3, <2>4, <3>1 DEF IInv, TablesInv
  <2>7. RevocationIsFinal'
    BY <1>3, <1>5, <2>1, <2>4 DEF IInv, RevocationIsFinal, NoLateUse
  <2>8. GrantedInv' /\ GenerationInv'
    BY <1>3, <1>5, <2>1 DEF IInv, GrantedInv, GenerationInv
  <2> QED
    BY <2>1, <2>5, <2>6, <2>7, <2>8 DEF IInv
<1> QED
  <2>1. health # "down"
    BY <1>3 DEF IInv, GenerationInv
  <2> QED
    BY <1>4, <1>5, <2>1 DEF Register, AppendRaises, memory, Log!AppendOk, Log!AppendRefused,
          Log!AppendFails, Log!vars, e

(* authorize() of an action that has consumed nothing *)
LEMMA AuthorizeKeeps ==
    ASSUME IInv, NEW p \in Permit, NEW a \in Action, Authorize(p, a)
    PROVE  IInv'
<1> DEFINE e == Consumed(p, a)
<1>1. /\ e \in PermitEvent
      /\ \A q \in Permit : e # Registered(q) /\ e # Revoked(q)
      /\ \A q \in Permit, b \in Action : e = Consumed(q, b) => q = p /\ b = a
  BY EventsDiffer DEF PermitEvent
<1>2. /\ ready /\ revoking = {} /\ p \in permits /\ p \notin revoked
      /\ <<p, a>> \in Binds /\ consumed[a] = NoPermit /\ uses[p] < MaxUses[p]
      /\ UNCHANGED <<restored, permits, revoked, revoking, ready, expired>>
  BY DEF Authorize, Usable, Idle, AppendRaises, memory, Log!AppendOk, Log!AppendRefused,
        Log!AppendFails, Log!vars
<1>3. health # "down" /\ Positions(ledger, Registered(p)) # {}
  BY <1>2 DEF IInv, GenerationInv, TablesInv, PermitsIn
<1>4. Positions(ledger, Revoked(p)) = {}
  BY <1>2, <1>3 DEF IInv, RevocationIsFinal, RevokedIn
<1>5. ASSUME health = "open" PROVE MayFollow(ledger, e)
  <2>1. Cardinality(Consumptions(ledger, p)) < MaxUses[p]
    BY <1>2, <1>5 DEF IInv, TablesInv
  <2>2. \A q \in Permit : Positions(ledger, Consumed(q, a)) = {}
    BY <1>2, <1>5 DEF IInv, TablesInv
  <2> QED
    BY <1>1, <1>2, <1>3, <2>1, <2>2 DEF MayFollow
<1>6. CASE ledger' = ledger /\ health' \in {health, "failed"} /\ UNCHANGED <<memory, granted>>
  BY <1>2, <1>3, <1>6 DEF IInv, TypeOK, Log!TypeOK, LedgerReplayable, TablesInv,
        RevocationIsFinal, GrantedInv, GenerationInv, memory
<1>7. CASE health = "open" /\ ledger' = Append(ledger, e)
           /\ \/ /\ health' = "open" /\ uses' = [uses EXCEPT ![p] = @ + 1]
                 /\ consumed' = [consumed EXCEPT ![a] = p]
                 /\ granted' = granted \cup {<<p, a>>}
              \/ health' = "failed" /\ UNCHANGED <<uses, consumed, granted>>
  <2> HIDE DEF e
  <2>1. /\ ledger' \in Seq(PermitEvent) /\ LedgerReplayable' /\ NoLateUse(ledger')
        /\ \A f : Positions(ledger, f) \subseteq Positions(ledger', f)
        /\ \A f : f # e => Positions(ledger', f) = Positions(ledger, f)
        /\ Positions(ledger', e) # {}
    BY <1>1, <1>4, <1>5, <1>7, LedgerGrows
  <2>2. \A q \in Permit : Cardinality(Consumptions(ledger', q))
            = IF q = p THEN Cardinality(Consumptions(ledger, p)) + 1
                       ELSE Cardinality(Consumptions(ledger, q))
    <3>1. ledger \in Seq(PermitEvent)
      BY DEF IInv, TypeOK, Log!TypeOK
    <3> QED
      BY <1>1, <1>7, <3>1, ConsumptionsAppend DEF e
  <2>3. /\ PermitsIn(ledger') = PermitsIn(ledger)
        /\ RevokedIn(ledger') = RevokedIn(ledger)
    BY <1>1, <2>1 DEF PermitsIn, RevokedIn
  <2>4. TypeOK'
    <3>1. uses' \in [Permit -> Nat] /\ consumed' \in [Action -> Permit \cup {NoPermit}]
      BY <1>7 DEF IInv, TypeOK
    <3>2. granted' \subseteq Permit \X Action
      BY <1>7 DEF IInv, TypeOK
    <3> QED
      BY <1>2, <1>7, <2>1, <3>1, <3>2 DEF IInv, TypeOK, Log!TypeOK
  <2>5. TablesInv'
    <3>1. health' = "open" =>
             /\ \A q \in Permit : uses'[q] = IF q = p THEN uses[p] + 1 ELSE uses[q]
             /\ \A b \in Action : consumed'[b] = IF b = a THEN p ELSE consumed[b]
      BY <1>7 DEF IInv, TypeOK
    <3>2. \A b \in Action : consumed'[b] # NoPermit =>
             Positions(ledger', Consumed(consumed'[b], b)) # {}
      BY <1>7, <2>1, <3>1 DEF IInv, TablesInv, e
    <3>3. health' = "open" => \A b \in Action, q \in Permit :
             consumed'[b] = NoPermit => Positions(ledger', Consumed(q, b)) = {}
      BY <1>1, <1>7, <2>1, <3>1, PermitAssumption DEF IInv, TablesInv
    <3>4. health' = "open" =>
             \A q \in Permit : uses'[q] = Cardinality(Consumptions(ledger', q))
      BY <1>7, <2>2, <3>1 DEF IInv, TablesInv
    <3> QED
      BY <1>2, <1>7, <2>3, <3>2, <3>3, <3>4 DEF IInv, TablesInv
  <2>6. RevocationIsFinal'
    BY <1>2, <1>7, <2>1, <2>3 DEF IInv, RevocationIsFinal, NoLateUse
  <2>7. GrantedInv'
    BY <1>7, <2>1 DEF IInv, GrantedInv, e
  <2>8. GenerationInv'
    BY <1>2, <1>7 DEF IInv, GenerationInv
  <2> QED
    BY <2>1, <2>4, <2>5, <2>6, <2>7, <2>8 DEF IInv
<1> QED
  BY <1>6, <1>7 DEF Authorize, AppendRaises, memory, Log!AppendOk, Log!AppendRefused,
        Log!AppendFails, Log!vars

(* _revoke_locked() *)
LEMMA RevokeNextKeeps ==
    ASSUME IInv, NEW p \in Permit, RevokeNext(p)
    PROVE  IInv'
<1> DEFINE e == Revoked(p)
<1>1. /\ e \in PermitEvent
      /\ \A q \in Permit, a \in Action : e # Consumed(q, a)
      /\ \A q \in Permit : e # Registered(q) /\ (e = Revoked(q) => q = p)
  BY EventsDiffer DEF PermitEvent
<1>2. /\ p \in revoking /\ revoked' = revoked \cup {p}
      /\ UNCHANGED <<restored, permits, uses, consumed, ready, expired, granted>>
      /\ \/ revoking' = revoking \ {p} /\ Log!AppendOk(e)
         \/ revoking' = {} /\ ready /\ AppendRaises(e)
  BY DEF RevokeNext, AppendRaises, Log!AppendOk, Log!AppendRefused, Log!AppendFails, Log!vars
<1> HIDE DEF e
<1>3. p \in permits /\ p \notin revoked
  BY <1>2 DEF IInv, TypeOK, GenerationInv
<1>4. ASSUME health = "open" PROVE MayFollow(ledger, e)
  <2>1. Positions(ledger, Revoked(p)) = {}
    BY <1>3, <1>4 DEF IInv, RevocationIsFinal, RevokedIn
  <2>2. Positions(ledger, Registered(p)) # {}
    BY <1>3, <1>4 DEF IInv, TablesInv, PermitsIn
  <2> QED
    BY <1>1, <2>1, <2>2 DEF MayFollow
<1>5. GenerationInv' /\ (health = "down" <=> health' = "down")
  BY <1>2, <1>3 DEF IInv, GenerationInv, AppendRaises, Log!AppendOk, Log!AppendRefused,
        Log!AppendFails, Log!vars
<1>6. CASE ledger' = ledger /\ health' \in {health, "failed"}
  BY <1>2, <1>3, <1>5, <1>6 DEF IInv, TypeOK, Log!TypeOK, LedgerReplayable, TablesInv,
        RevocationIsFinal, GrantedInv
<1>7. CASE health = "open" /\ ledger' = Append(ledger, e) /\ health' \in {"open", "failed"}
  <2>1. /\ ledger' \in Seq(PermitEvent) /\ LedgerReplayable' /\ NoLateUse(ledger')
        /\ \A f : Positions(ledger, f) \subseteq Positions(ledger', f)
        /\ \A f : f # e => Positions(ledger', f) = Positions(ledger, f)
    BY <1>1, <1>4, <1>7, LedgerGrows
  <2>2. \A q \in Permit : Consumptions(ledger', q) = Consumptions(ledger, q)
    BY <1>1, <1>7, ConsumptionsAppend DEF IInv, TypeOK, Log!TypeOK
  <2>3. /\ PermitsIn(ledger') = PermitsIn(ledger)
        /\ RevokedIn(ledger') \subseteq RevokedIn(ledger) \cup {p}
    BY <1>1, <2>1 DEF PermitsIn, RevokedIn
  <2>4. TypeOK'
    BY <1>2, <1>3, <1>7, <2>1 DEF IInv, TypeOK, Log!TypeOK
  <2>5. TablesInv'
    BY <1>1, <1>2, <1>7, <2>1, <2>2, <2>3 DEF IInv, TablesInv
  <2>6. RevocationIsFinal'
    BY <1>2, <1>7, <2>1, <2>3 DEF IInv, RevocationIsFinal, NoLateUse
  <2>7. GrantedInv'
    BY <1>2, <2>1 DEF IInv, GrantedInv
  <2> QED
    BY <1>5, <2>1, <2>4, <2>5, <2>6, <2>7 DEF IInv
<1> QED
  BY <1>2, <1>6, <1>7 DEF AppendRaises, Log!AppendOk, Log!AppendRefused, Log!AppendFails, Log!vars

(* __init__, up to the revocations *)
LEMMA RestoreKeeps == IInv /\ Restore => IInv'
<1> SUFFICES ASSUME IInv, Restore PROVE IInv'
  OBVIOUS
<1>1. /\ health = "down" /\ health' = "open" /\ restored' = ledger /\ ~ready
      /\ ledger \in Seq(PermitEvent)
      /\ UNCHANGED <<ledger, ready, expired, granted>>
  BY DEF IInv, TypeOK, Log!TypeOK, GenerationInv, Restore, Log!Open
<1>2. /\ permits' = PermitsIn(ledger) /\ uses' = UsesIn(ledger)
      /\ consumed' = ConsumedIn(ledger) /\ revoked' = RevokedIn(ledger)
      /\ revoking' = PermitsIn(ledger) \ RevokedIn(ledger)
  BY DEF Restore
<1>3. RevokedIn(ledger) \subseteq PermitsIn(ledger)
  BY DEF IInv, LedgerReplayable, Replayable, Before, RevokedIn, PermitsIn
<1>4. \A p \in Permit :
         Cardinality(Consumptions(ledger, p)) \in Nat
         /\ uses'[p] = Cardinality(Consumptions(ledger, p))
  <2>1. ASSUME NEW p \in Permit PROVE Cardinality(Consumptions(ledger, p)) \in Nat
    <3>1. Registered(p) \in PermitEvent
      BY DEF PermitEvent
    <3> QED
      BY <1>1, <3>1, ConsumptionsAppend
  <2> QED
    BY <1>2, <2>1 DEF UsesIn
<1>5. ASSUME NEW a \in Action
      PROVE  /\ consumed'[a] \in Permit \cup {NoPermit}
             /\ consumed'[a] # NoPermit => Positions(ledger, Consumed(consumed'[a], a)) # {}
             /\ consumed'[a] = NoPermit =>
                   \A p \in Permit : Positions(ledger, Consumed(p, a)) = {}
  <2>1. consumed'[a] = IF \E p \in Permit : Positions(ledger, Consumed(p, a)) # {}
                         THEN CHOOSE p \in Permit : Positions(ledger, Consumed(p, a)) # {}
                         ELSE NoPermit
    BY <1>2 DEF ConsumedIn
  <2> QED
    BY <2>1, PermitAssumption
<1>6. TypeOK'
  <2>1. uses' \in [Permit -> Nat]
    BY <1>2, <1>4 DEF UsesIn
  <2>2. consumed' \in [Action -> Permit \cup {NoPermit}]
    <3>1. consumed' = [a \in Action |-> consumed'[a]]
      BY <1>2 DEF ConsumedIn
    <3> QED
      BY <1>5, <3>1
  <2>3. permits' \subseteq Permit /\ revoked' \subseteq permits' /\ revoking' \subseteq permits'
    BY <1>2, <1>3 DEF PermitsIn
  <2> QED
    BY <1>1, <2>1, <2>2, <2>3 DEF IInv, TypeOK, Log!TypeOK
<1>7. TablesInv'
  BY <1>1, <1>2, <1>4, <1>5 DEF TablesInv
<1>8. LedgerReplayable' /\ RevocationIsFinal' /\ GrantedInv'
  BY <1>1, <1>2 DEF IInv, LedgerReplayable, RevocationIsFinal, GrantedInv
<1>9. GenerationInv'
  BY <1>1, <1>2 DEF GenerationInv
<1> QED
  BY <1>6, <1>7, <1>8, <1>9 DEF IInv

(* The process ends. *)
LEMMA CrashKeeps == IInv /\ Crash => IInv'
<1> SUFFICES ASSUME IInv, Crash PROVE IInv'
  OBVIOUS
<1>1. health' = "down" /\ UNCHANGED <<ledger, restored>>
  BY DEF Crash, Log!Down
<1>2. TypeOK'
  BY <1>1 DEF IInv, TypeOK, Log!TypeOK, Crash
<1>3. TablesInv' /\ GenerationInv'
  BY <1>1 DEF TablesInv, GenerationInv, Crash
<1>4. LedgerReplayable' /\ RevocationIsFinal' /\ GrantedInv'
  BY <1>1 DEF IInv, LedgerReplayable, RevocationIsFinal, GrantedInv, Crash
<1> QED
  BY <1>2, <1>3, <1>4 DEF IInv

(* The steps that leave ledger and tables as they are. *)
Elsewhere ==
    \/ Ready \/ LedgerFails \/ RevokeAll \/ UNCHANGED vars
    \/ \E p \in Permit : Expire(p)
    \/ \E s \in Session : RevokeSession(s)
    \/ \E p \in Permit, a \in Action : AuthorizeAgain(p, a)

\* What other users of the ledger do leaves the tables of the authority alone.
LEMMA ElsewhereKeeps == IInv /\ Elsewhere => IInv'
<1> SUFFICES ASSUME IInv, Elsewhere PROVE IInv'
  OBVIOUS
<1>1. /\ UNCHANGED <<ledger, restored, memory>>
      /\ health' = health \/ (health = "open" /\ health' = "failed")
  BY DEF Elsewhere, Ready, LedgerFails, RevokeAll, vars, Expire, RevokeSession, AuthorizeAgain,
        Log!Fail, memory
<1>2. LedgerReplayable' /\ TablesInv' /\ RevocationIsFinal'
  BY <1>1 DEF IInv, LedgerReplayable, TablesInv, RevocationIsFinal, memory
<1>3. TypeOK'
  <2>1. revoking' \subseteq permits
    BY DEF IInv, TypeOK, Elsewhere, Ready, LedgerFails, RevokeAll, vars, Expire, RevokeSession,
          AuthorizeAgain
  <2>2. ready' \in BOOLEAN /\ expired' \subseteq Permit
    BY DEF IInv, TypeOK, Elsewhere, Ready, LedgerFails, RevokeAll, vars, Expire, RevokeSession,
          AuthorizeAgain
  <2>3. granted' \subseteq Permit \X Action
    <3>1. \/ granted' = granted
          \/ \E p \in Permit, a \in Action : granted' = granted \cup {<<p, a>>}
      BY DEF Elsewhere, Ready, LedgerFails, RevokeAll, vars, Expire, RevokeSession,
            AuthorizeAgain
    <3> QED
      BY <3>1 DEF IInv, TypeOK
  <2> QED
    BY <1>1, <2>1, <2>2, <2>3 DEF IInv, TypeOK, Log!TypeOK, memory
<1>4. GrantedInv'
  <2>1. \A g \in granted' \ granted : \E p \in Permit, a \in Action :
           g = <<p, a>> /\ consumed[a] = p
    BY DEF Elsewhere, Ready, LedgerFails, RevokeAll, vars, Expire, RevokeSession, AuthorizeAgain
  <2>2. \A p \in Permit, a \in Action : consumed[a] = p => Positions(ledger, Consumed(p, a)) # {}
    BY PermitAssumption DEF IInv, TablesInv
  <2> QED
    BY <1>1, <2>1, <2>2 DEF IInv, GrantedInv, memory
<1>5. GenerationInv'
  <2>1. CASE Ready
    BY <1>1, <2>1 DEF IInv, GenerationInv, Ready, memory
  <2>2. CASE RevokeAll \/ \E t \in Session : RevokeSession(t)
    BY <1>1, <2>2 DEF IInv, GenerationInv, RevokeAll, RevokeSession, Idle, memory
  <2>3. CASE UNCHANGED <<ready, revoking>>
    BY <1>1, <2>3 DEF IInv, GenerationInv, memory
  <2> QED
    BY <2>1, <2>2, <2>3 DEF Elsewhere, LedgerFails, vars, Expire, AuthorizeAgain
<1> QED
  BY <1>2, <1>3, <1>4, <1>5 DEF IInv

-----------------------------------------------------------------------------
(* The theorems *)

\* The invariant holds of an authority without permits.
LEMMA InitHolds == Init => IInv
<1> SUFFICES ASSUME Init PROVE IInv
  OBVIOUS
<1>1. ledger = <<>> /\ restored = <<>> /\ health = "down"
  BY DEF Init, Log!Init
<1>2. \A f : Positions(ledger, f) = {} /\ DOMAIN ledger = {}
  BY <1>1 DEF Positions
<1>3. TypeOK
  <2>1. uses \in [Permit -> Nat] /\ consumed \in [Action -> Permit \cup {NoPermit}]
    BY DEF Init
  <2>2. ledger \in Seq(PermitEvent) /\ restored \in Seq(PermitEvent)
    BY <1>1
  <2> QED
    BY <1>1, <2>1, <2>2 DEF Init, TypeOK, Log!TypeOK
<1>4. LedgerReplayable
  <2>1. \A p \in Permit : Cardinality(Consumptions(ledger, p)) <= MaxUses[p]
    <3>1. \A p \in Permit : Consumptions(ledger, p) = {} /\ MaxUses[p] \in Nat
      BY <1>2, PermitAssumption DEF Consumptions
    <3> QED
      BY <3>1, FS_EmptySet
  <2> QED
    BY <1>2, <2>1 DEF LedgerReplayable, Replayable, Once
<1>5. TablesInv /\ RevocationIsFinal /\ GrantedInv /\ GenerationInv
  BY <1>1, <1>2 DEF Init, TablesInv, RevocationIsFinal, GrantedInv, GenerationInv
<1> QED
  BY <1>3, <1>4, <1>5 DEF IInv

\* Every step of the authority keeps the invariant.
LEMMA StepKeeps == IInv /\ [Next]_vars => IInv'
  BY RegisterKeeps, AuthorizeKeeps, RevokeNextKeeps, RestoreKeeps, CrashKeeps, ElsewhereKeeps
     DEF Next, Elsewhere

\* The invariant is inductive.
LEMMA Invariance == Spec => []IInv
  BY InitHolds, StepKeeps, PTL DEF Spec

(* The tables of the authority and the ledger it writes keep their types.      *)
THEOREM TypeCorrect == Spec => []TypeOK
<1>1. IInv => TypeOK
  BY DEF IInv
<1> QED
  BY <1>1, Invariance, PTL

(* Whatever crashes and failing appends come between, _restore_from_ledger     *)
(* accepts what the authority has written.                                     *)
THEOREM RestartReplays == Spec => []LedgerReplayable
<1>1. IInv => LedgerReplayable
  BY DEF IInv
<1> QED
  BY <1>1, Invariance, PTL

(* What is revoked on the ledger is revoked for the process, and nothing is    *)
(* consumed after it was revoked.                                              *)
THEOREM RevocationHolds == Spec => []RevocationIsFinal
<1>1. IInv => RevocationIsFinal
  BY DEF IInv
<1> QED
  BY <1>1, Invariance, PTL

(* The actions a permit has authorized are told apart by where the ledger      *)
(* consumes it.                                                                *)
LEMMA GrantsAreCounted ==
    ASSUME IInv, NEW p \in Permit
    PROVE  Cardinality({a \in Action : <<p, a>> \in granted}) <= MaxUses[p]
<1> DEFINE S == {a \in Action : <<p, a>> \in granted}
           T == Consumptions(ledger, p)
           f == [a \in S |-> CHOOSE i \in T : ledger[i] = Consumed(p, a)]
<1>1. ASSUME NEW a \in S PROVE f[a] \in T /\ ledger[f[a]] = Consumed(p, a)
  <2>1. \E i \in T : ledger[i] = Consumed(p, a)
    BY DEF IInv, GrantedInv, Positions, Consumptions
  <2> QED
    BY <2>1
<1>2. f \in Injection(S, T)
  <2>1. f \in [S -> T]
    BY <1>1
  <2>2. ASSUME NEW a \in S, NEW b \in S, f[a] = f[b] PROVE a = b
    BY <1>1, <2>2, EventsDiffer
  <2> QED
    BY <2>1, <2>2 DEF Injection, IsInjective
<1>3. IsFiniteSet(T) /\ Cardinality(T) \in Nat
  <2>1. Registered(p) \in PermitEvent
    BY DEF PermitEvent
  <2> QED
    BY <2>1, ConsumptionsAppend DEF IInv, TypeOK, Log!TypeOK
<1>4. Cardinality(S) <= Cardinality(T) /\ Cardinality(S) \in Nat
  BY <1>2, <1>3, FS_Injection, FS_CardinalityType
<1>5. Cardinality(T) <= MaxUses[p] /\ MaxUses[p] \in Nat
  BY PermitAssumption DEF IInv, LedgerReplayable, Replayable
<1> HIDE DEF S, T
<1>6. Cardinality(S) <= MaxUses[p]
  BY <1>3, <1>4, <1>5
<1> QED
  BY <1>6 DEF S

(* authorize() never says yes to more actions than a permit allows, nor to one *)
(* action under two permits, over all restarts.                                *)
THEOREM GrantsAreBounded == Spec => []GrantsAreSingleUse
<1>1. IInv => GrantsAreSingleUse
  <2> SUFFICES ASSUME IInv PROVE GrantsAreSingleUse
    OBVIOUS
  <2>1. \A g \in granted : Positions(ledger, Consumed(g[1], g[2])) # {}
    BY DEF IInv, GrantedInv
  <2>2. ASSUME NEW g \in granted, NEW h \in granted, g[2] = h[2] PROVE g[1] = h[1]
    <3>1. g[1] \in Permit /\ h[1] \in Permit /\ g[2] \in Action
      BY DEF IInv, TypeOK
    <3>2. PICK i \in DOMAIN ledger : ledger[i] = Consumed(g[1], g[2])
      BY <2>1 DEF Positions
    <3>3. PICK j \in DOMAIN ledger : ledger[j] = Consumed(h[1], g[2])
      BY <2>1, <2>2 DEF Positions
    <3>4. i = j
      BY <3>1, <3>2, <3>3 DEF IInv, LedgerReplayable, Replayable
    <3> QED
      BY <3>2, <3>3, <3>4, EventsDiffer
  <2> QED
    BY <2>1, <2>2, GrantsAreCounted DEF GrantsAreSingleUse
<1> QED
  BY <1>1, Invariance, PTL

(* No permit of an earlier generation authorizes anything new.                 *)
THEOREM GenerationsAreSeparate == Spec => NoGrantFromEarlierGeneration
<1> DEFINE Fresh == \A g \in granted' \ granted : Positions(restored, Registered(g[1])) = {}
<1>1. IInv /\ [Next]_vars => [Fresh]_vars
  <2> SUFFICES ASSUME IInv, Next PROVE Fresh
    OBVIOUS
  <2>1. \A g \in granted' \ granted :
           ready /\ \E p \in Permit, a \in Action : g = <<p, a>> /\ p \notin revoked
    BY DEF Next, Restore, Ready, Crash, LedgerFails, Register, RevokeNext, Expire, Authorize,
          AuthorizeAgain, RevokeSession, RevokeAll, Idle, Usable
  <2>2. ready => \A p \in Permit : p \notin revoked => Positions(restored, Registered(p)) = {}
    BY DEF IInv, GenerationInv, PermitsIn
  <2> QED
    BY <2>1, <2>2
<1> QED
  BY <1>1, Invariance, PTL DEF Spec, NoGrantFromEarlierGeneration

=============================================================================
