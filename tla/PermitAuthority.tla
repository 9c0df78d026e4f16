----------------------------- MODULE PermitAuthority -----------------------------
(***************************************************************************)
(* The daemon's permit authority: the only source of authorization for     *)
(* REAL actions.  A permit is registered by the operator path, consumed by *)
(* the action that presents it, and revoked when its session is lost, when *)
(* trust changes, and on every restart.  Registration, consumption and     *)
(* revocation are ledger events; after a crash the authority is rebuilt    *)
(* from them.                                                              *)
(*                                                                         *)
(* The ledger is used through the actions of DurableLog.  Every method     *)
(* holds one lock, so it is one step, except that a bulk revocation writes *)
(* one event per permit and can stop between two of them.                  *)
(***************************************************************************)
EXTENDS Naturals, Sequences, FiniteSets

CONSTANTS
    Permit,         \* permit identifiers
    Action,         \* action identifiers
    Session,        \* agent sessions
    NoSession,      \* the session_id of a permit bound to none
    NoPermit,       \* an action that has consumed nothing
    SessionOf,      \* the session a permit is bound to
    MaxUses,        \* max_uses of a permit
    Binds           \* <<p, a>>: the envelope of a and its peer match p in
                    \* every bound field (peer, principal, session, body,
                    \* snapshot, capability, intent hash)

ASSUME PermitAssumption ==
    /\ NoPermit \notin Permit
    /\ NoSession \notin Session
    /\ SessionOf \in [Permit -> Session \cup {NoSession}]
    /\ MaxUses \in [Permit -> Nat \ {0}]
    /\ Binds \subseteq Permit \X Action

VARIABLES
    ledger,         \* the PERMIT events of the daemon ledger
    health,         \* the ledger handle: "down", "open" or "failed"
    restored,       \* the events the running process was rebuilt from
    permits,        \* _permits
    uses,           \* _uses
    consumed,       \* _consumed_actions
    revoked,        \* _revoked
    revoking,       \* permits a bulk revocation under way has still to revoke
    ready,          \* the constructor has returned
    expired,        \* permits whose expires_at has passed
    granted         \* history: <<p, a>> for which authorize() said yes

memory == <<permits, uses, consumed, revoked>>
vars == <<ledger, health, restored, memory, revoking, ready, expired, granted>>

Registered(p)    == [type |-> "PERMIT_REGISTERED", permit |-> p]
Consumed(p, a)   == [type |-> "PERMIT_CONSUMED", permit |-> p, action |-> a]
Revoked(p)       == [type |-> "PERMIT_REVOKED", permit |-> p]

PermitEvent ==
    {Registered(p) : p \in Permit}
        \cup {Consumed(p, a) : p \in Permit, a \in Action}
        \cup {Revoked(p) : p \in Permit}

Log == INSTANCE DurableLog
          WITH Event <- PermitEvent, log <- ledger, status <- health, seen <- restored

TypeOK ==
    /\ Log!TypeOK
    /\ permits \subseteq Permit
    /\ uses \in [Permit -> Nat]
    /\ consumed \in [Action -> Permit \cup {NoPermit}]
    /\ revoked \subseteq permits
    /\ revoking \subseteq permits
    /\ ready \in BOOLEAN
    /\ expired \subseteq Permit
    /\ granted \subseteq Permit \X Action

-----------------------------------------------------------------------------
(* Reading the ledger back *)

Positions(log, e) == {i \in DOMAIN log : log[i] = e}

Once(log, e) == \A i, j \in Positions(log, e) : i = j

Before(log, e, f) == \E i \in Positions(log, e) : \A j \in Positions(log, f) : i < j

Consumptions(log, p) ==
    {i \in DOMAIN log : \E a \in Action : log[i] = Consumed(p, a)}

(* The conditions under which _restore_from_ledger does not raise: a permit is *)
(* registered once and before it is consumed or revoked, no action consumes    *)
(* twice, no permit is consumed more often than it allows or by an action it   *)
(* is not bound to, and none is revoked twice.                                 *)
Replayable(log) ==
    /\ \A p \in Permit :
          /\ Once(log, Registered(p))
          /\ Once(log, Revoked(p))
          /\ Positions(log, Revoked(p)) # {} => Before(log, Registered(p), Revoked(p))
          /\ Cardinality(Consumptions(log, p)) <= MaxUses[p]
    /\ \A p \in Permit, a \in Action : Positions(log, Consumed(p, a)) # {} =>
          /\ Before(log, Registered(p), Consumed(p, a))
          /\ <<p, a>> \in Binds
    /\ \A i, j \in DOMAIN log, a \in Action, p, q \in Permit :
          log[i] = Consumed(p, a) /\ log[j] = Consumed(q, a) => i = j

(* The tables _restore_from_ledger builds from a replayable ledger. *)
PermitsIn(log) == {p \in Permit : Positions(log, Registered(p)) # {}}
RevokedIn(log) == {p \in Permit : Positions(log, Revoked(p)) # {}}
UsesIn(log)    == [p \in Permit |-> Cardinality(Consumptions(log, p))]
ConsumedIn(log) ==
    [a \in Action |->
        IF \E p \in Permit : Positions(log, Consumed(p, a)) # {}
          THEN CHOOSE p \in Permit : Positions(log, Consumed(p, a)) # {}
          ELSE NoPermit]

-----------------------------------------------------------------------------
Init ==
    /\ Log!Init
    /\ permits = {}
    /\ uses = [p \in Permit |-> 0]
    /\ consumed = [a \in Action |-> NoPermit]
    /\ revoked = {}
    /\ revoking = {}
    /\ ready = FALSE
    /\ expired = {}
    /\ granted = {}

(* Methods can be called, and the lock is free. *)
Idle == ready /\ revoking = {}

(* A handle that stays usable after an append with an unknown outcome. *)
AppendRaises_HandleKept(e) ==
    \/ health = "open" /\ ledger' \in {ledger, Append(ledger, e)} /\ UNCHANGED <<health, restored>>
    \/ Log!AppendRefused

(* append(e) raises: the event may be durable only if the handle broke now. *)
AppendRaises(e) ==
    \/ Log!AppendFails(e)
    \/ Log!AppendRefused

(* A replay that trusts the permits it finds. *)
Restore_NotRevoked ==
    /\ Log!Open
    /\ Replayable(ledger)
    /\ permits' = PermitsIn(ledger)
    /\ uses' = UsesIn(ledger)
    /\ consumed' = ConsumedIn(ledger)
    /\ revoked' = RevokedIn(ledger)
    /\ UNCHANGED <<revoking, ready, expired, granted>>

(* The process starts: __init__ replays the ledger and then revokes, one by    *)
(* one, every permit of the previous generation before it returns.             *)
Restore ==
    /\ Log!Open
    /\ Replayable(ledger)
    /\ permits' = PermitsIn(ledger)
    /\ uses' = UsesIn(ledger)
    /\ consumed' = ConsumedIn(ledger)
    /\ revoked' = RevokedIn(ledger)
    /\ revoking' = PermitsIn(ledger) \ RevokedIn(ledger)
    /\ UNCHANGED <<ready, expired, granted>>

Ready ==
    /\ health = "open"
    /\ ~ready
    /\ revoking = {}
    /\ ready' = TRUE
    /\ UNCHANGED <<ledger, health, restored, memory, revoking, expired, granted>>

(* The process ends, wherever it is; its tables are gone. *)
Crash ==
    /\ Log!Down
    /\ permits' = {}
    /\ uses' = [p \in Permit |-> 0]
    /\ consumed' = [a \in Action |-> NoPermit]
    /\ revoked' = {}
    /\ revoking' = {}
    /\ ready' = FALSE
    /\ UNCHANGED <<expired, granted>>

-----------------------------------------------------------------------------
(* register() of a permit that is not known; a known one changes nothing. *)
Register(p) ==
    /\ Idle
    /\ p \notin permits
    /\ \/ /\ Log!AppendOk(Registered(p))
          /\ permits' = permits \cup {p}
          /\ uses' = [uses EXCEPT ![p] = 0]
          /\ UNCHANGED <<consumed, revoked>>
       \/ AppendRaises(Registered(p)) /\ UNCHANGED memory
    /\ UNCHANGED <<revoking, ready, expired, granted>>

(* What authorize() requires of the permit before it looks at the action. *)
Usable(p) == p \in permits /\ p \notin expired /\ p \notin revoked

(* authorize() of an action that has consumed this permit before: allowed      *)
(* again, without a second use.                                                *)
AuthorizeAgain(p, a) ==
    /\ Idle
    /\ Usable(p)
    /\ <<p, a>> \in Binds
    /\ consumed[a] = p
    /\ granted' = granted \cup {<<p, a>>}
    /\ UNCHANGED <<ledger, health, restored, memory, revoking, ready, expired>>

(* An authorization that is granted when its consumption could not be written. *)
Authorize_FailOpen(p, a) ==
    /\ Idle
    /\ Usable(p)
    /\ <<p, a>> \in Binds
    /\ consumed[a] = NoPermit
    /\ uses[p] < MaxUses[p]
    /\ Log!AppendOk(Consumed(p, a)) \/ AppendRaises(Consumed(p, a))
    /\ uses' = [uses EXCEPT ![p] = @ + 1]
    /\ consumed' = [consumed EXCEPT ![a] = p]
    /\ granted' = granted \cup {<<p, a>>}
    /\ UNCHANGED <<permits, revoked, revoking, ready, expired>>

(* authorize() of an action that has consumed nothing, under a permit with     *)
(* uses left: the consumption is durable before the tables change.  Every      *)
(* other call is denied and changes nothing.                                   *)
Authorize(p, a) ==
    /\ Idle
    /\ Usable(p)
    /\ <<p, a>> \in Binds
    /\ consumed[a] = NoPermit
    /\ uses[p] < MaxUses[p]
    /\ \/ /\ Log!AppendOk(Consumed(p, a))
          /\ uses' = [uses EXCEPT ![p] = @ + 1]
          /\ consumed' = [consumed EXCEPT ![a] = p]
          /\ granted' = granted \cup {<<p, a>>}
          /\ UNCHANGED <<permits, revoked>>
       \/ AppendRaises(Consumed(p, a)) /\ UNCHANGED <<memory, granted>>
    /\ UNCHANGED <<revoking, ready, expired>>

-----------------------------------------------------------------------------
(* revoke_session() takes the unused permits of a session, revoke_all() every  *)
(* permit; both hold the lock until they are through or an append raises.      *)
RevokeSession(s) ==
    /\ Idle
    /\ revoking' = {p \in permits \ revoked : SessionOf[p] = s /\ uses[p] < MaxUses[p]}
    /\ UNCHANGED <<ledger, health, restored, memory, ready, expired, granted>>

RevokeAll ==
    /\ Idle
    /\ revoking' = permits \ revoked
    /\ UNCHANGED <<ledger, health, restored, memory, ready, expired, granted>>

(* A revocation that reaches the table only after the ledger. *)
RevokeNext_LedgerFirst(p) ==
    /\ p \in revoking
    /\ \/ /\ Log!AppendOk(Revoked(p))
          /\ revoking' = revoking \ {p}
          /\ revoked' = revoked \cup {p}
       \/ /\ ready
          /\ AppendRaises(Revoked(p))
          /\ revoking' = {}
          /\ UNCHANGED revoked
    /\ UNCHANGED <<permits, uses, consumed, ready, expired, granted>>

(* _revoke_locked(): the table first, the ledger after it.  If the append      *)
(* raises, the permits not reached yet are left alone; a constructor that      *)
(* raises leaves no process behind.                                            *)
RevokeNext(p) ==
    /\ p \in revoking
    /\ \/ /\ Log!AppendOk(Revoked(p))
          /\ revoking' = revoking \ {p}
          /\ revoked' = revoked \cup {p}
          /\ UNCHANGED <<permits, uses, consumed>>
       \/ /\ ready
          /\ AppendRaises(Revoked(p))
          /\ revoking' = {}
          /\ revoked' = revoked \cup {p}
          /\ UNCHANGED <<permits, uses, consumed>>
    /\ UNCHANGED <<ready, expired, granted>>

(* The ledger handle notices damage from outside (another caller's read). *)
LedgerFails ==
    /\ Log!Fail
    /\ UNCHANGED <<memory, revoking, ready, expired, granted>>

(* Time passes the expires_at of a permit. *)
Expire(p) ==
    /\ p \notin expired
    /\ expired' = expired \cup {p}
    /\ UNCHANGED <<ledger, health, restored, memory, revoking, ready, granted>>

Next ==
    \/ Restore
    \/ Ready
    \/ Crash
    \/ LedgerFails
    \/ \E p \in Permit : Register(p) \/ RevokeNext(p) \/ Expire(p)
    \/ \E p \in Permit, a \in Action : Authorize(p, a) \/ AuthorizeAgain(p, a)
    \/ \E s \in Session : RevokeSession(s)
    \/ RevokeAll

Spec == Init /\ [][Next]_vars

-----------------------------------------------------------------------------
(* Properties *)

(* Whatever crashes and ledger failures came between, the events the authority *)
(* has written replay without an integrity error, so a restart succeeds.       *)
LedgerReplayable == Replayable(ledger)

(* Across restarts, a permit authorizes at most max_uses actions, an action is *)
(* authorized by at most one permit, and each authorization is on the ledger.  *)
GrantsAreSingleUse ==
    /\ \A p \in Permit : Cardinality({a \in Action : <<p, a>> \in granted}) <= MaxUses[p]
    /\ \A g, h \in granted : g[2] = h[2] => g[1] = h[1]
    /\ \A g \in granted : Positions(ledger, Consumed(g[1], g[2])) # {}

(* A permit registered before the running process started never authorizes    *)
(* anything new, not even an action whose consumption the crash made durable  *)
(* and whose answer it swallowed: "Historical permits remain auditable but may *)
(* never authorize new physical work" (permits.py).                            *)
NoGrantFromEarlierGeneration ==
    [][\A g \in granted' \ granted : Positions(restored, Registered(g[1])) = {}]_vars

(* What the ledger says is revoked is revoked for the running process, even if *)
(* the append that says so raised; and the ledger never shows a consumption    *)
(* after the revocation of its permit.                                         *)
RevocationIsFinal ==
    /\ health # "down" => RevokedIn(ledger) \subseteq revoked
    /\ \A p \in Permit, a \in Action :
          \A i \in Positions(ledger, Revoked(p)), j \in Positions(ledger, Consumed(p, a)) : j < i

=============================================================================
