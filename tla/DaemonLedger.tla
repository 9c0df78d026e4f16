------------------------------ MODULE DaemonLedger ------------------------------
(***************************************************************************)
(* rosclawd's ledger: an SQLite table of HMAC-chained events plus a small  *)
(* signed "anchor" file that names the newest event.                       *)
(*                                                                         *)
(* The MAC of an event covers the MAC of its predecessor, so a MAC stands  *)
(* for the whole history up to its event; it is modelled by that history.  *)
(* The anchor (head sequence, head MAC) is therefore a sequence of events, *)
(* empty when the file does not exist.  A row whose MAC, predecessor or    *)
(* position is wrong is the value Forged.                                  *)
(*                                                                         *)
(* Around the daemon, the files can be changed from outside: the database  *)
(* can be rolled back or edited, the anchor can be rolled back, but not    *)
(* both between two verifications (docs/ROSCLAWD.md states that limit).    *)
(***************************************************************************)
EXTENDS Naturals, Sequences

CONSTANTS
    Event,          \* what the daemon appends
    Created,        \* the LEDGER_CREATED event that starts the chain
    Forged,         \* a row that fails verification
    MaxRows         \* bound: rows the database may hold

ASSUME RowAssumption == Created \notin Event /\ Forged \notin Event \cup {Created}
ASSUME MaxRowsAssumption == MaxRows \in Nat \ {0}

VARIABLES
    exists,         \* the database file exists
    db,             \* its rows
    anchor,         \* the history the anchor file signs
    pc,             \* "down", "open", "begun", "anchored" or "failed"
    pending,        \* the event of the append in progress
    dirty,          \* PRAGMA data_version differs from _observed_data_version
    seen,           \* rows the last open or read returned
    committed,      \* history: every row the daemon ever committed
    tampered        \* files changed from outside since the last verification

vars == <<exists, db, anchor, pc, pending, dirty, seen, committed, tampered>>

Row == Event \cup {Created}

TypeOK ==
    /\ exists \in BOOLEAN
    /\ db \in Seq(Row \cup {Forged})
    /\ anchor \in Seq(Row)
    /\ pc \in {"down", "open", "begun", "anchored", "failed"}
    /\ pending \in Row
    /\ dirty \in BOOLEAN
    /\ seen \in Seq(Row)
    /\ committed \in Seq(Row)
    /\ tampered \subseteq {"db", "anchor"}

Init ==
    /\ exists = FALSE
    /\ db = <<>>
    /\ anchor = <<>>
    /\ pc = "down"
    /\ pending = Created
    /\ dirty = FALSE
    /\ seen = <<>>
    /\ committed = <<>>
    /\ tampered = {}

-----------------------------------------------------------------------------
(* Verification *)

(* _verify_chain_locked: contiguous, chained, and starting with the creation *)
(* event.                                                                    *)
ChainOK ==
    /\ db # <<>>
    /\ db[1] = Created
    /\ \A i \in 1 .. Len(db) : db[i] # Forged

(* A verification that compares the MACs but not the two positions. *)
AnchorOK_PositionUnchecked ==
    /\ anchor # <<>>
    /\ \A i \in DOMAIN anchor \cap DOMAIN db : anchor[i] = db[i]

(* _verify_anchor_locked: the anchor does not lie beyond the head and its MAC *)
(* is the one of the row it names.                                            *)
AnchorOK ==
    /\ anchor # <<>>
    /\ Len(anchor) <= Len(db)
    /\ anchor = SubSeq(db, 1, Len(anchor))

(* A check that trusts the database while nobody else has written to it. *)
ExternalOK_AnchorIgnored == dirty => ChainOK /\ Len(anchor) > 0

(* _verify_external_changes_locked: the chain is read again only when another *)
(* connection has written, the anchor every time.                             *)
ExternalOK == AnchorOK /\ (dirty => ChainOK)

-----------------------------------------------------------------------------
(* Opening *)

(* __init__ with neither a database nor an anchor: connecting creates the file *)
(* and the schema; the creation event follows as the first append.             *)
OpenNew ==
    /\ pc = "down"
    /\ ~exists
    /\ anchor = <<>>
    /\ exists' = TRUE
    /\ pc' = "begun"
    /\ pending' = Created
    /\ UNCHANGED <<db, anchor, dirty, seen, committed, tampered>>

(* __init__ of an existing ledger.  One that is empty or does not verify makes *)
(* it raise: the daemon stays down.  A database ahead of its anchor is         *)
(* accepted and the anchor written again.                                      *)
OpenExisting ==
    /\ pc = "down"
    /\ exists
    /\ ChainOK
    /\ AnchorOK
    /\ anchor' = db
    /\ pc' = "open"
    /\ seen' = db
    /\ dirty' = FALSE
    /\ tampered' = {}
    /\ UNCHANGED <<exists, db, pending, committed>>

-----------------------------------------------------------------------------
(* Appending and reading *)

(* BEGIN IMMEDIATE, which shuts out every other writer until the COMMIT.  When *)
(* it raises (database busy) nothing has changed.                              *)
AppendBegin(e) ==
    /\ pc = "open"
    /\ Len(db) < MaxRows
    /\ pc' = "begun"
    /\ pending' = e
    /\ UNCHANGED <<exists, db, anchor, dirty, seen, committed, tampered>>

(* Verification precedes the writes of every append but the first, when no     *)
(* data version has been observed yet.                                         *)
MayWrite == pending = Created \/ ExternalOK

(* An append that extends the anchor it found instead of the head. *)
AppendAnchor_Extended ==
    /\ pc = "begun"
    /\ MayWrite
    /\ anchor' = Append(anchor, pending)
    /\ pc' = "anchored"
    /\ dirty' = FALSE
    /\ tampered' = {}
    /\ UNCHANGED <<exists, db, pending, seen, committed>>

(* The signed head moves first ... *)
AppendAnchor ==
    /\ pc = "begun"
    /\ MayWrite
    /\ anchor' = Append(db, pending)
    /\ pc' = "anchored"
    /\ dirty' = FALSE
    /\ tampered' = {}
    /\ UNCHANGED <<exists, db, pending, seen, committed>>

(* ... and the event is committed after it.  The creation event completes the  *)
(* open it is part of.                                                         *)
AppendCommit ==
    /\ pc = "anchored"
    /\ db' = Append(db, pending)
    /\ committed' = Append(committed, pending)
    /\ pc' = "open"
    /\ seen' = IF pending = Created THEN db' ELSE seen
    /\ UNCHANGED <<exists, anchor, pending, dirty, tampered>>

(* Where an exception leaves the process: __init__ closes the connection and   *)
(* raises, append() records the sticky _failure and raises.                    *)
Broken == IF pending = Created THEN "down" ELSE "failed"

(* Verification fails, or one of the anchor writes does (verification itself   *)
(* rewrites an anchor that is behind), before or after the new file replaced   *)
(* the old one: ROLLBACK.                                                      *)
AppendAnchorFails ==
    /\ pc = "begun"
    /\ pc' = Broken
    /\ \/ UNCHANGED anchor
       \/ MayWrite /\ anchor' \in {db, Append(db, pending)}
    /\ UNCHANGED <<exists, db, pending, dirty, seen, committed, tampered>>

(* The INSERT or the COMMIT raises; SQLite may or may not have made the row    *)
(* durable.                                                                    *)
AppendCommitFails ==
    /\ pc = "anchored"
    /\ pc' = Broken
    /\ \/ UNCHANGED <<db, committed>>
       \/ db' = Append(db, pending) /\ committed' = Append(committed, pending)
    /\ UNCHANGED <<exists, anchor, pending, dirty, seen, tampered>>

(* events() and status(): verified rows, or the sticky failure. *)
Read ==
    /\ pc = "open"
    /\ IF ExternalOK
         THEN /\ seen' = db
              /\ anchor' = db
              /\ dirty' = FALSE
              /\ tampered' = {}
              /\ UNCHANGED pc
         ELSE /\ pc' = "failed"
              /\ UNCHANGED <<seen, anchor, dirty, tampered>>
    /\ UNCHANGED <<exists, db, pending, committed>>

(* close(), or the process dies wherever it is. *)
Stop ==
    /\ pc # "down"
    /\ pc' = "down"
    /\ UNCHANGED <<exists, db, anchor, pending, dirty, seen, committed, tampered>>

-----------------------------------------------------------------------------
(* The environment *)

DatabaseWritable == pc \in {"down", "open", "failed"} /\ tampered \subseteq {"db"}

(* An older copy of the database takes its place. *)
RollBackDatabase ==
    /\ DatabaseWritable
    /\ \E n \in 0 .. Len(db) - 1 : db' = SubSeq(db, 1, n)
    /\ dirty' = TRUE
    /\ tampered' = tampered \cup {"db"}
    /\ UNCHANGED <<exists, anchor, pc, pending, seen, committed>>

(* A row is edited, inserted or deleted in place. *)
EditRow ==
    /\ DatabaseWritable
    /\ \E i \in 1 .. Len(db) : db' = [db EXCEPT ![i] = Forged]
    /\ dirty' = TRUE
    /\ tampered' = tampered \cup {"db"}
    /\ UNCHANGED <<exists, anchor, pc, pending, seen, committed>>

(* An older anchor takes the place of the current one. *)
RollBackAnchor ==
    /\ tampered \subseteq {"anchor"}
    /\ \E n \in 1 .. Len(anchor) - 1 : anchor' = SubSeq(anchor, 1, n)
    /\ tampered' = tampered \cup {"anchor"}
    /\ UNCHANGED <<exists, db, pc, pending, dirty, seen, committed>>

Next ==
    \/ OpenNew
    \/ OpenExisting
    \/ \E e \in Event : AppendBegin(e)
    \/ AppendAnchor
    \/ AppendCommit
    \/ AppendAnchorFails
    \/ AppendCommitFails
    \/ Read
    \/ Stop
    \/ RollBackDatabase
    \/ EditRow
    \/ RollBackAnchor

Spec == Init /\ [][Next]_vars

-----------------------------------------------------------------------------
(* Properties *)

(* A ledger that passes verification, whether an open, a read or an append     *)
(* asks, holds exactly the rows the daemon ever committed: no rollback of the  *)
(* database and no edit of a row goes unnoticed, and the order anchor-before-  *)
(* commit of _append_locked leaves no window in which it would.                *)
VerifiedIsComplete ==
    /\ pc = "down" /\ ChainOK /\ AnchorOK => db = committed
    /\ pc \in {"open", "anchored"} /\ ExternalOK => db = committed
    /\ pc = "begun" /\ pending # Created /\ ExternalOK => db = committed

(* Only three things make a ledger that was created unopenable: damage from    *)
(* outside, or an append that stopped between the anchor and the COMMIT, which *)
(* leaves the anchor one event ahead.                                          *)
UnopenableOnlyAfterInterruption ==
    pc = "down" /\ committed # <<>> /\ tampered = {} =>
        \/ ChainOK /\ AnchorOK
        \/ Len(anchor) = Len(committed) + 1

(* The abstract log this ledger implements: the committed events after the     *)
(* creation event.                                                             *)
Later(rows) == IF rows = <<>> THEN rows ELSE Tail(rows)

handle ==
    IF pc = "failed" THEN "failed"
    ELSE IF pc = "open" \/ (pc \in {"begun", "anchored"} /\ pending # Created)
           THEN "open"
           ELSE "down"

Log == INSTANCE DurableLog
          WITH log <- Later(committed), status <- handle, seen <- Later(seen)

(* Every behaviour of the ledger, damage from outside included, is one of an   *)
(* append-only log whose opens and reads return all of it.                     *)
ImplementsLog == Log!Spec

=============================================================================
