--------------------------- MODULE DaemonLedgerProofs ---------------------------
(***************************************************************************)
(* Proofs about DaemonLedger, for every set of events and every bound:     *)
(* what verification accepts is complete, and the ledger implements        *)
(* DurableLog.                                                             *)
(***************************************************************************)
EXTENDS DaemonLedger, TLAPS

(* A database changed from outside is shorter than what was committed, or as   *)
(* long and visibly edited.                                                    *)
Damaged ==
    /\ Len(db) <= Len(committed)
    /\ Len(db) < Len(committed) \/ \E i \in 1 .. Len(db) : db[i] = Forged

(* The database is what was committed unless it was changed from outside. *)
DatabaseInv ==
    /\ "db" \notin tampered => db = committed
    /\ "db" \in tampered => Damaged /\ pc # "anchored" /\ "anchor" \notin tampered
    /\ "db" \in tampered /\ pc \in {"open", "begun"} => dirty

(* The anchor is never behind what was committed unless it was changed from    *)
(* outside; at most the event of the last append is ahead.                     *)
AnchorInv ==
    /\ "anchor" \notin tampered => anchor \in {committed, Append(committed, pending)}
    /\ "anchor" \notin tampered /\ pc = "anchored" => anchor = Append(committed, pending)
    /\ "anchor" \notin tampered /\ pc \in {"open", "begun"} => anchor = committed

(* The creation event comes first, and only first. *)
CreationInv ==
    /\ committed # <<>> => committed[1] = Created
    /\ ~exists => pc = "down" /\ db = <<>> /\ committed = <<>> /\ tampered = {}
    /\ pc \in {"begun", "anchored"} /\ pending = Created => committed = <<>> /\ "db" \notin tampered
    /\ pc \in {"begun", "anchored"} /\ pending # Created => committed # <<>>
    /\ pc = "open" => committed # <<>>

IInv == TypeOK /\ DatabaseInv /\ AnchorInv /\ CreationInv

-----------------------------------------------------------------------------
(* What the ledger accepts under the invariant has not been damaged: the       *)
(* argument behind every verification.                                         *)
LEMMA AcceptedIsIntact ==
    ASSUME IInv, AnchorOK, \/ ChainOK
                           \/ pc \in {"open", "begun"} /\ (dirty => ChainOK)
                           \/ pc = "anchored"
    PROVE  db = committed
<1>1. CASE "db" \notin tampered
  BY <1>1 DEF IInv, DatabaseInv
<1>2. CASE "db" \in tampered
  <2>1. ChainOK
    BY <1>2 DEF IInv, DatabaseInv
  <2>2. Len(anchor) >= Len(committed)
    BY <1>2 DEF IInv, DatabaseInv, AnchorInv, TypeOK
  <2>3. Len(db) >= Len(committed)
    BY <2>2 DEF AnchorOK, IInv, TypeOK
  <2> QED
    BY <1>2, <2>1, <2>3 DEF IInv, DatabaseInv, Damaged, ChainOK, TypeOK
<1> QED
  BY <1>1, <1>2

(* Appending keeps the first row. *)
LEMMA AppendKeepsFirst ==
    ASSUME NEW S, NEW s \in Seq(S), NEW x \in S
    PROVE  /\ Append(s, x) \in Seq(S)
           /\ Append(s, x) # <<>>
           /\ s # <<>> => Append(s, x)[1] = s[1]
           /\ s = <<>> => Append(s, x)[1] = x
  OBVIOUS

(* A ledger starts with nothing on disk. *)
LEMMA InitIInv == Init => IInv
<1> SUFFICES ASSUME Init PROVE IInv
  OBVIOUS
<1>1. TypeOK
  <2>1. <<>> \in Seq(Row) /\ <<>> \in Seq(Row \cup {Forged}) /\ Created \in Row
    BY DEF Row
  <2> QED
    BY <2>1 DEF Init, TypeOK
<1>2. DatabaseInv /\ AnchorInv /\ CreationInv
  BY DEF Init, DatabaseInv, AnchorInv, CreationInv
<1> QED
  BY <1>1, <1>2 DEF IInv

(* Every step keeps the four parts. *)
LEMMA NextIInv == IInv /\ [Next]_vars => IInv'
<1> SUFFICES ASSUME IInv, [Next]_vars PROVE IInv'
  OBVIOUS
<1> USE RowAssumption
<1>1. CASE OpenNew
  BY <1>1 DEF OpenNew, IInv, TypeOK, DatabaseInv, AnchorInv, CreationInv, Damaged, Row
<1>2. CASE OpenExisting
  <2>1. db = committed
    BY <1>2, AcceptedIsIntact DEF OpenExisting
  <2>2. committed # <<>>
    BY <1>2, <2>1 DEF OpenExisting, ChainOK
  <2> QED
    BY <1>2, <2>1, <2>2 DEF OpenExisting, IInv, TypeOK, DatabaseInv, AnchorInv, CreationInv
<1>3. ASSUME NEW e \in Event, AppendBegin(e) PROVE IInv'
  BY <1>3 DEF AppendBegin, IInv, TypeOK, DatabaseInv, AnchorInv, CreationInv, Damaged, Row
<1>4. MayWrite /\ pc = "begun" => db = committed
  <2>1. CASE pending = Created
    BY <2>1 DEF IInv, DatabaseInv, CreationInv
  <2>2. CASE ExternalOK
    BY <2>2, AcceptedIsIntact DEF ExternalOK
  <2> QED
    BY <2>1, <2>2 DEF MayWrite
<1>5. /\ Append(committed, pending) \in Seq(Row)
      /\ Append(committed, pending) \in Seq(Row \cup {Forged})
  BY AppendKeepsFirst DEF IInv, TypeOK
<1>6. CASE AppendAnchor
  BY <1>4, <1>5, <1>6 DEF AppendAnchor, IInv, TypeOK, DatabaseInv, AnchorInv, CreationInv
<1>7. pc = "anchored" => /\ Append(committed, pending) # <<>>
                         /\ Append(committed, pending)[1] = Created
  BY AppendKeepsFirst DEF IInv, TypeOK, CreationInv
<1>8. CASE AppendCommit
  <2>1. db = committed
    BY <1>8 DEF AppendCommit, IInv, DatabaseInv
  <2>2. TypeOK'
    BY <1>5, <1>8, <2>1 DEF AppendCommit, IInv, TypeOK
  <2>3. DatabaseInv' /\ AnchorInv'
    BY <1>8, <2>1 DEF AppendCommit, IInv, DatabaseInv, AnchorInv
  <2>4. CreationInv'
    BY <1>7, <1>8 DEF AppendCommit, IInv, CreationInv
  <2> QED
    BY <2>2, <2>3, <2>4 DEF IInv
<1>9. CASE AppendAnchorFails
  <2>1. TypeOK'
    BY <1>4, <1>5, <1>9 DEF AppendAnchorFails, Broken, IInv, TypeOK
  <2>2. DatabaseInv'
    BY <1>9 DEF AppendAnchorFails, Broken, IInv, DatabaseInv, Damaged
  <2>3. AnchorInv'
    BY <1>4, <1>9 DEF AppendAnchorFails, Broken, IInv, AnchorInv
  <2>4. CreationInv'
    BY <1>9 DEF AppendAnchorFails, Broken, IInv, CreationInv
  <2> QED
    BY <2>1, <2>2, <2>3, <2>4 DEF IInv
<1>10. CASE AppendCommitFails
  <2>1. db = committed
    BY <1>10 DEF AppendCommitFails, IInv, DatabaseInv
  <2>2. TypeOK'
    BY <1>5, <1>10, <2>1 DEF AppendCommitFails, Broken, IInv, TypeOK
  <2>3. DatabaseInv'
    BY <1>10, <2>1 DEF AppendCommitFails, Broken, IInv, DatabaseInv
  <2>4. AnchorInv'
    BY <1>10 DEF AppendCommitFails, Broken, IInv, AnchorInv
  <2>5. CreationInv'
    BY <1>7, <1>10 DEF AppendCommitFails, Broken, IInv, CreationInv
  <2> QED
    BY <2>2, <2>3, <2>4, <2>5 DEF IInv
<1>11. CASE Read
  <2>1. CASE ExternalOK
    <3>1. db = committed
      BY <1>11, <2>1, AcceptedIsIntact DEF Read, ExternalOK
    <3> QED
      BY <1>11, <2>1, <3>1 DEF Read, IInv, TypeOK, DatabaseInv, AnchorInv, CreationInv
  <2>2. CASE ~ExternalOK
    BY <1>11, <2>2 DEF Read, IInv, TypeOK, DatabaseInv, AnchorInv, CreationInv, Damaged
  <2> QED
    BY <2>1, <2>2
<1>12. CASE Stop
  BY <1>12 DEF Stop, IInv, TypeOK, DatabaseInv, AnchorInv, CreationInv, Damaged
<1>13. CASE RollBackDatabase
  <2>1. PICK n \in 0 .. Len(db) - 1 : db' = SubSeq(db, 1, n)
    BY <1>13 DEF RollBackDatabase
  <2>2. db' \in Seq(Row \cup {Forged}) /\ Len(db') = n /\ n < Len(db)
    BY <2>1 DEF IInv, TypeOK
  <2>3. Len(db) <= Len(committed)
    BY DEF IInv, TypeOK, DatabaseInv, Damaged
  <2>4. TypeOK'
    BY <1>13, <2>2 DEF RollBackDatabase, IInv, TypeOK
  <2>5. Damaged'
    BY <1>13, <2>2, <2>3 DEF RollBackDatabase, Damaged, IInv, TypeOK
  <2>6. DatabaseInv' /\ AnchorInv'
    BY <1>13, <2>5 DEF RollBackDatabase, DatabaseWritable, IInv, DatabaseInv, AnchorInv
  <2>7. CreationInv'
    BY <1>13, <2>2 DEF RollBackDatabase, DatabaseWritable, IInv, CreationInv
  <2> QED
    BY <2>4, <2>6, <2>7 DEF IInv
<1>14. CASE EditRow
  <2>1. PICK i \in 1 .. Len(db) : db' = [db EXCEPT ![i] = Forged]
    BY <1>14 DEF EditRow
  <2>2. db' \in Seq(Row \cup {Forged}) /\ Len(db') = Len(db) /\ db'[i] = Forged
    BY <2>1 DEF IInv, TypeOK
  <2>3. Len(db) <= Len(committed)
    BY DEF IInv, TypeOK, DatabaseInv, Damaged
  <2>4. TypeOK'
    BY <1>14, <2>2 DEF EditRow, IInv, TypeOK
  <2>5. Damaged'
    BY <1>14, <2>2, <2>3 DEF EditRow, Damaged, IInv, TypeOK
  <2>6. DatabaseInv' /\ AnchorInv'
    BY <1>14, <2>5 DEF EditRow, DatabaseWritable, IInv, DatabaseInv, AnchorInv
  <2>7. CreationInv'
    BY <1>14, <2>2 DEF EditRow, DatabaseWritable, IInv, CreationInv
  <2> QED
    BY <2>4, <2>6, <2>7 DEF IInv
<1>15. CASE RollBackAnchor
  <2>1. PICK n \in 1 .. Len(anchor) - 1 : anchor' = SubSeq(anchor, 1, n)
    BY <1>15 DEF RollBackAnchor
  <2>2. anchor' \in Seq(Row)
    BY <2>1 DEF IInv, TypeOK
  <2>3. exists
    BY <1>15, <2>1 DEF RollBackAnchor, IInv, AnchorInv, CreationInv
  <2> QED
    BY <1>15, <2>2, <2>3 DEF RollBackAnchor, IInv, TypeOK, DatabaseInv, AnchorInv, CreationInv
<1>16. CASE UNCHANGED vars
  BY <1>16 DEF vars, IInv, TypeOK, DatabaseInv, AnchorInv, CreationInv, Damaged
<1> QED
  BY <1>1, <1>2, <1>3, <1>6, <1>8, <1>9, <1>10, <1>11, <1>12, <1>13, <1>14, <1>15, <1>16
     DEF Next

-----------------------------------------------------------------------------
(* Types are kept: in particular nothing the ledger ever returned to a reader  *)
(* holds a forged row.                                                         *)
THEOREM TypeCorrect == Spec => []TypeOK
  BY InitIInv, NextIInv, PTL DEF Spec, IInv

(* Whatever verification accepts, on an open, a read or an append, is every    *)
(* row ever committed: rollback and edits are always noticed.                  *)
THEOREM VerificationIsSound == Spec => []VerifiedIsComplete
<1>1. IInv => VerifiedIsComplete
  BY AcceptedIsIntact DEF VerifiedIsComplete, ExternalOK
<1> QED
  BY <1>1, InitIInv, NextIInv, PTL DEF Spec

(* An undamaged ledger opens again unless an append stopped between the anchor *)
(* and the COMMIT.                                                             *)
THEOREM ReopensUnlessInterrupted == Spec => []UnopenableOnlyAfterInterruption
<1>1. IInv => UnopenableOnlyAfterInterruption
  <2> SUFFICES ASSUME IInv, pc = "down", committed # <<>>, tampered = {},
                      Len(anchor) # Len(committed) + 1
               PROVE  ChainOK /\ AnchorOK
    BY DEF UnopenableOnlyAfterInterruption
  <2>1. db = committed /\ committed[1] = Created
    BY DEF IInv, DatabaseInv, CreationInv
  <2>2. anchor = committed
    BY DEF IInv, AnchorInv, TypeOK
  <2>3. ChainOK
    BY <2>1, RowAssumption DEF ChainOK, IInv, TypeOK, Row
  <2>4. AnchorOK
    BY <2>1, <2>2 DEF AnchorOK, IInv, TypeOK
  <2> QED
    BY <2>3, <2>4
<1> QED
  BY <1>1, InitIInv, NextIInv, PTL DEF Spec

-----------------------------------------------------------------------------
(* The events after the creation event, before and after an append. *)
LEMMA LaterOfAppend ==
    ASSUME NEW S, NEW s \in Seq(S), NEW x \in S
    PROVE  /\ s = <<>> => Later(Append(s, x)) = <<>>
           /\ s # <<>> => Later(Append(s, x)) = Append(Later(s), x)
<1>1. CASE s = <<>>
  <2>1. Append(s, x) # <<>> /\ Len(Append(s, x)) = 1
    BY <1>1
  <2>2. Tail(Append(s, x)) = <<>>
    BY <2>1, <1>1
  <2> QED
    BY <1>1, <2>1, <2>2 DEF Later
<1>2. CASE s # <<>>
  <2>1. Append(s, x) # <<>>
    BY AppendKeepsFirst
  <2>2. Tail(Append(s, x)) = Append(Tail(s), x)
    BY <1>2
  <2> QED
    BY <1>2, <2>1, <2>2 DEF Later
<1> QED
  BY <1>1, <1>2

(* Every behaviour of the ledger is one of the abstract log, whatever is done  *)
(* to its files and wherever the process dies.                                 *)
THEOREM LedgerImplementsLog == Spec => ImplementsLog
<1>1. Init => Log!Init
  BY DEF Init, Log!Init, handle, Later
<1>2. IInv /\ [Next]_vars => [Log!Next]_(Log!vars)
  <2> SUFFICES ASSUME IInv, Next PROVE Log!Next \/ UNCHANGED Log!vars
    <3>1. UNCHANGED vars => UNCHANGED Log!vars
      BY DEF vars, Log!vars, handle, Later
    <3> QED
      BY <3>1
  <2> USE RowAssumption
  <2>1. CASE OpenNew
    BY <2>1 DEF OpenNew, Log!vars, handle, Later
  <2>2. CASE OpenExisting
    <3>1. db = committed
      BY <2>2, AcceptedIsIntact DEF OpenExisting
    <3>2. Log!Open
      BY <2>2, <3>1 DEF OpenExisting, Log!Open, handle, Later
    <3> QED
      BY <3>2 DEF Log!Next
  <2>3. ASSUME NEW e \in Event, AppendBegin(e) PROVE UNCHANGED Log!vars
    BY <2>3 DEF AppendBegin, Log!vars, handle, Later
  <2>4. CASE AppendAnchor
    BY <2>4 DEF AppendAnchor, Log!vars, handle, Later
  <2>5. pending = Created /\ pc = "anchored" => Later(Append(committed, pending)) = Later(committed)
    <3> SUFFICES ASSUME pending = Created, pc = "anchored"
                 PROVE  Later(Append(committed, pending)) = Later(committed)
      OBVIOUS
    <3>1. committed = <<>> /\ committed \in Seq(Row) /\ pending \in Row
      BY DEF IInv, TypeOK, CreationInv
    <3>2. Later(Append(committed, pending)) = <<>>
      BY <3>1, LaterOfAppend
    <3> QED
      BY <3>1, <3>2 DEF Later
  <2>6. pending # Created /\ pc = "anchored" =>
          pending \in Event /\ Later(Append(committed, pending)) = Append(Later(committed), pending)
    BY LaterOfAppend DEF IInv, TypeOK, CreationInv, Row
  <2>7. CASE AppendCommit
    <3>1. db = committed
      BY <2>7 DEF AppendCommit, IInv, DatabaseInv
    <3>2. CASE pending = Created
      <4>1. Log!Open
        BY <2>5, <2>7, <3>1, <3>2 DEF AppendCommit, Log!Open, handle
      <4> QED
        BY <4>1 DEF Log!Next
    <3>3. CASE pending # Created
      <4>1. Log!AppendOk(pending)
        BY <2>6, <2>7, <3>3 DEF AppendCommit, Log!AppendOk, handle
      <4> QED
        BY <4>1, <2>6, <2>7, <3>3 DEF Log!Next, AppendCommit
    <3> QED
      BY <3>2, <3>3
  <2>8. CASE AppendAnchorFails
    <3>1. CASE pending = Created
      BY <2>8, <3>1 DEF AppendAnchorFails, Broken, Log!vars, handle
    <3>2. CASE pending # Created
      BY <2>8, <3>2 DEF AppendAnchorFails, Broken, Log!Next, Log!Fail, handle
    <3> QED
      BY <3>1, <3>2
  <2>9. CASE AppendCommitFails
    <3>1. CASE pending = Created
      BY <2>5, <2>9, <3>1 DEF AppendCommitFails, Broken, Log!vars, handle
    <3>2. CASE pending # Created
      <4>1. Log!AppendFails(pending)
        BY <2>6, <2>9, <3>2 DEF AppendCommitFails, Broken, Log!AppendFails, handle
      <4> QED
        BY <4>1, <2>6, <2>9, <3>2 DEF Log!Next, AppendCommitFails
    <3> QED
      BY <3>1, <3>2
  <2>10. CASE Read
    <3>1. CASE ExternalOK
      <4>1. db = committed
        BY <2>10, <3>1, AcceptedIsIntact DEF Read, ExternalOK
      <4> QED
        BY <2>10, <3>1, <4>1 DEF Read, Log!Next, Log!Read, handle
    <3>2. CASE ~ExternalOK
      BY <2>10, <3>2 DEF Read, Log!Next, Log!Fail, handle
    <3> QED
      BY <3>1, <3>2
  <2>11. CASE Stop
    BY <2>11 DEF Stop, Log!Next, Log!Down, Log!vars, handle
  <2>12. CASE RollBackDatabase \/ EditRow \/ RollBackAnchor
    BY <2>12 DEF RollBackDatabase, EditRow, RollBackAnchor, Log!vars, handle
  <2> QED
    BY <2>1, <2>2, <2>3, <2>4, <2>7, <2>8, <2>9, <2>10, <2>11, <2>12 DEF Next
<1> QED
  BY <1>1, <1>2, InitIInv, NextIInv, PTL DEF Spec, ImplementsLog, Log!Spec

=============================================================================
