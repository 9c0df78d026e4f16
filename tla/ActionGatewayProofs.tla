--------------------------- MODULE ActionGatewayProofs ---------------------------
(***************************************************************************)
(* Proofs about ActionGateway, for every number of callers, actions and    *)
(* bodies: executors exclude each other on a body, an action is executed   *)
(* once per receipt, and what a receipt claims was earned.                 *)
(***************************************************************************)
EXTENDS ActionGateway, TLAPS

(* The caller that owns an action is the one _inflight names. *)
OwnerInv ==
    /\ \A c \in Caller : pc[c] \in Owning => inflight[target[c]] = c
    /\ \A a \in Action, c \in Caller :
          inflight[a] = c => pc[c] \in Owning /\ target[c] = a

(* A caller that executes, or is about to, holds the lease of its body. *)
LeaseInv ==
    \A c \in Caller : pc[c] \in {"leased", "executing"} => lease[BodyOf[target[c]]] = c

(* An action that is yet to be executed has not been executed since its        *)
(* receipt was last discarded; an owner leaves a receipt behind.               *)
CallsInv ==
    /\ \A a \in Action : calls[a] <= 1 + discards[a]
    /\ \A a \in Action :
          receipts[a] = NoReceipt /\ inflight[a] = NoCaller => calls[a] <= discards[a]
    /\ \A c \in Caller :
          /\ pc[c] \in {"owner", "leasing", "leased"} => calls[target[c]] <= discards[target[c]]
          /\ pc[c] = "storing" => draft[c] # NoReceipt
          /\ pc[c] = "leaving" => receipts[target[c]] # NoReceipt

(* Receipt r of action a claims no more than what an executor has shown. *)
Earned(r, a) ==
    /\ r.state = "COMPLETED" => r.executed /\ a \notin Fixture /\ r.evidence >= Required[a]
    /\ r.evidence > REQUESTED => r.executed

(* What is recorded, or about to be, is earned, and an executor that is said   *)
(* to have spoken was called.                                                  *)
EarnedInv ==
    /\ \A a \in Action : Earned(receipts[a], a) /\ (receipts[a].executed => calls[a] > 0)
    /\ \A c \in Caller :
          /\ pc[c] = "executing" => calls[target[c]] > 0
          /\ pc[c] = "storing" =>
                Earned(draft[c], target[c]) /\ (draft[c].executed => calls[target[c]] > 0)

(* An action in flight has a receipt only when its owner is leaving, or when a *)
(* repeated submission was refused because of an E-Stop.                       *)
RefusalInv ==
    /\ \A c \in Caller : pc[c] = "rejecting" => latched
    /\ \A c \in Caller :
          pc[c] \in Owning \ {"leaving"} /\ receipts[target[c]] # NoReceipt =>
              latched /\ receipts[target[c]] = Failure(target[c], "BLOCKED")

IInv == TypeOK /\ OwnerInv /\ LeaseInv /\ CallsInv /\ EarnedInv /\ RefusalInv

-----------------------------------------------------------------------------
(* Receipts *)

(* A receipt with a final state is one. *)
LEMMA ReceiptInType ==
    ASSUME NEW s \in Final, NEW e \in Evidence, NEW x \in BOOLEAN
    PROVE  Receipt(s, e, x) \in ReceiptType
  BY DEF Receipt, ReceiptType

(* What is recorded of a failure is a receipt that claims nothing. *)
LEMMA FailureReceipt ==
    ASSUME NEW a \in Action, NEW s \in Final \ {"COMPLETED"}
    PROVE  /\ Failure(a, s) \in ReceiptType
           /\ Failure(a, s) # NoReceipt
           /\ Earned(Failure(a, s), a)
           /\ ~Failure(a, s).executed
<1> DEFINE e == IF a \in Fixture THEN SYNTHETIC ELSE REQUESTED
<1>1. Failure(a, s) = Receipt(s, e, FALSE)
  BY DEF Failure
<1>2. e \in Evidence /\ ~(e > REQUESTED)
  BY DEF Evidence, SYNTHETIC, REQUESTED
<1> HIDE DEF e
<1>3. Failure(a, s) \in ReceiptType
  BY <1>1, <1>2, ReceiptInType
<1>4. Failure(a, s) # NoReceipt
  BY <1>1 DEF NoReceipt, Receipt, Final
<1>5. Earned(Failure(a, s), a) /\ ~Failure(a, s).executed
  BY <1>1, <1>2 DEF Earned, Receipt
<1> QED
  BY <1>3, <1>4, <1>5

(* What the gateway makes of an executor's claim is earned. *)
LEMMA GradedReceipt ==
    ASSUME NEW a \in Action, NEW s \in {"COMPLETED", "FAILED"}, NEW e \in Claims,
           NEW matching \in BOOLEAN
    PROVE  /\ Graded(a, s, e, matching) \in ReceiptType
           /\ Graded(a, s, e, matching) # NoReceipt
           /\ Earned(Graded(a, s, e, matching), a)
<1> DEFINE ev == IF a \in Fixture THEN SYNTHETIC ELSE IF matching THEN e ELSE REQUESTED
           claimed == IF matching THEN s ELSE "FAILED"
           weak == a \in Fixture \/ ev < Required[a]
           st == IF claimed = "COMPLETED" /\ weak
                   THEN IF a \in Strict \ Fixture THEN "FAILED" ELSE "DEGRADED"
                   ELSE claimed
<1>1. Graded(a, s, e, matching) = Receipt(st, ev, TRUE)
  BY DEF Graded
<1>2. ev \in Evidence /\ Required[a] \in Evidence
  BY GatewayAssumption DEF Evidence, SYNTHETIC, REQUESTED
<1>3. st \in Final
  BY DEF Final
<1>4. st = "COMPLETED" => a \notin Fixture /\ ev >= Required[a]
  BY <1>2 DEF Evidence
<1> HIDE DEF ev, st
<1>5. Graded(a, s, e, matching) \in ReceiptType
  BY <1>1, <1>2, <1>3, ReceiptInType
<1>6. Graded(a, s, e, matching) # NoReceipt
  BY <1>1, <1>3 DEF NoReceipt, Receipt, Final
<1>7. Earned(Graded(a, s, e, matching), a)
  BY <1>1, <1>4 DEF Earned, Receipt
<1> QED
  BY <1>5, <1>6, <1>7

(* No receipt claims nothing. *)
LEMMA NoReceiptEarned ==
    /\ NoReceipt \in ReceiptType
    /\ ~NoReceipt.executed
    /\ \A a \in Action : Earned(NoReceipt, a)
<1>1. NoReceipt.state = "none" /\ NoReceipt.evidence = 1 /\ NoReceipt.executed = FALSE
  BY DEF NoReceipt, Receipt, REQUESTED
<1> QED
  BY <1>1 DEF Earned, ReceiptType, REQUESTED

-----------------------------------------------------------------------------
(* The invariant *)

(* Nothing is in flight at the start. *)
LEMMA InitIInv == Init => IInv
<1> SUFFICES ASSUME Init PROVE IInv
  OBVIOUS
<1>1. TypeOK
  <2>1. receipts \in [Action -> ReceiptType] /\ draft \in [Caller -> ReceiptType]
    BY NoReceiptEarned DEF Init
  <2>2. calls \in [Action -> Nat] /\ discards \in [Action -> 0 .. MaxDiscards]
    BY GatewayAssumption DEF Init
  <2>3. /\ inflight \in [Action -> Caller \cup {NoCaller}]
        /\ lease \in [Body -> Caller \cup {NoCaller}]
    BY DEF Init
  <2>4. latched \in BOOLEAN /\ pc \in [Caller -> Place] /\ target \in [Caller -> Action]
    BY DEF Init, Place
  <2> QED
    BY <2>1, <2>2, <2>3, <2>4 DEF TypeOK
<1>2. OwnerInv /\ LeaseInv
  BY GatewayAssumption DEF Init, OwnerInv, LeaseInv, Owning
<1>3. CallsInv
  BY DEF Init, CallsInv
<1>4. EarnedInv
  BY NoReceiptEarned DEF Init, EarnedInv
<1>5. RefusalInv
  BY DEF Init, RefusalInv, Owning
<1> QED
  BY <1>1, <1>2, <1>3, <1>4, <1>5 DEF IInv

(* Every step keeps the invariant. *)
LEMMA NextIInv == IInv /\ [Next]_vars => IInv'
<1> SUFFICES ASSUME IInv, [Next]_vars PROVE IInv'
  OBVIOUS
<1> USE GatewayAssumption DEF IInv
<1>0. CASE UNCHANGED vars
  BY <1>0 DEF vars, tables, history, TypeOK, OwnerInv, LeaseInv, CallsInv, EarnedInv,
              RefusalInv
<1>1. CASE EmergencyStop
  <2>1. TypeOK'
    BY <1>1 DEF EmergencyStop, tables, history, TypeOK, Place
  <2>2. OwnerInv'
    BY <1>1 DEF EmergencyStop, tables, history, TypeOK, OwnerInv, Owning
  <2>3. LeaseInv'
    BY <1>1 DEF EmergencyStop, tables, history, TypeOK, LeaseInv
  <2>4. CallsInv'
    BY <1>1 DEF EmergencyStop, tables, history, TypeOK, OwnerInv, CallsInv, Owning
  <2>5. EarnedInv'
    BY <1>1 DEF EmergencyStop, tables, history, TypeOK, OwnerInv, EarnedInv, Owning
  <2>6. RefusalInv'
    BY <1>1 DEF EmergencyStop, tables, history, TypeOK, OwnerInv, RefusalInv, Owning
  <2> QED
    BY <2>1, <2>2, <2>3, <2>4, <2>5, <2>6
<1>2. ASSUME NEW a \in Action, DiscardReceipt(a) PROVE IInv'
  <2>1. TypeOK'
    BY <1>2, NoReceiptEarned DEF DiscardReceipt, TypeOK, Place
  <2>2. OwnerInv'
    BY <1>2 DEF DiscardReceipt, TypeOK, OwnerInv, Owning
  <2>3. LeaseInv'
    BY <1>2 DEF DiscardReceipt, TypeOK, LeaseInv
  <2>4. CallsInv'
    BY <1>2, NoReceiptEarned DEF DiscardReceipt, TypeOK, OwnerInv, CallsInv, Owning
  <2>5. EarnedInv'
    BY <1>2, NoReceiptEarned DEF DiscardReceipt, TypeOK, OwnerInv, EarnedInv, Owning
  <2>6. RefusalInv'
    BY <1>2, NoReceiptEarned DEF DiscardReceipt, TypeOK, OwnerInv, RefusalInv, Owning
  <2> QED
    BY <2>1, <2>2, <2>3, <2>4, <2>5, <2>6
<1>3. ASSUME NEW c \in Caller, NEW a \in Action, Submit(c, a) PROVE IInv'
  <2>1. TypeOK'
    BY <1>3 DEF Submit, tables, history, Goto, TypeOK, Place
  <2>2. OwnerInv'
    BY <1>3 DEF Submit, tables, history, Goto, TypeOK, OwnerInv, Owning
  <2>3. LeaseInv'
    BY <1>3 DEF Submit, tables, history, Goto, TypeOK, LeaseInv
  <2>4. CallsInv'
    BY <1>3 DEF Submit, tables, history, Goto, TypeOK, OwnerInv, CallsInv, Owning
  <2>5. EarnedInv'
    BY <1>3 DEF Submit, tables, history, Goto, TypeOK, OwnerInv, EarnedInv, Owning
  <2>6. RefusalInv'
    BY <1>3 DEF Submit, tables, history, Goto, TypeOK, OwnerInv, RefusalInv, Owning
  <2> QED
    BY <2>1, <2>2, <2>3, <2>4, <2>5, <2>6
<1>4. ASSUME NEW c \in Caller, Reject(c) PROVE IInv'
  <2>1. TypeOK'
    BY <1>4, FailureReceipt DEF Reject, history, Answered, Goto, TypeOK, Place, Final
  <2>2. OwnerInv'
    BY <1>4 DEF Reject, history, Answered, Goto, TypeOK, OwnerInv, Owning
  <2>3. LeaseInv'
    BY <1>4 DEF Reject, history, Answered, Goto, TypeOK, LeaseInv
  <2>4. CallsInv'
    BY <1>4, FailureReceipt
       DEF Reject, history, Answered, Goto, TypeOK, OwnerInv, CallsInv, Owning, Final
  <2>5. EarnedInv'
    BY <1>4, FailureReceipt
       DEF Reject, history, Answered, Goto, TypeOK, OwnerInv, EarnedInv, Owning, Final
  <2>6. RefusalInv'
    BY <1>4, FailureReceipt
       DEF Reject, history, Answered, Goto, TypeOK, OwnerInv, RefusalInv, Owning, Final
  <2> QED
    BY <2>1, <2>2, <2>3, <2>4, <2>5, <2>6
<1>5. ASSUME NEW c \in Caller, Enter(c) PROVE IInv'
  <2>1. TypeOK'
    BY <1>5 DEF Enter, history, Answered, Goto, TypeOK, Place
  <2>2. OwnerInv'
    BY <1>5 DEF Enter, history, Answered, Goto, TypeOK, OwnerInv, Owning
  <2>3. LeaseInv'
    BY <1>5 DEF Enter, history, Answered, Goto, TypeOK, LeaseInv
  <2>4. CallsInv'
    BY <1>5 DEF Enter, history, Answered, Goto, TypeOK, OwnerInv, CallsInv, Owning
  <2>5. EarnedInv'
    BY <1>5 DEF Enter, history, Answered, Goto, TypeOK, OwnerInv, EarnedInv, Owning
  <2>6. RefusalInv'
    BY <1>5 DEF Enter, history, Answered, Goto, TypeOK, OwnerInv, RefusalInv, Owning
  <2> QED
    BY <2>1, <2>2, <2>3, <2>4, <2>5, <2>6
<1>6. ASSUME NEW c \in Caller, WaitTimeout(c) PROVE IInv'
  <2>1. TypeOK'
    BY <1>6 DEF WaitTimeout, tables, history, Answered, Goto, TypeOK, Place
  <2>2. OwnerInv'
    BY <1>6 DEF WaitTimeout, tables, history, Answered, Goto, TypeOK, OwnerInv, Owning
  <2>3. LeaseInv'
    BY <1>6 DEF WaitTimeout, tables, history, Answered, Goto, TypeOK, LeaseInv
  <2>4. CallsInv'
    BY <1>6 DEF WaitTimeout, tables, history, Answered, Goto, TypeOK, OwnerInv, CallsInv, Owning
  <2>5. EarnedInv'
    BY <1>6
       DEF WaitTimeout, tables, history, Answered, Goto, TypeOK, OwnerInv, EarnedInv,
           Owning
  <2>6. RefusalInv'
    BY <1>6
       DEF WaitTimeout, tables, history, Answered, Goto, TypeOK, OwnerInv, RefusalInv,
           Owning
  <2> QED
    BY <2>1, <2>2, <2>3, <2>4, <2>5, <2>6
<1>7. ASSUME NEW c \in Caller, Woken(c) PROVE IInv'
  <2>1. TypeOK'
    BY <1>7 DEF Woken, tables, history, Answered, Goto, TypeOK, Place
  <2>2. OwnerInv'
    BY <1>7 DEF Woken, tables, history, Answered, Goto, TypeOK, OwnerInv, Owning
  <2>3. LeaseInv'
    BY <1>7 DEF Woken, tables, history, Answered, Goto, TypeOK, LeaseInv
  <2>4. CallsInv'
    BY <1>7 DEF Woken, tables, history, Answered, Goto, TypeOK, OwnerInv, CallsInv, Owning
  <2>5. EarnedInv'
    BY <1>7 DEF Woken, tables, history, Answered, Goto, TypeOK, OwnerInv, EarnedInv, Owning
  <2>6. RefusalInv'
    BY <1>7 DEF Woken, tables, history, Answered, Goto, TypeOK, OwnerInv, RefusalInv, Owning
  <2> QED
    BY <2>1, <2>2, <2>3, <2>4, <2>5, <2>6
<1>8. ASSUME NEW c \in Caller, Check(c) PROVE IInv'
  <2>1. TypeOK'
    <3>1. draft' \in [Caller -> ReceiptType]
      BY <1>8, FailureReceipt DEF Check, Drafts, Goto, TypeOK, Final
    <3>2. pc' \in [Caller -> Place]
      BY <1>8 DEF Check, Drafts, Goto, TypeOK, Place
    <3> QED
      BY <3>1, <3>2, <1>8 DEF Check, tables, history, TypeOK
  <2>2. OwnerInv'
    BY <1>8
       DEF Check, tables, history, Drafts, Goto, TypeOK, OwnerInv, Owning
  <2>3. LeaseInv'
    BY <1>8 DEF Check, tables, history, Drafts, Goto, TypeOK, LeaseInv
  <2>4. CallsInv'
    BY <1>8, FailureReceipt
       DEF Check, tables, history, Drafts, Goto, TypeOK, OwnerInv, CallsInv, Owning,
           Final
  <2>5. EarnedInv'
    BY <1>8, FailureReceipt
       DEF Check, tables, history, Drafts, Goto, TypeOK, OwnerInv, EarnedInv, Owning,
           Final
  <2>6. RefusalInv'
    BY <1>8, FailureReceipt
       DEF Check, tables, history, Drafts, Goto, TypeOK, OwnerInv, RefusalInv, Owning,
           Final
  <2> QED
    BY <2>1, <2>2, <2>3, <2>4, <2>5, <2>6
<1>9. ASSUME NEW c \in Caller, AcquireLease(c) PROVE IInv'
  <2>1. TypeOK'
    BY <1>9 DEF AcquireLease, history, Goto, TypeOK, Place
  <2>2. OwnerInv'
    BY <1>9 DEF AcquireLease, history, Goto, TypeOK, OwnerInv, Owning
  <2>3. LeaseInv'
    BY <1>9 DEF AcquireLease, history, Goto, TypeOK, LeaseInv
  <2>4. CallsInv'
    BY <1>9 DEF AcquireLease, history, Goto, TypeOK, OwnerInv, CallsInv, Owning
  <2>5. EarnedInv'
    BY <1>9 DEF AcquireLease, history, Goto, TypeOK, OwnerInv, EarnedInv, Owning
  <2>6. RefusalInv'
    BY <1>9 DEF AcquireLease, history, Goto, TypeOK, OwnerInv, RefusalInv, Owning
  <2> QED
    BY <2>1, <2>2, <2>3, <2>4, <2>5, <2>6
<1>10. ASSUME NEW c \in Caller, LeaseTimeout(c) PROVE IInv'
  <2>1. TypeOK'
    BY <1>10, FailureReceipt
       DEF LeaseTimeout, tables, history, Drafts, Goto, TypeOK, Place, Final
  <2>2. OwnerInv'
    BY <1>10
       DEF LeaseTimeout, tables, history, Drafts, Goto, TypeOK, OwnerInv, Owning
  <2>3. LeaseInv'
    BY <1>10
       DEF LeaseTimeout, tables, history, Drafts, Goto, TypeOK, LeaseInv
  <2>4. CallsInv'
    BY <1>10, FailureReceipt
       DEF LeaseTimeout, tables, history, Drafts, Goto, TypeOK, OwnerInv, CallsInv,
           Owning, Final
  <2>5. EarnedInv'
    BY <1>10, FailureReceipt
       DEF LeaseTimeout, tables, history, Drafts, Goto, TypeOK, OwnerInv, EarnedInv,
           Owning, Final
  <2>6. RefusalInv'
    BY <1>10, FailureReceipt
       DEF LeaseTimeout, tables, history, Drafts, Goto, TypeOK, OwnerInv, RefusalInv,
           Owning, Final
  <2> QED
    BY <2>1, <2>2, <2>3, <2>4, <2>5, <2>6
<1>11. ASSUME NEW c \in Caller, CallExecutor(c) PROVE IInv'
  <2>1. TypeOK'
    BY <1>11 DEF CallExecutor, tables, Goto, TypeOK, Place
  <2>2. OwnerInv'
    BY <1>11 DEF CallExecutor, tables, Goto, TypeOK, OwnerInv, Owning
  <2>3. LeaseInv'
    BY <1>11 DEF CallExecutor, tables, Goto, TypeOK, LeaseInv
  <2>4. CallsInv'
    BY <1>11 DEF CallExecutor, tables, Goto, TypeOK, OwnerInv, CallsInv, Owning
  <2>5. EarnedInv'
    BY <1>11 DEF CallExecutor, tables, Goto, TypeOK, OwnerInv, EarnedInv, Owning
  <2>6. RefusalInv'
    BY <1>11 DEF CallExecutor, tables, Goto, TypeOK, OwnerInv, RefusalInv, Owning
  <2> QED
    BY <2>1, <2>2, <2>3, <2>4, <2>5, <2>6
<1>12. ASSUME NEW c \in Caller, ExecutorReturns(c) PROVE IInv'
  <2>1. TypeOK'
    <3>1. PICK r \in ReceiptType : Drafts(c, r)
      BY <1>12, FailureReceipt, GradedReceipt DEF ExecutorReturns, TypeOK, Final
    <3>2. draft' \in [Caller -> ReceiptType] /\ pc' \in [Caller -> Place]
      BY <3>1 DEF Drafts, Goto, TypeOK, Place
    <3>3. lease' \in [Body -> Caller \cup {NoCaller}]
      BY <1>12 DEF ExecutorReturns, TypeOK
    <3> QED
      BY <3>2, <3>3, <1>12 DEF ExecutorReturns, history, TypeOK
  <2>2. OwnerInv'
    BY <1>12
       DEF ExecutorReturns, history, Drafts, Goto, TypeOK, OwnerInv, Owning
  <2>3. LeaseInv'
    BY <1>12
       DEF ExecutorReturns, history, Drafts, Goto, TypeOK, LeaseInv
  <2>4. CallsInv'
    BY <1>12, FailureReceipt, GradedReceipt
       DEF ExecutorReturns, history, Drafts, Goto, TypeOK, OwnerInv, CallsInv, Owning,
           Final
  <2>5. EarnedInv'
    BY <1>12, FailureReceipt, GradedReceipt
       DEF ExecutorReturns, history, Drafts, Goto, TypeOK, OwnerInv, EarnedInv, Owning,
           Final
  <2>6. RefusalInv'
    BY <1>12, FailureReceipt, GradedReceipt
       DEF ExecutorReturns, history, Drafts, Goto, TypeOK, OwnerInv, RefusalInv, Owning,
           Final
  <2> QED
    BY <2>1, <2>2, <2>3, <2>4, <2>5, <2>6
<1>13. ASSUME NEW c \in Caller, Store(c) PROVE IInv'
  <2>1. TypeOK'
    BY <1>13 DEF Store, history, Goto, TypeOK, Place
  <2>2. OwnerInv'
    BY <1>13 DEF Store, history, Goto, TypeOK, OwnerInv, Owning
  <2>3. LeaseInv'
    BY <1>13 DEF Store, history, Goto, TypeOK, LeaseInv
  <2>4. CallsInv'
    BY <1>13 DEF Store, history, Goto, TypeOK, OwnerInv, CallsInv, Owning
  <2>5. EarnedInv'
    BY <1>13 DEF Store, history, Goto, TypeOK, OwnerInv, EarnedInv, Owning
  <2>6. RefusalInv'
    BY <1>13 DEF Store, history, Goto, TypeOK, OwnerInv, RefusalInv, Owning
  <2> QED
    BY <2>1, <2>2, <2>3, <2>4, <2>5, <2>6
<1>14. ASSUME NEW c \in Caller, Leave(c) PROVE IInv'
  <2>1. TypeOK'
    BY <1>14, NoReceiptEarned DEF Leave, history, TypeOK, Place
  <2>2. OwnerInv'
    BY <1>14 DEF Leave, history, TypeOK, OwnerInv, Owning
  <2>3. LeaseInv'
    BY <1>14 DEF Leave, history, TypeOK, LeaseInv
  <2>4. CallsInv'
    BY <1>14, NoReceiptEarned DEF Leave, history, TypeOK, OwnerInv, CallsInv, Owning
  <2>5. EarnedInv'
    BY <1>14, NoReceiptEarned DEF Leave, history, TypeOK, OwnerInv, EarnedInv, Owning
  <2>6. RefusalInv'
    BY <1>14, NoReceiptEarned DEF Leave, history, TypeOK, OwnerInv, RefusalInv, Owning
  <2> QED
    BY <2>1, <2>2, <2>3, <2>4, <2>5, <2>6
<1> QED
  BY <1>0, <1>1, <1>2, <1>3, <1>4, <1>5, <1>6, <1>7, <1>8, <1>9, <1>10, <1>11, <1>12, <1>13, <1>14
     DEF Next

(* The invariant holds for every set of callers, actions and bodies. *)
LEMMA IInvHolds == Spec => []IInv
  BY InitIInv, NextIInv, PTL DEF Spec

(* The gateway, the leases and the receipts keep their types.                  *)
THEOREM TypeCorrect == Spec => []TypeOK
<1>1. IInv => TypeOK
  BY DEF IInv
<1> QED
  BY IInvHolds, <1>1, PTL

(* However many callers compete for a body, its lease lets only one of them    *)
(* execute.                                                                    *)
THEOREM BodiesAreExclusive == Spec => []OneExecutorPerBody
<1>1. IInv => OneExecutorPerBody
  BY DEF IInv, LeaseInv, OneExecutorPerBody
<1> QED
  BY IInvHolds, <1>1, PTL

(* However many callers submit an action, it is executed once per receipt.     *)
THEOREM SubmissionIsIdempotent == Spec => []ExecutedOncePerReceipt
<1>1. IInv => ExecutedOncePerReceipt
  BY DEF IInv, CallsInv, ExecutedOncePerReceipt
<1> QED
  BY IInvHolds, <1>1, PTL

(* A recorded receipt stands until it is discarded, but for the refusal of a   *)
(* repeated submission after an E-Stop.                                        *)
THEOREM RecordsStand == Spec => ReceiptStands
<1> DEFINE Stands ==
        \A a \in Action : receipts[a] # NoReceipt =>
          \/ receipts'[a] \in {receipts[a], NoReceipt}
          \/ latched /\ receipts[a] = Failure(a, "BLOCKED")
<1>1. IInv /\ [Next]_vars => [Stands]_vars
  <2> SUFFICES ASSUME IInv, Next, NEW a \in Action, receipts[a] # NoReceipt
               PROVE  \/ receipts'[a] \in {receipts[a], NoReceipt}
                      \/ latched /\ receipts[a] = Failure(a, "BLOCKED")
    OBVIOUS
  <2>1. CASE receipts' = receipts
    BY <2>1
  <2>2. ASSUME NEW b \in Action, DiscardReceipt(b)
        PROVE  receipts'[a] \in {receipts[a], NoReceipt}
    BY <2>2 DEF DiscardReceipt, IInv, TypeOK
  <2>3. ASSUME NEW c \in Caller, Reject(c) PROVE receipts'[a] = receipts[a]
    BY <2>3 DEF Reject, IInv, TypeOK
  <2>4. ASSUME NEW c \in Caller, Store(c)
        PROVE  \/ receipts'[a] = receipts[a]
               \/ latched /\ receipts[a] = Failure(a, "BLOCKED")
    BY <2>4 DEF Store, IInv, TypeOK, RefusalInv, Owning
  <2> QED
    BY <2>1, <2>2, <2>3, <2>4
       DEF Next, EmergencyStop, Submit, Enter, WaitTimeout, Woken, Check, AcquireLease,
           LeaseTimeout, CallExecutor, ExecutorReturns, Leave, tables
<1> QED
  BY IInvHolds, <1>1, PTL DEF ReceiptStands, Spec

(* What a receipt claims was shown by an executor that was called.             *)
THEOREM ReceiptsAreEarned == Spec => []ClaimsAreEarned
<1>1. IInv => ClaimsAreEarned
  BY DEF IInv, EarnedInv, Earned, ClaimsAreEarned
<1> QED
  BY IInvHolds, <1>1, PTL

=============================================================================
