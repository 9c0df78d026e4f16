----------------------- MODULE OperationManagerProofs -----------------------
(* Proofs about OperationManager, for any operations, crashes and kills. *)
EXTENDS OperationManager, TLAPS

\* The tasks k are ones the operation o can have: only a process is driven,
\* and past the spawn there is a wrapper.
TaskFits(o, k) ==
    /\ k.driver \in {"spawn", "start", "read", "wait"} => o \in Processes
    /\ k.driver \in {"start", "read", "wait"} => os[o].wrapper # "none"

\* What an operation's tasks, process and exit code file say of each other.
AgreeInv ==
    \A o \in Operations :
        /\ TaskFits(o, mem[o])
        /\ o \in Actions => os[o].wrapper = "none"
        /\ o \in Processes => os[o].run # "canceled"
        /\ o \in Processes /\ os[o].wrapper = "none" => os[o].run = "none"
        /\ os[o].wrapper # "none" => os[o].run # "none"
        /\ os[o].wrapper = "none" => os[o].code = "none"
        /\ os[o].code = "ok" => os[o].run = "ok"

IInv == TypeOK /\ AgreeInv /\ SucceededIsReal

\* What a row may become: the ledger's rule, for one row.
Kept(r, s) ==
    /\ r.state \in Terminal => s.state = r.state
    /\ r.state = "CANCELING" => s.state \in {"CANCELING", "CANCELLED"}

\* _transition, _write_terminal and _touch keep a row's type and the rule, and
\* record a success only when they are asked to.
LEMMA LedgerWrites ==
    ASSUME NEW r \in Row, NEW state \in Terminal \cup Open
    PROVE  /\ Transition(r, state) \in Row /\ Kept(r, Transition(r, state))
           /\ WriteTerminal(r, state) \in Row /\ Kept(r, WriteTerminal(r, state))
           /\ Touch(r) \in Row /\ Kept(r, Touch(r)) /\ Touch(r).state = r.state
           /\ Transition(r, state).state \in {r.state, state}
           /\ WriteTerminal(r, state).state \in {r.state, state}
  BY DEF Transition, WriteTerminal, Touch, Refused, Kept, Row, Terminal, Open

\* One row is rewritten by the ledger's rule, and not to a success that is not
\* real.
LEMMA RowStep ==
    ASSUME IInv, NEW o \in Operations, NEW r \in Row,
           row' = [row EXCEPT ![o] = r], UNCHANGED os,
           Kept(row[o], r),
           r.state = "SUCCEEDED" => row[o].state = "SUCCEEDED" \/ os[o].run = "ok"
    PROVE  /\ row' \in [Operations -> Row]
           /\ SucceededIsReal'
           /\ \A p \in Operations : Kept(row[p], row'[p])
<1>1. row \in [Operations -> Row] /\ row' \in [Operations -> Row]
  BY DEF IInv, TypeOK
<1>2. SucceededIsReal'
  BY <1>1 DEF IInv, SucceededIsReal
<1>3. \A p \in Operations : Kept(row[p], row'[p])
  BY <1>1 DEF Kept
<1> QED
  BY <1>1, <1>2, <1>3

\* The tasks of one operation change.
LEMMA TaskStep ==
    ASSUME IInv, NEW o \in Operations, NEW k \in Mem,
           mem' = [mem EXCEPT ![o] = k], UNCHANGED os,
           TaskFits(o, k)
    PROVE  /\ mem' \in [Operations -> Mem]
           /\ AgreeInv'
<1>1. mem \in [Operations -> Mem] /\ mem' \in [Operations -> Mem]
  BY DEF IInv, TypeOK
<1> QED
  BY <1>1 DEF IInv, AgreeInv, TaskFits

\* A new driver, canceler or boot mark for an operation's tasks.
LEMMA TaskFields ==
    ASSUME NEW k \in Mem
    PROVE  /\ \A d \in {"none", "spawn", "start", "read", "wait", "watch", "listen"} :
                 [k EXCEPT !.driver = d] \in Mem /\ [k EXCEPT !.driver = d].driver = d
           /\ \A c \in {"none", "wait", "grace"} :
                 [k EXCEPT !.canceler = c] \in Mem /\ [k EXCEPT !.canceler = c].driver = k.driver
           /\ \A b \in {"done", "todo", "read"} :
                 [k EXCEPT !.boot = b] \in Mem /\ [k EXCEPT !.boot = b].driver = k.driver
           /\ NoTask \in Mem /\ NoTask.driver = "none"
  BY DEF Mem, NoTask

\* Nothing but rows and tasks changes.
Inner == UNCHANGED <<os, up, interrupted, crashes, kills>>

Goal == IInv' /\ \A p \in Operations : Kept(row[p], row'[p])

\* One row, and the tasks of the same operation.
LEMMA InnerStep ==
    ASSUME IInv, NEW o \in Operations, NEW r \in Row, NEW k \in Mem, Inner,
           row' = [row EXCEPT ![o] = r], mem' = [mem EXCEPT ![o] = k],
           Kept(row[o], r),
           r.state = "SUCCEEDED" => row[o].state = "SUCCEEDED" \/ os[o].run = "ok",
           TaskFits(o, k)
    PROVE  Goal
<1>1. /\ row' \in [Operations -> Row] /\ SucceededIsReal'
      /\ \A p \in Operations : Kept(row[p], row'[p])
  BY RowStep DEF Inner
<1>2. mem' \in [Operations -> Mem] /\ AgreeInv'
  BY TaskStep DEF Inner
<1>3. TypeOK'
  BY <1>1, <1>2 DEF IInv, TypeOK, Inner
<1> QED
  BY <1>1, <1>2, <1>3 DEF Goal, IInv

\* Every step of an operation keeps the invariant and the ledger's rule.
LEMMA OperationSteps ==
    ASSUME IInv, NEW o \in Operations,
           \/ Start(o) \/ SpawnFails(o) \/ Admit(o) \/ DriveStart(o)
           \/ Heartbeat(o) \/ ReaderFails(o) \/ DriveEnd(o) \/ OnResult(o)
           \/ CancelAction(o) \/ CancelLedger(o) \/ CancelEnds(o) \/ HeartbeatAges(o)
           \/ RecoverCode(o) \/ RecoverPid(o) \/ WatchEnd(o) \/ Spawn(o)
           \/ RunEnds(o) \/ WrapperEnds(o) \/ WrapperKilled(o) \/ StartAction(o)
           \/ CancelProcess(o)
    PROVE  Goal
<1>0. /\ row[o] \in Row /\ mem[o] \in Mem /\ os[o] \in Os
      /\ row = [row EXCEPT ![o] = row[o]]
      /\ mem = [mem EXCEPT ![o] = mem[o]]
      /\ TaskFits(o, mem[o])
  BY DEF IInv, TypeOK, AgreeInv
<1>1. CASE Start(o)
  <2> DEFINE r == [row[o] EXCEPT !.state = "QUEUED"]
             k == [mem[o] EXCEPT !.driver = "spawn"]
  <2>1. row' = [row EXCEPT ![o] = r] /\ mem' = [mem EXCEPT ![o] = k] /\ Inner
    BY <1>0, <1>1 DEF Start, Inner
  <2>2. r \in Row /\ Kept(row[o], r)
    BY <1>0, <1>1, LedgerWrites DEF Start, Row, Terminal, Open, Kept
  <2>3. r.state = "SUCCEEDED" => row[o].state = "SUCCEEDED" \/ os[o].run = "ok"
    BY <1>0, <1>1, LedgerWrites DEF Start, IInv, AgreeInv, Row, Terminal, Open, Kept
  <2>4. k \in Mem /\ TaskFits(o, k)
    BY <1>0, <1>1, TaskFields DEF Start, TaskFits
  <2> QED
    BY <2>1, <2>2, <2>3, <2>4, InnerStep
<1>2. CASE SpawnFails(o)
  <2> DEFINE r == row[o]
             k == [mem[o] EXCEPT !.driver = "none"]
  <2>1. row' = [row EXCEPT ![o] = r] /\ mem' = [mem EXCEPT ![o] = k] /\ Inner
    BY <1>0, <1>2 DEF SpawnFails, Inner
  <2>2. r \in Row /\ Kept(row[o], r)
    BY <1>0, <1>2, LedgerWrites DEF SpawnFails, Row, Terminal, Open, Kept
  <2>3. r.state = "SUCCEEDED" => row[o].state = "SUCCEEDED" \/ os[o].run = "ok"
    BY <1>0, <1>2, LedgerWrites DEF SpawnFails, IInv, AgreeInv, Row, Terminal, Open, Kept
  <2>4. k \in Mem /\ TaskFits(o, k)
    BY <1>0, <1>2, TaskFields DEF SpawnFails, TaskFits
  <2> QED
    BY <2>1, <2>2, <2>3, <2>4, InnerStep
<1>3. CASE Admit(o)
  <2> DEFINE r == [Transition(row[o], "ADMITTED") EXCEPT !.pid = TRUE]
             k == [mem[o] EXCEPT !.driver = "start"]
  <2>1. row' = [row EXCEPT ![o] = r] /\ mem' = [mem EXCEPT ![o] = k] /\ Inner
    BY <1>0, <1>3 DEF Admit, Inner
  <2>2. r \in Row /\ Kept(row[o], r)
    BY <1>0, <1>3, LedgerWrites DEF Admit, Row, Terminal, Open, Kept
  <2>3. r.state = "SUCCEEDED" => row[o].state = "SUCCEEDED" \/ os[o].run = "ok"
    BY <1>0, <1>3, LedgerWrites DEF Admit, IInv, AgreeInv, Row, Terminal, Open, Kept
  <2>4. k \in Mem /\ TaskFits(o, k)
    BY <1>0, <1>3, TaskFields DEF Admit, TaskFits
  <2> QED
    BY <2>1, <2>2, <2>3, <2>4, InnerStep
<1>4. CASE DriveStart(o)
  <2> DEFINE r == Transition(row[o], "RUNNING")
             k == [mem[o] EXCEPT !.driver = "read"]
  <2>1. row' = [row EXCEPT ![o] = r] /\ mem' = [mem EXCEPT ![o] = k] /\ Inner
    BY <1>0, <1>4 DEF DriveStart, Inner
  <2>2. r \in Row /\ Kept(row[o], r)
    BY <1>0, <1>4, LedgerWrites DEF DriveStart, Row, Terminal, Open, Kept
  <2>3. r.state = "SUCCEEDED" => row[o].state = "SUCCEEDED" \/ os[o].run = "ok"
    BY <1>0, <1>4, LedgerWrites DEF DriveStart, IInv, AgreeInv, Row, Terminal, Open, Kept
  <2>4. k \in Mem /\ TaskFits(o, k)
    BY <1>0, <1>4, TaskFields DEF DriveStart, TaskFits
  <2> QED
    BY <2>1, <2>2, <2>3, <2>4, InnerStep
<1>5. CASE Heartbeat(o)
  <2> DEFINE r == Touch(row[o])
             k == mem[o]
  <2>1. row' = [row EXCEPT ![o] = r] /\ mem' = [mem EXCEPT ![o] = k] /\ Inner
    BY <1>0, <1>5 DEF Heartbeat, Inner
  <2>2. r \in Row /\ Kept(row[o], r)
    BY <1>0, <1>5, LedgerWrites DEF Heartbeat, Row, Terminal, Open, Kept
  <2>3. r.state = "SUCCEEDED" => row[o].state = "SUCCEEDED" \/ os[o].run = "ok"
    BY <1>0, <1>5, LedgerWrites DEF Heartbeat, IInv, AgreeInv, Row, Terminal, Open, Kept
  <2>4. k \in Mem /\ TaskFits(o, k)
    BY <1>0, TaskFields DEF TaskFits
  <2> QED
    BY <2>1, <2>2, <2>3, <2>4, InnerStep
<1>6. CASE ReaderFails(o)
  <2> DEFINE r == row[o]
             k == [mem[o] EXCEPT !.driver = "wait"]
  <2>1. row' = [row EXCEPT ![o] = r] /\ mem' = [mem EXCEPT ![o] = k] /\ Inner
    BY <1>0, <1>6 DEF ReaderFails, Inner
  <2>2. r \in Row /\ Kept(row[o], r)
    BY <1>0, <1>6, LedgerWrites DEF ReaderFails, Row, Terminal, Open, Kept
  <2>3. r.state = "SUCCEEDED" => row[o].state = "SUCCEEDED" \/ os[o].run = "ok"
    BY <1>0, <1>6, LedgerWrites DEF ReaderFails, IInv, AgreeInv, Row, Terminal, Open, Kept
  <2>4. k \in Mem /\ TaskFits(o, k)
    BY <1>0, <1>6, TaskFields DEF ReaderFails, TaskFits
  <2> QED
    BY <2>1, <2>2, <2>3, <2>4, InnerStep
<1>7. CASE DriveEnd(o)
  <2> DEFINE r == IF row[o].state \in {"CANCELING", "CANCELLED"} THEN row[o]
                  ELSE WriteTerminal(row[o], Outcome(Effective(o)))
             k == [mem[o] EXCEPT !.driver = "none"]
  <2>1. row' = [row EXCEPT ![o] = r] /\ mem' = [mem EXCEPT ![o] = k] /\ Inner
    BY <1>0, <1>7 DEF DriveEnd, Inner
  <2>2. r \in Row /\ Kept(row[o], r)
    BY <1>0, <1>7, LedgerWrites DEF DriveEnd, Row, Terminal, Open, Kept, Outcome, Effective
  <2>3. r.state = "SUCCEEDED" => row[o].state = "SUCCEEDED" \/ os[o].run = "ok"
    BY <1>0, <1>7, LedgerWrites DEF DriveEnd, IInv, AgreeInv, Row, Terminal, Open, Kept,
       Outcome, Effective
  <2>4. k \in Mem /\ TaskFits(o, k)
    BY <1>0, <1>7, TaskFields DEF DriveEnd, TaskFits
  <2> QED
    BY <2>1, <2>2, <2>3, <2>4, InnerStep
<1>8. CASE OnResult(o)
  <2> DEFINE r == WriteTerminal(row[o],
                    IF os[o].run = "canceled" THEN "CANCELLED" ELSE Outcome(os[o].run))
             k == [mem[o] EXCEPT !.driver = "none"]
  <2>1. row' = [row EXCEPT ![o] = r] /\ mem' = [mem EXCEPT ![o] = k] /\ Inner
    BY <1>0, <1>8 DEF OnResult, Inner
  <2>2. r \in Row /\ Kept(row[o], r)
    BY <1>0, <1>8, LedgerWrites DEF OnResult, Row, Terminal, Open, Kept, Outcome
  <2>3. r.state = "SUCCEEDED" => row[o].state = "SUCCEEDED" \/ os[o].run = "ok"
    BY <1>0, <1>8, LedgerWrites DEF OnResult, IInv, AgreeInv, Row, Terminal, Open, Kept, Outcome
  <2>4. k \in Mem /\ TaskFits(o, k)
    BY <1>0, <1>8, TaskFields DEF OnResult, TaskFits
  <2> QED
    BY <2>1, <2>2, <2>3, <2>4, InnerStep
<1>9. CASE CancelAction(o)
  <2> DEFINE r == [row[o] EXCEPT !.state = "CANCELING", !.stale = FALSE]
             k == [mem[o] EXCEPT !.canceler = "grace"]
  <2>1. row' = [row EXCEPT ![o] = r] /\ mem' = [mem EXCEPT ![o] = k] /\ Inner
    BY <1>0, <1>9 DEF CancelAction, Inner, Canceling
  <2>2. r \in Row /\ Kept(row[o], r)
    BY <1>0, <1>9, LedgerWrites DEF CancelAction, Row, Terminal, Open, Kept
  <2>3. r.state = "SUCCEEDED" => row[o].state = "SUCCEEDED" \/ os[o].run = "ok"
    BY <1>0, <1>9, LedgerWrites DEF CancelAction, IInv, AgreeInv, Row, Terminal, Open, Kept
  <2>4. k \in Mem /\ TaskFits(o, k)
    BY <1>0, TaskFields DEF TaskFits
  <2> QED
    BY <2>1, <2>2, <2>3, <2>4, InnerStep
<1>10. CASE CancelLedger(o)
  <2> DEFINE r == WriteTerminal([row[o] EXCEPT !.state = "CANCELING"], "CANCELLED")
             k == mem[o]
  <2>1. row' = [row EXCEPT ![o] = r] /\ mem' = [mem EXCEPT ![o] = k] /\ Inner
    BY <1>0, <1>10 DEF CancelLedger, Inner, Cancelled
  <2>2. r \in Row /\ Kept(row[o], r)
    BY <1>0, <1>10, LedgerWrites DEF CancelLedger, Row, Terminal, Open, Kept
  <2>3. r.state = "SUCCEEDED" => row[o].state = "SUCCEEDED" \/ os[o].run = "ok"
    BY <1>0, <1>10, LedgerWrites DEF CancelLedger, IInv, AgreeInv, Row, Terminal, Open, Kept
  <2>4. k \in Mem /\ TaskFits(o, k)
    BY <1>0, TaskFields DEF TaskFits
  <2> QED
    BY <2>1, <2>2, <2>3, <2>4, InnerStep
<1>11. CASE CancelEnds(o)
  <2> DEFINE r == WriteTerminal(row[o], "CANCELLED")
             k == [mem[o] EXCEPT !.canceler = "none"]
  <2>1. row' = [row EXCEPT ![o] = r] /\ mem' = [mem EXCEPT ![o] = k] /\ Inner
    BY <1>0, <1>11 DEF CancelEnds, Inner
  <2>2. r \in Row /\ Kept(row[o], r)
    BY <1>0, <1>11, LedgerWrites DEF CancelEnds, Row, Terminal, Open, Kept
  <2>3. r.state = "SUCCEEDED" => row[o].state = "SUCCEEDED" \/ os[o].run = "ok"
    BY <1>0, <1>11, LedgerWrites DEF CancelEnds, IInv, AgreeInv, Row, Terminal, Open, Kept
  <2>4. k \in Mem /\ TaskFits(o, k)
    BY <1>0, TaskFields DEF TaskFits
  <2> QED
    BY <2>1, <2>2, <2>3, <2>4, InnerStep
<1>12. CASE HeartbeatAges(o)
  <2> DEFINE r == [row[o] EXCEPT !.stale = TRUE]
             k == mem[o]
  <2>1. row' = [row EXCEPT ![o] = r] /\ mem' = [mem EXCEPT ![o] = k] /\ Inner
    BY <1>0, <1>12 DEF HeartbeatAges, Inner
  <2>2. r \in Row /\ Kept(row[o], r)
    BY <1>0, <1>12, LedgerWrites DEF HeartbeatAges, Row, Terminal, Open, Kept
  <2>3. r.state = "SUCCEEDED" => row[o].state = "SUCCEEDED" \/ os[o].run = "ok"
    BY <1>0, <1>12, LedgerWrites DEF HeartbeatAges, IInv, AgreeInv, Row, Terminal, Open, Kept
  <2>4. k \in Mem /\ TaskFits(o, k)
    BY <1>0, TaskFields DEF TaskFits
  <2> QED
    BY <2>1, <2>2, <2>3, <2>4, InnerStep
<1>13. CASE RecoverCode(o)
  <2> DEFINE r == IF os[o].code # "none" THEN WriteTerminal(row[o], Outcome(os[o].code)) ELSE row[o]
             k == [mem[o] EXCEPT !.boot = IF os[o].code # "none" THEN "done" ELSE "read"]
  <2>1. row' = [row EXCEPT ![o] = r] /\ mem' = [mem EXCEPT ![o] = k] /\ Inner
    BY <1>0, <1>13 DEF RecoverCode, Inner
  <2>2. r \in Row /\ Kept(row[o], r)
    BY <1>0, <1>13, LedgerWrites DEF RecoverCode, Row, Terminal, Open, Kept, Outcome
  <2>3. r.state = "SUCCEEDED" => row[o].state = "SUCCEEDED" \/ os[o].run = "ok"
    BY <1>0, <1>13, LedgerWrites DEF RecoverCode, IInv, AgreeInv, Row, Terminal, Open, Kept, Outcome
  <2>4. k \in Mem /\ TaskFits(o, k)
    <3>1. \A b \in {"done", "todo", "read"} :
             [mem[o] EXCEPT !.boot = b] \in Mem /\ TaskFits(o, [mem[o] EXCEPT !.boot = b])
      <4>1. \A b \in {"done", "todo", "read"} :
               /\ [mem[o] EXCEPT !.boot = b] \in Mem
               /\ [mem[o] EXCEPT !.boot = b].driver = mem[o].driver
        BY <1>0, TaskFields, Zenon
      <4> QED
        BY <1>0, <4>1, Zenon DEF TaskFits
    <3>2. CASE os[o].code # "none"
      BY <3>1, <3>2
    <3>3. CASE os[o].code = "none"
      BY <3>1, <3>3
    <3> QED
      BY <3>2, <3>3
  <2> QED
    BY <2>1, <2>2, <2>3, <2>4, InnerStep
<1>14. CASE RecoverPid(o)
  <2> DEFINE r == IF row[o].pid /\ os[o].wrapper = "alive"
                  THEN Transition(row[o], "DEGRADED") ELSE WriteTerminal(row[o], "LOST")
             k == IF row[o].pid /\ os[o].wrapper = "alive"
                  THEN [NoTask EXCEPT !.driver = "watch"] ELSE NoTask
  <2>1. row' = [row EXCEPT ![o] = r] /\ mem' = [mem EXCEPT ![o] = k] /\ Inner
    BY <1>0, <1>14 DEF RecoverPid, Inner
  <2>2. r \in Row /\ Kept(row[o], r)
    BY <1>0, <1>14, LedgerWrites DEF RecoverPid, Row, Terminal, Open, Kept
  <2>3. r.state = "SUCCEEDED" => row[o].state = "SUCCEEDED" \/ os[o].run = "ok"
    BY <1>0, <1>14, LedgerWrites DEF RecoverPid, IInv, AgreeInv, Row, Terminal, Open, Kept
  <2>4. k \in Mem /\ TaskFits(o, k)
    BY <1>0, TaskFields DEF TaskFits
  <2> QED
    BY <2>1, <2>2, <2>3, <2>4, InnerStep
<1>15. CASE WatchEnd(o)
  <2> DEFINE r == IF row[o].state \in Terminal \cup {"CANCELING"} THEN row[o]
                  ELSE WriteTerminal(row[o],
                         IF os[o].code # "none" THEN Outcome(os[o].code) ELSE "LOST")
             k == [mem[o] EXCEPT !.driver = "none"]
  <2>1. row' = [row EXCEPT ![o] = r] /\ mem' = [mem EXCEPT ![o] = k] /\ Inner
    BY <1>0, <1>15 DEF WatchEnd, Inner
  <2>2. r \in Row /\ Kept(row[o], r)
    BY <1>0, <1>15, LedgerWrites DEF WatchEnd, Row, Terminal, Open, Kept, Outcome
  <2>3. r.state = "SUCCEEDED" => row[o].state = "SUCCEEDED" \/ os[o].run = "ok"
    BY <1>0, <1>15, LedgerWrites DEF WatchEnd, IInv, AgreeInv, Row, Terminal, Open, Kept, Outcome
  <2>4. k \in Mem /\ TaskFits(o, k)
    BY <1>0, <1>15, TaskFields DEF WatchEnd, TaskFits
  <2> QED
    BY <2>1, <2>2, <2>3, <2>4, InnerStep
<1>16. CASE Spawn(o)
  BY <1>0, <1>16, OperationAssumption DEF Spawn, IInv, TypeOK, AgreeInv, TaskFits,
     SucceededIsReal, Kept, Mem, Os, Row, Terminal, Open, Goal, Operations
<1>17. CASE RunEnds(o)
  BY <1>0, <1>17, OperationAssumption DEF RunEnds, IInv, TypeOK, AgreeInv, TaskFits,
     SucceededIsReal, Kept, Mem, Os, Row, Terminal, Open, Goal, Operations
<1>18. CASE WrapperEnds(o)
  BY <1>0, <1>18, OperationAssumption DEF WrapperEnds, IInv, TypeOK, AgreeInv, TaskFits,
     SucceededIsReal, Kept, Mem, Os, Row, Terminal, Open, Goal, Operations
<1>19. CASE WrapperKilled(o)
  BY <1>0, <1>19, OperationAssumption DEF WrapperKilled, IInv, TypeOK, AgreeInv, TaskFits,
     SucceededIsReal, Kept, Mem, Os, Row, Terminal, Open, Goal, Operations
<1>20. CASE StartAction(o)
  <2>1. CASE row' = [row EXCEPT ![o].state = "QUEUED"] /\ UNCHANGED <<mem, os>>
    <3> DEFINE r == [row[o] EXCEPT !.state = "QUEUED"]
    <3>1. r \in Row /\ Kept(row[o], r) /\ r.state # "SUCCEEDED"
      BY <1>0, <1>20 DEF StartAction, Row, Terminal, Open, Kept
    <3>2. row' = [row EXCEPT ![o] = r] /\ mem' = [mem EXCEPT ![o] = mem[o]] /\ Inner
      BY <1>0, <1>20, <2>1 DEF StartAction, Inner
    <3> QED
      BY <1>0, <3>1, <3>2, InnerStep
  <2>2. CASE /\ row' = [row EXCEPT ![o].state = "RUNNING"]
             /\ mem' = [mem EXCEPT ![o].driver = "listen"]
             /\ os' = [os EXCEPT ![o].run = "running"]
    <3>1. row' \in [Operations -> Row]
      BY <2>2 DEF IInv, TypeOK, Row, Open
    <3>2. mem' \in [Operations -> Mem] /\ os' \in [Operations -> Os]
      <4>1. mem' \in [Operations -> Mem]
        BY <2>2 DEF IInv, TypeOK, Mem
      <4>2. os' \in [Operations -> Os]
        BY <2>2 DEF IInv, TypeOK, Os
      <4> QED
        BY <4>1, <4>2
    <3>3. TypeOK'
      BY <1>0, <1>20, <3>1, <3>2 DEF StartAction, IInv, TypeOK
    <3>4. AgreeInv'
      BY <1>0, <1>20, <2>2, OperationAssumption
         DEF StartAction, IInv, TypeOK, AgreeInv, TaskFits, Mem, Os, Operations
    <3>5. SucceededIsReal'
      BY <2>2, <3>1, <3>2 DEF IInv, TypeOK, SucceededIsReal, Row, Os
    <3>6. \A p \in Operations : Kept(row[p], row'[p])
      BY <1>0, <1>20, <2>2 DEF StartAction, IInv, TypeOK, Kept, Row, Terminal
    <3> QED
      BY <3>3, <3>4, <3>5, <3>6 DEF Goal, IInv
  <2> QED
    BY <1>0, <1>20, <2>1, <2>2 DEF StartAction
<1>21. CASE CancelProcess(o)
  <2>1. TypeOK'
    BY <1>0, <1>21, OperationAssumption DEF CancelProcess, Canceling, IInv, TypeOK, Mem, Os,
       Row, Terminal, Open
  <2>2. AgreeInv'
    BY <1>0, <1>21, OperationAssumption DEF CancelProcess, Canceling, IInv, TypeOK, AgreeInv,
       TaskFits, Owned, Mem, Os, Operations
  <2>3. SucceededIsReal'
    BY <1>0, <1>21, OperationAssumption DEF CancelProcess, Canceling, IInv, TypeOK,
       SucceededIsReal, AgreeInv, Mem, Os, Row, Open
  <2>4. \A p \in Operations : Kept(row[p], row'[p])
    BY <1>0, <1>21, OperationAssumption DEF CancelProcess, Canceling, IInv, TypeOK, Kept, Row,
       Terminal, Open
  <2> QED
    BY <2>1, <2>2, <2>3, <2>4 DEF Goal, IInv
<1> QED
  BY <1>1, <1>2, <1>3, <1>4, <1>5, <1>6, <1>7, <1>8, <1>9, <1>10, <1>11, <1>12, <1>13, <1>14,
     <1>15, <1>16, <1>17, <1>18, <1>19, <1>20, <1>21

\* A sweep, a crash and a start touch every operation.
LEMMA DaemonSteps ==
    ASSUME IInv, SweepLiveness \/ Crash \/ Boot
    PROVE  Goal
<1>0. NoTask \in Mem /\ NoTask.driver = "none"
  BY DEF Mem, NoTask
<1>1. CASE SweepLiveness
  <2>1. ASSUME NEW o \in Operations
        PROVE  /\ Swept(row[o]) \in Row /\ Kept(row[o], Swept(row[o]))
               /\ Swept(row[o]).state = "SUCCEEDED" => row[o].state = "SUCCEEDED"
    <3>1. row[o] \in Row /\ Kept(row[o], row[o])
      BY DEF IInv, TypeOK, Kept
    <3>2. {"DEGRADED", "RUNNING"} \subseteq Terminal \cup Open
      BY DEF Open
    <3> QED
      BY <3>1, <3>2, LedgerWrites DEF Swept
  <2>2. row' \in [Operations -> Row] /\ \A p \in Operations : Kept(row[p], row'[p])
    BY <1>1, <2>1 DEF SweepLiveness
  <2>3. SucceededIsReal'
    BY <1>1, <2>1 DEF SweepLiveness, IInv, SucceededIsReal
  <2>4. TypeOK' /\ AgreeInv'
    BY <1>1, <2>2 DEF SweepLiveness, IInv, TypeOK, AgreeInv, TaskFits
  <2> QED
    BY <2>2, <2>3, <2>4 DEF Goal, IInv
<1>2. CASE Crash
  <2>1. TypeOK'
    <3>1. crashes' \in 0..MaxCrashes
      BY <1>2, OperationAssumption DEF Crash, IInv, TypeOK
    <3>2. mem' \in [Operations -> Mem]
      BY <1>0, <1>2 DEF Crash
    <3>3. interrupted' \in SUBSET Operations
      BY <1>2 DEF Crash, IInv, TypeOK
    <3> QED
      BY <1>2, <3>1, <3>2, <3>3 DEF Crash, IInv, TypeOK
  <2>2. AgreeInv'
    BY <1>0, <1>2 DEF Crash, IInv, AgreeInv, TaskFits
  <2>3. SucceededIsReal' /\ \A p \in Operations : Kept(row[p], row'[p])
    BY <1>2 DEF Crash, IInv, SucceededIsReal, Kept
  <2> QED
    BY <2>1, <2>2, <2>3 DEF Goal, IInv
<1>3. CASE Boot
  <2>1. \A b \in {"done", "todo", "read"} :
           [NoTask EXCEPT !.boot = b] \in Mem /\ [NoTask EXCEPT !.boot = b].driver = "none"
    BY DEF Mem, NoTask
  <2>2. \A o \in Operations : mem'[o] \in Mem /\ mem'[o].driver = "none"
    BY <1>3, <2>1 DEF Boot
  <2>3. TypeOK'
    BY <1>3, <2>2 DEF Boot, IInv, TypeOK
  <2>4. AgreeInv'
    BY <1>3, <2>2 DEF Boot, IInv, AgreeInv, TaskFits
  <2>5. SucceededIsReal' /\ \A p \in Operations : Kept(row[p], row'[p])
    BY <1>3 DEF Boot, IInv, SucceededIsReal, Kept
  <2> QED
    BY <2>3, <2>4, <2>5 DEF Goal, IInv
<1> QED
  BY <1>1, <1>2, <1>3

\* The empty table of a first start.
LEMMA InitialInvariant == Init => IInv
<1> SUFFICES ASSUME Init PROVE IInv
  OBVIOUS
<1>1. TypeOK
  BY OperationAssumption DEF Init, TypeOK, Row, Mem, Os, NoTask
<1>2. AgreeInv
  BY OperationAssumption DEF Init, AgreeInv, TaskFits, NoTask, Operations
<1>3. SucceededIsReal
  BY DEF Init, SucceededIsReal
<1> QED
  BY <1>1, <1>2, <1>3 DEF IInv

\* Every step of the specification.
LEMMA Steps == IInv /\ [Next]_vars => Goal
<1> SUFFICES ASSUME IInv, [Next]_vars PROVE Goal
  OBVIOUS
<1>1. CASE UNCHANGED vars
  BY <1>1 DEF vars, Goal, IInv, TypeOK, AgreeInv, TaskFits, SucceededIsReal, Kept
<1>2. CASE Next
  BY <1>2, OperationSteps, DaemonSteps DEF Next, Progress
<1> QED
  BY <1>1, <1>2

\* The state keeps its types.
THEOREM TypeCorrect == Spec => []TypeOK
<1>1. IInv /\ [Next]_vars => IInv'
  BY Steps DEF Goal
<1>2. IInv => TypeOK
  BY DEF IInv
<1> QED
  BY <1>1, <1>2, InitialInvariant, PTL DEF Spec

\* A recorded success is that of the child or of the goal, whatever crashes,
\* reattachments and cancellations came before it.
THEOREM SuccessIsReal == Spec => []SucceededIsReal
<1>1. IInv /\ [Next]_vars => IInv'
  BY Steps DEF Goal
<1>2. IInv => SucceededIsReal
  BY DEF IInv
<1> QED
  BY <1>1, <1>2, InitialInvariant, PTL DEF Spec

\* A late completion never overwrites the ledger: terminal states are final,
\* and under CANCELING only CANCELLED is accepted.
THEOREM LedgerIsFinal == Spec => LedgerStands
<1>1. IInv /\ [Next]_vars => IInv'
  BY Steps DEF Goal
<1>2. IInv /\ [Next]_vars =>
        [\A o \in Operations :
            /\ row[o].state \in Terminal => row'[o].state = row[o].state
            /\ row[o].state = "CANCELING" => row'[o].state \in {"CANCELING", "CANCELLED"}]_row
  BY Steps DEF Goal, Kept
<1> QED
  BY <1>1, <1>2, InitialInvariant, PTL DEF Spec, LedgerStands

=============================================================================
