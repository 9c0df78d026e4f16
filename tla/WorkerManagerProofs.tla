-------------------------- MODULE WorkerManagerProofs --------------------------
(***************************************************************************)
(* Proofs about WorkerManager, for any set of operators, any restart limit *)
(* and any number of restarts that leave the window.                       *)
(***************************************************************************)
EXTENDS WorkerManager, TLAPS

(* Every process but the first is paid for by a restart, counted in the window *)
(* or pruned from it.                                                          *)
BudgetInv == generation <= restarts + prunes + 1

IInv == TypeOK /\ BudgetInv /\ ReadyIsCurrent

(* The number of restarts a spawn counts, and what it may leave behind. *)
LEMMA SpawnBudget ==
    ASSUME IInv, NEW t \in Thread, NEW n \in 0 .. restarts, Prune(n), MaySpawn(t, n),
           restarts' = IF IsRestart(t) THEN n + 1 ELSE n
    PROVE  /\ restarts' \in 0 .. RestartLimit /\ prunes' \in 0 .. MaxPrunes
           /\ generation <= restarts' + prunes' + 1
           /\ generation + 1 \in Generation
           /\ generation + 1 <= restarts' + prunes' + 1
<1>1. /\ RestartLimit \in Nat /\ MaxPrunes \in Nat
      /\ restarts \in 0 .. RestartLimit /\ prunes \in 0 .. MaxPrunes /\ generation \in Nat
      /\ generation <= restarts + prunes + 1
  BY WorkerAssumption DEF IInv, TypeOK, Process, Generation, BudgetInv
<1>2. /\ prunes' = prunes + (restarts - n) /\ prunes' <= MaxPrunes
      /\ IsRestart(t) => n < RestartLimit
      /\ ~IsRestart(t) => generation = 0
  BY <1>1 DEF Prune, MaySpawn, IsRestart
<1>3. CASE IsRestart(t)
  BY <1>1, <1>2, <1>3 DEF Generation
<1>4. CASE ~IsRestart(t)
  BY <1>1, <1>2, <1>4 DEF Generation
<1> QED
  BY <1>3, <1>4

(* A restart that is refused, or that fails, is counted all the same. *)
LEMMA RefusalBudget ==
    ASSUME IInv, NEW n \in 0 .. restarts, Prune(n), restarts' = n
    PROVE  /\ restarts' \in 0 .. RestartLimit /\ prunes' \in 0 .. MaxPrunes
           /\ generation <= restarts' + prunes' + 1
<1>1. /\ RestartLimit \in Nat /\ MaxPrunes \in Nat
      /\ restarts \in 0 .. RestartLimit /\ prunes \in 0 .. MaxPrunes /\ generation \in Nat
      /\ generation <= restarts + prunes + 1
  BY WorkerAssumption DEF IInv, TypeOK, Process, Generation, BudgetInv
<1> QED
  BY <1>1 DEF Prune

(* _spawn_locked: the newest process is the worker's and the worker is not     *)
(* ready until it has spoken.                                                  *)
LEMMA SpawnKeeps ==
    ASSUME IInv, NEW t \in Thread, NEW n \in 0 .. restarts, Prune(n), Spawn(t, n),
           desired' \in BOOLEAN, held' \in [Thread -> Process],
           UNCHANGED <<doomed, spoken, deaf, outstanding>>
    PROVE  IInv'
<1>1. /\ restarts' \in 0 .. RestartLimit /\ prunes' \in 0 .. MaxPrunes
      /\ generation + 1 \in Generation /\ generation' = generation + 1
      /\ generation' <= restarts' + prunes' + 1
  BY SpawnBudget DEF Spawn
<1>2. /\ process' \in Process /\ connection' \in Process /\ generation' \in Process
      /\ alive' \subseteq Generation
      /\ state' = "STARTING" /\ ready' = FALSE
  BY <1>1 DEF Spawn, IInv, TypeOK, Process
<1>3. /\ report' \in [Thread -> [old : Process, new : Process]]
      /\ pc' \in [Thread -> Where]
  BY <1>2 DEF Spawn, IInv, TypeOK, Goto, Where
<1> QED
  BY <1>1, <1>2, <1>3 DEF IInv, TypeOK, BudgetInv, ReadyIsCurrent

\* start_worker begins a new generation of the worker.
LEMMA StartWorkerKeeps ==
    ASSUME IInv, NEW t \in Operator, StartWorker(t)
    PROVE  IInv'
<1>0. t \in Thread
  BY DEF Thread
<1>1. CASE ~Missing
  BY <1>0, <1>1 DEF StartWorker, IInv, TypeOK, BudgetInv, ReadyIsCurrent, record, Goto, Where
<1>2. CASE Missing
  <2>1. PICK n \in 0 .. restarts :
           /\ Prune(n)
           /\ \/ Spawn(t, n) /\ desired' = TRUE
              \/ /\ SpawnRaises(t, n)
                 /\ state' = "FAILED" /\ desired' = TRUE
                 /\ Goto(t, "idle")
                 /\ UNCHANGED <<process, generation, connection, ready, alive, report>>
              \/ /\ ~MaySpawn(t, n)
                 /\ state' = "FAILED" /\ desired' = FALSE /\ restarts' = n
                 /\ Goto(t, "idle")
                 /\ UNCHANGED <<process, generation, connection, ready, alive, report>>
    BY <1>2 DEF StartWorker
  <2>2. UNCHANGED <<doomed, spoken, deaf, held, outstanding>>
    BY DEF StartWorker
  <2>3. CASE Spawn(t, n) /\ desired' = TRUE
    BY <1>0, <2>1, <2>2, <2>3, SpawnKeeps DEF IInv, TypeOK
  <2>4. CASE SpawnRaises(t, n) /\ state' = "FAILED" /\ desired' = TRUE
             /\ Goto(t, "idle")
             /\ UNCHANGED <<process, generation, connection, ready, alive, report>>
    BY <1>0, <2>1, <2>2, <2>4, SpawnBudget
       DEF IInv, TypeOK, BudgetInv, ReadyIsCurrent, SpawnRaises, Goto, Where
  <2>5. CASE state' = "FAILED" /\ desired' = FALSE /\ restarts' = n
             /\ Goto(t, "idle")
             /\ UNCHANGED <<process, generation, connection, ready, alive, report>>
    BY <1>0, <2>1, <2>2, <2>5, RefusalBudget
       DEF IInv, TypeOK, BudgetInv, ReadyIsCurrent, Goto, Where
  <2> QED
    BY <2>1, <2>3, <2>4, <2>5
<1> QED
  BY <1>1, <1>2

\* A restart by the monitor begins a new generation within the budget.
LEMMA MonitorRestartsKeeps ==
    ASSUME IInv, MonitorRestarts
    PROVE  IInv'
<1>1. /\ held' \in [Thread -> Process]
      /\ UNCHANGED <<doomed, spoken, deaf, outstanding>>
  BY DEF MonitorRestarts, IInv, TypeOK, Process
<1>2. CASE ~desired
  BY <1>1, <1>2 DEF MonitorRestarts, IInv, TypeOK, BudgetInv, ReadyIsCurrent, record, Goto, Where
<1>3. CASE desired
  <2>0. Monitor \in Thread
    BY DEF Thread
  <2>1. PICK n \in 0 .. restarts :
           /\ Prune(n)
           /\ \/ Spawn(Monitor, n) /\ UNCHANGED desired
              \/ /\ SpawnRaises(Monitor, n) \/ (~MaySpawn(Monitor, n) /\ restarts' = n)
                 /\ process' = 0 /\ state' = "FAILED" /\ desired' = FALSE
                 /\ Goto(Monitor, "idle")
                 /\ UNCHANGED <<generation, connection, ready, alive, report>>
    BY <1>3 DEF MonitorRestarts
  <2>2. CASE Spawn(Monitor, n) /\ UNCHANGED desired
    BY <1>1, <2>0, <2>1, <2>2, SpawnKeeps DEF IInv, TypeOK
  <2>3. CASE /\ SpawnRaises(Monitor, n) \/ (~MaySpawn(Monitor, n) /\ restarts' = n)
             /\ process' = 0 /\ state' = "FAILED" /\ desired' = FALSE
             /\ Goto(Monitor, "idle")
             /\ UNCHANGED <<generation, connection, ready, alive, report>>
    <3>1. /\ restarts' \in 0 .. RestartLimit /\ prunes' \in 0 .. MaxPrunes
          /\ generation <= restarts' + prunes' + 1
      BY <2>0, <2>1, <2>3, SpawnBudget, RefusalBudget DEF SpawnRaises
    <3> QED
      BY <1>1, <2>0, <2>3, <3>1
         DEF IInv, TypeOK, BudgetInv, ReadyIsCurrent, Goto, Where, Process
  <2> QED
    BY <2>1, <2>2, <2>3
<1> QED
  BY <1>2, <1>3 DEF IInv, TypeOK

(* The steps that start nothing. *)
LEMMA OtherStepsKeep ==
    ASSUME IInv,
           \/ MonitorFinds \/ MonitorTimesOut \/ IssuePermit \/ UNCHANGED vars
           \/ \E t \in Thread : Notify(t)
           \/ \E t \in Operator :
                 \/ StartCall(t) \/ WorkerReady(t) \/ StartTimeout(t) \/ StartFails(t)
                 \/ StopWorker(t) \/ StopCompletes(t) \/ StopTimesOut(t)
           \/ \E p \in Generation : Exit(p) \/ Message(p) \/ BadMessage(p)
    PROVE  IInv'
<1>0. /\ Operator \subseteq Thread /\ Monitor \in Thread
      /\ 0 \in Process /\ Generation \subseteq Process
  BY DEF Thread, Process
<1>1. CASE MonitorFinds
  BY <1>0, <1>1
     DEF MonitorFinds, IInv, TypeOK, BudgetInv, ReadyIsCurrent, Goto, Where, Terminate, Process
<1>2. CASE IssuePermit
  BY <1>2 DEF IssuePermit, IInv, TypeOK, BudgetInv, ReadyIsCurrent, record, world
<1>3. CASE UNCHANGED vars
  BY <1>3 DEF vars, IInv, TypeOK, BudgetInv, ReadyIsCurrent
<1>4. ASSUME NEW t \in Thread, Notify(t) PROVE IInv'
  <2>1. /\ report' \in [Thread -> [old : Process, new : Process]]
        /\ pc' \in [Thread -> Where]
    BY <1>0, <1>4 DEF Notify, IInv, TypeOK, Goto, Where, None
  <2>2. outstanding' \in BOOLEAN
    BY <1>4 DEF Notify
  <2> QED
    BY <1>4, <2>1, <2>2 DEF Notify, IInv, TypeOK, BudgetInv, ReadyIsCurrent, record, world
<1>5. ASSUME NEW t \in Operator, WorkerReady(t) \/ StartFails(t) PROVE IInv'
  BY <1>0, <1>5
     DEF WorkerReady, StartFails, IInv, TypeOK, BudgetInv, ReadyIsCurrent, record, world, Goto,
         Where
<1>6. ASSUME NEW t \in Operator, StartTimeout(t) PROVE IInv'
  BY <1>0, <1>6
     DEF StartTimeout, IInv, TypeOK, BudgetInv, ReadyIsCurrent, Goto, Where, Terminate, Process
<1>7. ASSUME NEW t \in Operator, StopWorker(t) PROVE IInv'
  BY <1>0, <1>7
     DEF StopWorker, IInv, TypeOK, BudgetInv, ReadyIsCurrent, Goto, Where, Terminate, Process
<1>8. ASSUME NEW t \in Operator, StopCompletes(t) PROVE IInv'
  BY <1>0, <1>8
     DEF StopCompletes, IInv, TypeOK, BudgetInv, ReadyIsCurrent, world, Goto, Where
<1>9. ASSUME NEW p \in Generation, Exit(p) \/ Message(p) \/ BadMessage(p) PROVE IInv'
  BY <1>9
     DEF Exit, Message, BadMessage, IInv, TypeOK, BudgetInv, ReadyIsCurrent, record, Terminate
<1>10. ASSUME NEW t \in Operator, StartCall(t) PROVE IInv'
  <2>1. pc' \in [Thread -> Where]
    BY <1>0, <1>10 DEF StartCall, IInv, TypeOK, Where
  <2> QED
    BY <1>10, <2>1 DEF StartCall, IInv, TypeOK, BudgetInv, ReadyIsCurrent, record, world
<1>11. ASSUME NEW t \in Operator, StopTimesOut(t) PROVE IInv'
  BY <1>0, <1>11
     DEF StopTimesOut, IInv, TypeOK, BudgetInv, ReadyIsCurrent, record, world, Goto, Where
<1>12. CASE MonitorTimesOut
  BY <1>0, <1>12
     DEF MonitorTimesOut, IInv, TypeOK, BudgetInv, ReadyIsCurrent, record, world, Goto, Where
<1> QED
  BY <1>1, <1>2, <1>3, <1>4, <1>5, <1>6, <1>7, <1>8, <1>9, <1>10, <1>11, <1>12

\* The invariant is inductive.
LEMMA Invariance == Spec => []IInv
<1>1. Init => IInv
  <2> SUFFICES ASSUME Init PROVE IInv
    OBVIOUS
  <2>1. 0 \in Process /\ 0 \in 0 .. RestartLimit /\ 0 \in 0 .. MaxPrunes
    BY WorkerAssumption DEF Process
  <2>2. /\ pc \in [Thread -> Where]
        /\ held \in [Thread -> Process]
        /\ report \in [Thread -> [old : Process, new : Process]]
    BY <2>1 DEF Init, None, Where
  <2>3. /\ state = "STOPPED" /\ process = 0 /\ generation = 0 /\ connection = 0
        /\ desired = FALSE /\ ready = FALSE /\ restarts = 0 /\ prunes = 0 /\ outstanding = FALSE
        /\ alive = {} /\ doomed = {} /\ spoken = {} /\ deaf = {}
    BY DEF Init
  <2>4. TypeOK
    BY <2>1, <2>2, <2>3 DEF TypeOK
  <2>5. BudgetInv /\ ReadyIsCurrent
    BY <2>3 DEF BudgetInv, ReadyIsCurrent
  <2> QED
    BY <2>4, <2>5 DEF IInv
<1>2. IInv /\ [Next]_vars => IInv'
  BY StartWorkerKeeps, MonitorRestartsKeeps, OtherStepsKeep DEF Next
<1> QED
  BY <1>1, <1>2, PTL DEF Spec

(* The record of a worker keeps its types; in particular the restart budget    *)
(* bounds the processes that are ever started.                                 *)
THEOREM TypeCorrect == Spec => []TypeOK
<1>1. IInv => TypeOK
  BY DEF IInv
<1> QED
  BY <1>1, Invariance, PTL

(* READY is always the word of the present process.                            *)
THEOREM ReadinessIsCurrent == Spec => []ReadyIsCurrent
<1>1. IInv => ReadyIsCurrent
  BY DEF IInv
<1> QED
  BY <1>1, Invariance, PTL

(* No decision of the monitor made before a stop starts a process after it.    *)
THEOREM StopPreventsSpawn == Spec => NoSpawnAfterStop
<1>1. IInv /\ [Next]_vars => [generation' # generation => desired']_vars
  <2> SUFFICES ASSUME IInv, Next, generation' # generation PROVE desired'
    OBVIOUS
  <2>1. MonitorRestarts \/ \E t \in Operator : StartWorker(t)
    BY DEF Next, MonitorFinds, MonitorTimesOut, IssuePermit, Notify, StartCall, WorkerReady,
          StartTimeout, StartFails, StopWorker, StopCompletes, StopTimesOut, Exit, Message,
          BadMessage, record
  <2> QED
    BY <2>1 DEF MonitorRestarts, StartWorker, record
<1> QED
  BY <1>1, Invariance, PTL DEF Spec, NoSpawnAfterStop

=============================================================================
