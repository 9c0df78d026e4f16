# Verification of ROSClaw

TLA+ models of the core of ROSClaw. Most of them are about the part that stands between an agent and a robot:
`rosclawd`, the daemon that owns the robot, decides which action may reach an
executor, keeps a durable record of that decision, and stops the robot when the
record, the client or the clock says so. Source: `src/rosclaw/daemon/` and
`src/rosclaw/operator/`, with the parts of `src/rosclaw/kernel/` and
`src/rosclaw/core/` they call. The others are about what the agent side keeps
durable: long-running operations (`src/rosclaw/task_kernel/`), the outbox
(`src/rosclaw/storage/`) and the projection of memories that goes through it
(`src/rosclaw/memory/`).

## 1. The system

| part | state | operations |
|---|---|---|
| **Ledger** (`daemon/ledger.py`) | SQLite table of HMAC-chained events; an *anchor* file that signs the newest one; `_failure`, `_observed_data_version` | open (verify chain and anchor), append (anchor first, row after), read, close |
| **Permit authority** (`daemon/permits.py`) | `_permits`, `_uses`, `_consumed_actions`, `_revoked` | register, authorize, revoke_session, revoke_all, rebuild from the ledger |
| **Control plane** (`daemon/service.py`) | `_jobs` with the state, future, override and receipt of each action; queue slots; supervision state; `_recovery_action_ids`; `_ledger_write_failed` | request, cancel, run, acknowledge, arm, E-Stop, start and restart recovery, close |
| **Session manager** (`daemon/session_manager.py`) | sessions with state and heartbeat expiry | create, heartbeat, require, expire, close |
| **Watchdog** (`daemon/watchdog.py`) | a timer thread | one tick every 50 ms: lost sessions, overdue jobs |
| **Action gateway, resource manager** (`kernel/`) | actions in flight, receipts, body leases | submit, reject, discard |
| **Runtime** (`core/runtime.py`) | the E-Stop latch | request_emergency_stop, submit_action |
| **Worker manager** (`daemon/worker_manager.py`) | worker processes with generation and heartbeat | start, stop, monitor and restart |
| **Operator proposals** (`operator/store.py`, and the decisions in `daemon/service.py`) | proposals for REAL or SHADOW work, their state, challenge and events | create, list, cancel, decide, expire, invalidate at restart |
| **Outbox** (`storage/outbox.py`) | SQLite tables of records and of dead letters; worker threads with leases | enqueue, claim, commit, mark delivered or failed, requeue, purge |
| **Memory projection** (`memory/repository.py`, `storage/seekdb_projection.py`) | memories in the local store, their copies in a retrieval index | write a memory, enqueue the copy, upsert it |
| **Operation manager** (`task_kernel/operation_manager.py`, `connectors/ros/action_client.py`) | table of operations; processes, driver tasks and callbacks of the running daemon; exit code files | start, drive, cancel, sweep, recover at start |

A client session asks for an action; the control plane records it, queues it and
runs it on a thread pool. A REAL action additionally needs a permit (bought by an
operator's decision) that the authority consumes, an ARMED supervision state and
an unlatched Runtime. Registration and consumption of permits, submission, start
and receipt of actions, and review requirements are events of one ledger, from
which a restarted daemon rebuilds everything it knows.

The remaining ~200k lines (simulation, learning, memory, knowledge, providers,
drivers, dashboards, installers) consume or feed this core; the components list
of `PROJECT.json` names them with the reason each is left out.

### What is hard here

* **Many threads, short locks.** Client requests, pool threads, the watchdog and
  session handling share jobs; every one of them decides under the lock, acts
  outside it, and decides again. A step of the model is one critical section or
  one call outside the lock.
* **The ledger may fail at any append**, before anything happened, or with an
  unknown outcome; and what is written must be readable by the next start, or
  the daemon never comes up again.
* **Crashes** between any two durable writes, also during the recovery from a
  crash.
* **Executors that never return**, on a pool with few threads.
* **Bounded memory**: jobs are evicted, identifiers must stay immutable.
* **Leases that run out under a living worker**, commits that are applied although
  they raise, and records that are taken for duplicates.
* **Processes that outlive the daemon** that started them, and end while it is down
  or while it is finding out whether they have.

`PROJECT.json` lists the main hazards at their lines, with the property that would
catch each or why none does yet. Noted besides, and not covered by a property:
`ThreadPoolExecutor.submit` enqueues a job before it starts a thread, which may
raise (`daemon/service.py:1505`); receipts carry wall-clock times, so a clock that
is set back can write one the next start refuses (`daemon/service.py:2622`); the
supervision event of an arm is appended after the lock is released
(`daemon/service.py:964`); a requeued dead letter is not counted against the
outbox's capacity (`storage/outbox.py:580`); the event bus publishes to a snapshot
of its subscribers (`core/event_bus.py:308`).

## 2. Modules

| module | what it is |
|---|---|
| `DurableLog` | abstract specification: an append-only log whose appends succeed, are refused, or fail with an unknown outcome and break the handle. What every client of the ledger relies on. |
| `DaemonLedger` | the ledger as it is implemented: rows, anchor, dirty flag, and the outside world that may roll files back or edit them. `ImplementsLog` says that it refines `DurableLog`. |
| `DaemonLedgerProofs` | TLAPS proofs about `DaemonLedger`. |
| `PermitAuthority` | the authority's tables, *composed with* `DurableLog`: every durable step is an action of that module. |
| `PermitAuthorityProofs` | TLAPS proofs about `PermitAuthority`. |
| `ControlPlane` | jobs, sessions, watchdog, supervision, E-Stop, restart recovery. |
| `ControlPlaneProofs` | TLAPS proofs about `ControlPlane`. |
| `ActionGateway` | `Runtime.submit_action`, the gateway and the body leases behind it: what `ControlPlane` sees as one call. |
| `ActionGatewayProofs` | TLAPS proofs about `ActionGateway`. |
| `WorkerManager` | the supervision of an adapter worker, and what a new worker process means for permits. |
| `WorkerManagerProofs` | TLAPS proofs about `WorkerManager`. |
| `OperatorProposals` | the consent plane: from a proposal to the permit and the action it buys. |
| `OperatorProposalsProofs` | TLAPS proofs about `OperatorProposals`. |
| `Outbox` | the outbox and its workers. |
| `OutboxProofs` | TLAPS proofs about `Outbox`. |
| `MemoryProjection` | *composes* the memory repository, the outbox and the index: a write enqueues through `Outbox`'s own actions, its workers' commits update the index. |
| `OperationManager` | operations, their processes and goals, cancellation and restart recovery. |
| `OperationManagerProofs` | TLAPS proofs about `OperationManager`. |
| `MC*` | instances for TLC. |

### DaemonLedger

`db` holds the rows, `anchor` the history the anchor file signs: a MAC covers the
MAC before it, so it stands for the whole history. `pc` is the append in progress
(`AppendBegin`, `AppendAnchor`, `AppendCommit` are the three writes of
`_append_locked`; the `...Fails` actions are its `except` branch, `Stop` is a
crash anywhere). `ExternalOK` keeps the asymmetry of the code: the anchor is
checked on every use, the rows only when `PRAGMA data_version` moved. Damage comes
from outside as `RollBackDatabase`, `EditRow`, `RollBackAnchor`; at most one of the
two files is damaged between two verifications, the limit `docs/ROSCLAWD.md`
states itself.

### PermitAuthority

`Restore` replays the ledger into the tables, then revokes everything it found;
`Replayable` collects the conditions under which `_restore_from_ledger` does not
raise. A bulk revocation is a sequence of `RevokeNext` steps that holds the lock
and can stop between any two of them. The comparisons of `authorize` (peer, body,
snapshot, intent hash, ...) are the constant relation `Binds`. `AuthorizeAgain` is
the repeat of an action that has already consumed its permit.

### ControlPlane

The life of an action is `RequestAction`, `Pick` (the pool takes the future),
`Begin`, `Authorize`, `Submit`, `Dispatch`, `Return`, `CheckOverride`, `Finalize`:
one action per critical section or unlocked call of `_run_action`. Beside it run
`CancelAction`, `WatchdogOverride` followed by `EndQueued` or `StopRunning`, and
`RevokeSession` / `MarkOrphans` for a lost session. `Start`, `RequireReview`, `Seal`
and `Serve` are a (re)start; `Crash` wipes everything but the ledger. Time is
nondeterministic: leases, sessions and permits may be found expired whenever the
code looks at a clock. Deadlines are remembered in `late` because they cannot be
moved.

Abstractions: one permit per action, which may be issued again after it was used or
revoked (`"renewed"`); `Authorize` may fail without the failure being noted, since
`_run_action` notes a `LedgerError` only; `"BLOCKED"` in `Dispatch` stands for every way
the gateway refuses, `"COMPLETED"` in `Return` for DEGRADED as well; the graceful
end of `close()` is the same step as a crash; ledger events that are never read
back are only a chance to fail (`LedgerFault`).

### ActionGateway

A caller goes through `Submit` (the unlocked look at the E-Stop latch), `Enter` (the
first critical section of `submit`), and then either waits for the owner of the
action or is the owner: `Check`, `AcquireLease` or `LeaseTimeout`, `CallExecutor`,
`ExecutorReturns`, `Store`, `Leave`. `Graded` is what the gateway makes of an
executor's claim; evidence levels are their ranks. The reasons for which an action is
refused before the lease are an input of `Check`.

### WorkerManager

Workers share only the lock, so there is one. A process and the connection made for
it are both named by the generation. `StartWorker`, `StopWorker` and `MonitorFinds`
are the critical sections before the lock is released, `StartFails`, `StopCompletes`
and `MonitorRestarts` what follows once the process they waited for is gone. The last
wait of `_terminate`, after SIGKILL, has a timeout too, and what it raises is caught by
nobody: the caller of a stop gets the exception (`StopTimesOut`), one of a start gets
another error in its place, and the monitor thread ends (`MonitorTimesOut`) until the
next `start_worker` replaces it (`StartCall`). `Notify` is the callback into the control
plane. Clocks are nondeterministic: a start may time
out, a worker may be found silent, and a restart may leave the restart window (at
most `MaxPrunes` times). `close()` is not modelled.

### OperatorProposals

`decision` is the holder of the decision lock and how far it is; `listing` and
`creating` are threads that do not take that lock. The ledger is kept as the code
reads it back: the kinds of events of each proposal and the state the last one
carries. The state an event carries is the one the proposal has when it is appended.
An append that raises may have been committed all the same. `overwritten` is history: the
proposals whose state a thread without the decision lock has replaced after it was decided
(`Overwrites`). An administrator may arm the Runtime beside the decisions (`ArmRuntime`).
Signatures and challenges are checked by the code before the lock; that a decision
is made is an input. `RequestAction` stands for the whole of `ControlPlane`'s.

### Outbox and MemoryProjection

A record of either table is one entry of `rows`; that it is due, that its lease or its
retention has run out, is the flag `ripe`, which `TimePasses` sets. A worker's drain
cycle is `Claim` (with the purge that follows it), `BatchCommit` or one `Commit` per
record, and `MarkDelivered` / `MarkFailed`; `phase` says what comes next. Upstream may
take a record in although the call raises: the set `s` of `Upstream(w, s)` is what it
took. `StoreFails` keeps the code's two error paths apart: an error of `mark_delivered`
on a single record is handled as a failed commit, any other one ends the cycle. `commits`
and `troubled` are history: how often upstream saw a record, and whether anything
happened that allows it to see it again.

`MemoryProjection` gives the outbox one key per memory and the content of a write as
payload, as `project` does. `Project` is `Insert` or `Turned` of `Outbox`: the caller
does not learn which, since `_project` swallows the exception and `enqueue` answers a
duplicate with an id.

### OperationManager

`row` is the table, `mem` the tasks and callbacks of the running daemon, `os` the
wrapper, its child (or the goal at the action server) and the exit code file. The
manager runs on one event loop, so an action is a stretch between two awaits; the
processes and a crash come in between. `recover_on_boot` is two steps per row
(`RecoverCode`, `RecoverPid`), because the process it asks about goes on meanwhile, and
no other task runs before it is through (`Ready`). SIGTERM reaches the shell wrapper
only. `_emit` writes events nobody reads back; they are left out, as is the reuse of a
pid by another process. The output pipe of a process is taken to end with wrapper and
child; a grandchild that inherited it would keep `_drive` waiting (operation_manager.py:149).
Output and feedback are one action, `Heartbeat`.

## 3. Runs

Each run's bounds are in its `.cfg`.

| run | question | bounds, and why they are enough |
|---|---|---|
| `ledger` | Does verification ever accept files that lack an acknowledged event? Does damage ever come from the daemon itself? Does the ledger refine the log? | 2 events, 4 rows: creation, a row the anchor can fall behind to, one it can be ahead of, and one more |
| `permits` | Are grants single-use and on record, revocations final, permits of an earlier process dead, and the ledger always replayable? | 2 permits (one and two uses), 3 actions, unlimited crashes and failures; a permit has at most four events, so the ledger is finite |
| `control` | With crashes and failing appends anywhere: dispatched once and only on record, no slot lost, journals in order although jobs are evicted and asked for again, recorded reviews readable, no unknown outcome forgotten, no REAL dispatch before review | 2 REAL actions, 1 slot, 1 retained job (so that eviction happens); 2 crashes (the second one also inside recovery) or 1 crash and 1 failing append |
| `deadlines` | Does overdue, overrun or orphaned work end or get stopped, and stay ended? | 1 REAL action; any two of 2 crashes, 1 ledger failure, 1 lost session |
| `queued` | Does a job queued behind a hung executor end? | a REAL and a non-REAL action, 2 slots, 1 thread |
| `gateway` | One executor per body, one execution per receipt, receipts that stand and claim what was shown, calls that return? | 2 callers, a REAL action and a FIXTURE on one body, each receipt discarded once, an E-Stop; the proofs cover any number of callers |
| `worker` | Can a late message or a stale decision make a worker READY or start it? Does a wanted worker get a process, or is it given up? | 1 operator, the monitor, one restart in the budget, one that leaves the window |
| `consent` | What can a listing, a failing ledger or a crash do to a decision? Does a failed acceptance stop the robot? | 1 proposal (they share only the ledger, the lock and the store), 2 brokers that list, 1 ledger failure, 1 crash: 4.5 million states, so several proposals and the eviction of one by another are left to the proofs |
| `declined` | Is a decline final? (No: disagreement 3 below) | 1 proposal, 1 broker that lists, no fault |
| `outbox` | Is a record lost, sent twice for no reason, undone after its delivery, or stuck? | 2 workers, 2 records in a batch, 2 attempts before the dead letters; 1 lease that runs out under its worker and 1 crash, stop, store error or damaged payload |
| `operations` | Is a success on record real? Does the end of a process reach the record, and does a cancellation complete? | 1 process and 1 ROS 2 action (operations share only the sweep and the recovery), 2 crashes (the second one also inside recovery), 1 killed wrapper |
| `projection` | Does the index follow the memories? (No: the first disagreement below) | 2 memories, 2 writes each, no fault |

`MaxMishaps` bounds crashes, failing appends and session losses together, so that
two of any kind meet in one behaviour. No passing run has an action whose orphan
policy is CONTINUE_UNTIL_DEADLINE: with a lost session it takes two actions to say
something about it, which is beyond these bounds.

`TypeOK` is stated in every module and proved for all but `MemoryProjection` and the
abstract `DurableLog`; the runs spend their time on the other properties.

Deadlock checking is off where the bounded system may stop: the daemon may be down
for good (a ledger that does not verify is meant to keep it down), and a client may
stop asking.

### Fairness

`FairSpec` of `ControlPlane` assumes that a thread that can run does run, that the pool serves its
queue, that the watchdog keeps ticking (its loop swallows exceptions) and that
`close()` cancels what is queued. It assumes nothing of clients, operators or the
ledger, and **not** that an executor returns: the liveness properties conclude that
the job ended *or* that the Runtime is latched under a hung executor.

`FairSpec` of `ActionGateway` assumes that threads run and that the two waits with a
timeout end; no executor has to return and nobody has to get a lease. That of
`WorkerManager` assumes that the monitor ticks and finds a missing process, that
threads go on once what they wait for is gone or their wait has run out; no process has
to exit, not even after SIGKILL, and the worker owes nobody a message. The monitor thread
may end (above), so `Supervised` speaks of the time it lives.

`Fairness` of `Outbox` assumes that worker threads, whose loop survives every exception,
keep draining, and that time passes; upstream may refuse a record every time, which ends
in the dead letters. Leases run out under a living worker only `MaxOverruns` times: a
record that makes its worker overrun every time is claimed for ever, since only
`mark_failed` counts a retry. `Fairness` of `OperationManager` assumes that the event
loop runs what is ready, that timers fire and that the daemon is started again; it
assumes nothing of child processes, action servers and callers.

### Where the code and its documents disagree

The first and the third are the runs with the result `"violation"`; TLC's counterexample
is the sequence of calls. Each of the others has a configuration of its own, with which
TLC finds the counterexample, except 13 and 14, which are written into the model.

1. **A write the index never sees** (`projection`). All writes of a memory are enqueued
   under one key, so a second write is taken for a duplicate and dropped while the row
   of the first is in the outbox, delivered rows of the last hour included. The index
   stays behind until `rebuild` (seekdb_projection.py:126) or a write after the row was
   purged. The repository says the index "stays current"; `versioned_projection.py:248`
   avoids the same mistake in its own key.
2. **An orphaned action keeps the daemon down** (`EndedActionsReadable`,
   `MCControlOrphan.cfg`). When a session is lost, its pending jobs end as ORPHANED and
   that receipt is written; `_validate_persisted_receipt` does not count ORPHANED among
   the terminal states (service.py:2611), so the next start raises. docs/ROSCLAWD.md:222
   says terminal actions stay queryable.
3. **A declined proposal accepted** (`DeclineIsFinal`, run `declined`). A broker that is
   listing proposals can set one PRESENTED after it was declined (service.py:419, 664).
   It can then be accepted; that the challenge was burned is noticed after the action is
   queued. The same step misleads a rollback: whether the action may have started is
   read from the state (service.py:785), and a listing that has set it back to PRESENTED
   leaves a queued action without the safety stop. `DeclineStands` and `RollbackStops`
   say that nothing *but* such a listing does either: they hold in `consent`, with the
   brokers listing.
4. **An acknowledgement without a requirement** (`ReviewsReadable`, `MCControlAck.cfg`).
   A REAL receipt that cannot be appended adds the action to the pending review in
   memory only. If the ledger handle survived (a busy database), the operator's
   acknowledgement is then recorded alone, and the next start raises (service.py:1875).
5. **A session lost in passing** (`LossRevokesPermits`, `MCControlLoss.cfg`).
   `require_action` and `heartbeat` mark an expired session LOST without handling the
   loss; the watchdog looks only for ACTIVE sessions that expired, so its permits are
   never revoked (docs/ROSCLAWD.md:32-33: "permit revocation on loss").
6. **Execution after the latch** (`NoExecutionAfterStop`, `MCGatewayStop.cfg`). The latch
   is read once, before the gateway (runtime.py:1798). An action that waits for its
   body lease runs after the E-Stop, which "remains blocked" rules out.
7. **A generation without revocation** (`ChangeRevokes`, `MCWorkerRevoke.cfg`). Stopping a
   worker clears its connection, so the next start is not seen as a change and revokes
   nothing (docs/ROSCLAWD.md:188-190).
8. **A refused proposal executed** (`SubmissionIsCreated`, `MCProposalsUnrecorded.cfg`). A
   proposal whose session is in conflict is refused and left in the store, where an
   operator can accept it (service.py:327).
9. **A forgotten process** (`NoStrayProcess`, `MCWorkerStray.cfg`). The monitor drops
   `worker.process` after it had the lock released (worker_manager.py:394); a process that
   an operator started meanwhile runs on unsupervised.
10. **A known outcome recorded LOST** (`LostIsUnverifiable`, `MCOperationsLost.cfg`).
   `recover_on_boot` looks for the exit code file and then for the pid; a wrapper that
   writes the file and exits in between is LOST, where the document of the function
   promises the real terminal state (operation_manager.py:407).
11. **A cancellation that never ends** (`CancelSettles`, `MCOperationsCancel.cfg`). Under
   CANCELING the ledger accepts CANCELLED only, so the recovery's LOST, SUCCEEDED and
   DEGRADED are all refused and the row stays as it is; the comment at
   operation_manager.py:339 says a restart settles it as LOST.
12. **Resumed without a heartbeat** (`ReattachedIsDegraded`, `MCOperationsSweep.cfg`).
   `_transition` refreshes `heartbeat_at`, so the sweep after the one that found an
   operation silent, or after a reattachment, reports it RUNNING
   (operation_manager.py:394).
13. **Cancelled and running** (actions `CancelLedger` and `CancelProcess`). A cancel while
   the process is being spawned, or after a reattachment, records CANCELLED without a
   signal, and where there is one it reaches the wrapper, not the child.
14. **Two receipts for one action** (the last line of `ReceiptStands`). A repeated
   submission after an E-Stop is answered BLOCKED, and recorded, while the first one is
   executing; the first then replaces that record by its own (action_gateway.py:140).
15. **A monitor that ends** (`SupervisedForGood`, `MCWorkerUnsupervised.cfg`). A process
   that outlives SIGKILL by `stop_timeout_sec` makes the second wait of `_terminate` raise
   (worker_manager.py:436); `_monitor_loop` catches nothing (361), so the thread that
   watches *all* workers ends. A wanted worker that exits after that is not restarted
   before somebody calls `start_worker`; docs/ROSCLAWD.md:41 promises "heartbeat timeout,
   restart budget".

## 4. Proofs

`DaemonLedgerProofs` proves, for any set of events, any number of rows, crashes and
changes from outside:

* `TypeCorrect`: `Spec => []TypeOK`;
* `VerificationIsSound`: `Spec => []VerifiedIsComplete`, what verification accepts
  holds every acknowledged event;
* `ReopensUnlessInterrupted`: `Spec => []UnopenableOnlyAfterInterruption`;
* `LedgerImplementsLog`: `Spec => ImplementsLog`, the refinement of `DurableLog`.

They rest on the assumptions `RowAssumption` (a forged row is not an event) and
`MaxRowsAssumption`, which TLC evaluates in every run. None of the properties is
inductive: the step from "the anchor agrees with the database" to "nothing is
missing" needs to know what the anchor can be. The inductive invariant `IInv`
says, besides the types, that the anchor is always a prefix of the committed
history or that history plus the append in progress, that an untampered database
*is* the committed history, and that between two appends an untampered anchor names
exactly its head. `AcceptedIsIntact` then derives completeness from the conditions
`ChainOK` and `AnchorOK`; the refinement follows step by step with the same
invariant.

`ActionGatewayProofs` proves, for any sets of callers, actions and bodies and any
number of discarded receipts:

* `TypeCorrect`: `Spec => []TypeOK`;
* `BodiesAreExclusive`: `Spec => []OneExecutorPerBody`;
* `SubmissionIsIdempotent`: `Spec => []ExecutedOncePerReceipt`;
* `ReceiptsAreEarned`: `Spec => []ClaimsAreEarned`;
* `RecordsStand`: `Spec => ReceiptStands`.

They rest on `GatewayAssumption`. The inductive invariant names the owner: a caller
past `Enter` is the one `_inflight` names and the converse (`OwnerInv`), one that
executes or is about to holds the lease (`LeaseInv`), an action that is owned and not
yet executed, or neither owned nor answered, has no execution that a discard does not
account for (`CallsInv`), what is about to be recorded is earned (`EarnedInv`), and an
owned action has a receipt only if its owner is leaving or a repeated submission was
refused after the E-Stop (`RefusalInv`). Without `OwnerInv` a second owner could
execute again; without the clause on leaving owners in `CallsInv` a submission could
find neither an owner nor a receipt.

`OperationManagerProofs` proves, for any sets of processes and actions and any number of
crashes and kills, from `OperationAssumption`:

* `TypeCorrect`: `Spec => []TypeOK`;
* `SuccessIsReal`: `Spec => []SucceededIsReal`;
* `LedgerIsFinal`: `Spec => LedgerStands`, no late report overwrites a terminal state or
  a cancellation.

`SucceededIsReal` is not inductive: a driver or a recovery records what the exit code
file says, so the invariant also says that a file with 0 means a child that exited with
0, and that a file, a driver past the spawn and a child exist only behind a wrapper
(`AgreeInv`). The ledger's rule is proved once, for the three ways of writing a row
(`LedgerWrites`), and carried through every action.

`PermitAuthorityProofs` proves, for any sets of permits, actions and sessions, any number
of uses per permit and unlimited restarts and failing appends, from `PermitAssumption`:

* `TypeCorrect`: `Spec => []TypeOK`;
* `RestartReplays`: `Spec => []LedgerReplayable`, the next start accepts what was written;
* `RevocationHolds`: `Spec => []RevocationIsFinal`;
* `GrantsAreBounded`: `Spec => []GrantsAreSingleUse`;
* `GenerationsAreSeparate`: `Spec => NoGrantFromEarlierGeneration`.

The inductive invariant relates the tables to the ledger: while the handle is open they
are what a replay would give, but for revocations the ledger refused, and once it has
failed the ledger may be one event ahead (`TablesInv`); every authorization ever given is
a consumption on the ledger (`GrantedInv`), so that counting uses on the ledger bounds the
grants of all generations together; what a process found at its start is revoked before
it is ready (`GenerationInv`).

`ControlPlaneProofs` proves, for any numbers of actions, sessions, slots, threads and
retained jobs and any number of crashes, failing appends and lost sessions, from
`ControlAssumption`:

* `TypeCorrect`: `Spec => []TypeOK`;
* `SlotsAreConserved`: `Spec => []SlotsConserved`;
* `JournalsInOrder`: `Spec => []JournalsWellFormed`;
* `AtMostOnce`: `Spec => []DispatchedAtMostOnce`;
* `OnRecord`: `Spec => []DispatchIsOnRecord`;
* `OverridesStand`: `Spec => []OverrideStands`;
* `LostReceiptsReviewed`: `Spec => []UnrecordedRealIsReviewed`;
* `ReviewsStayReadable`: `Spec => []ReviewsReadableWhileHealthy`;
* `ReviewFirst`: `Spec => NoDispatchBeforeReview`.

One inductive invariant carries them all, checked by TLC on the instances of `control`
and `deadlines` and on `MCControlAck.cfg` and `MCControlLoss.cfg` before it was proved. `JobInv` says
which of four shapes the journal of an action has (unknown, submitted, started, ended) and
that memory, the thread and the journal agree about a job that has not ended; it is what
keeps two threads from ending the same job. `DispatchInv` adds that a dispatched action
was started on record and that its thread is past every step that leads to the executor:
since `request_action` refuses what the ledger knows, eviction and restart cannot bring it
back. `ReviewInv` is the argument for review: what a crash left unknown is reviewed,
pending on the ledger, or still unsealed, and a sealed action was put under review first,
because `_recover_incomplete_jobs_locked` records the requirement before it seals; so a
daemon that accepts a REAL action (nothing pending) has nothing unknown and unreviewed.
`HealthInv` says that, without a failing append, memory and ledger agree on what is
pending; with one they need not (disagreement 4), hence the hypothesis in
`ReviewsReadableWhileHealthy`. The 31 actions fall into steps that leave every job where
it is (`QuietKeeps`), steps of one job with its thread (`JobStepKeeps`), steps that end a
job (`EndingKeeps`), overrides (`OverridingKeeps`), and start, recovery, crash, request
and acknowledgement, each on its own. `SlotsConserved` needs `Action` to be finite.

`WorkerManagerProofs` proves, for any set of operators, any restart limit and any number
of restarts that leave the window, from `WorkerAssumption`: `TypeCorrect`
(`Spec => []TypeOK`), `ReadinessIsCurrent` (`Spec => []ReadyIsCurrent`) and
`StopPreventsSpawn` (`Spec => NoSpawnAfterStop`). The invariant adds to the property that
generations are bounded by the restarts the budget has allowed (`BudgetInv`).

`OperatorProposalsProofs` proves, for any sets of proposals and brokers, any capacity and
any number of failing appends and crashes, from `ProposalAssumption`:

* `TypeCorrect`: `Spec => []TypeOK`;
* `SubmittedWasAccepted`: `Spec => []SubmissionIsAccepted`;
* `RollbackTakesPermit`: `Spec => []NoLeftoverPermit`;
* `ConsentEnds`: `Spec => []ConsentEndsWithGeneration`;
* `DeclinesStand`: `Spec => []DeclineStands`;
* `FailedAcceptanceStops`: `Spec => RollbackStops`.

The invariant says that memory is only about proposals of this generation (`CurrentInv`),
that a decision which goes on is on record (`RecordInv`), and that the permit of a
proposal not yet submitted is in the hands of the decision that issued it (`PermitInv`).
The last two theorems need more: what is decided does not become pending again unless it
is `overwritten` (`DecidedInv`), and a rollback sees that its action was queued unless the
action has ended or the proposal is `overwritten` (`QueuedInv`). Any number of brokers may
be listing; without the exception both are false (disagreement 3). `ConsentEnds` is the
one about restarts: recovery closes what is left on the ledger one proposal at a time and
may be cut off between any two.

`OutboxProofs` proves, for any sets of workers, keys and payloads, any number of records
and attempts, and any number of overruns and faults, from `OutboxAssumption`:

* `TypeCorrect`: `Spec => []TypeOK`;
* `NothingIsLost`: `Spec => []DeliveredWasTaken`;
* `NoIdleDuplicates`: `Spec => []TwiceOnlyAfterTrouble`;
* `DeliveriesStand`: `Spec => DeliveredStands`.

The invariant is about leases: a worker holds the lease on every record of its batch that
met no trouble (`LeaseInv`), what it is about to mark was taken in (`TakenInv`), and what
was taken in without trouble is marked or about to be (`MarkedInv`), so that no second
worker can find it waiting.

### Model-checked only

Every invariant the passing runs check is proved, and every action property, but for
`MemoryProjection`, whose one property fails (disagreement 1). What stays with TLC is
liveness (`OverdueEnds`, `OverrunIsStopped`, `OrphansEnd`, `CallsReturn`, `Supervised`,
`Settles`, `EndIsRecorded`, `CancelCompletes`): it needs fairness and
`ENABLED`, which this prover does not handle.

## 5. Plan

In this order:

1. The composition of `ActionGateway` with `ControlPlane`: `Dispatch` and `Return` as the
   gateway's own steps; the rest of the worker manager (`close`), lease renewal and the
   path of a pool that refuses a job.
2. An abstract `ActionLifecycle` (requested, started, ended once) refined by
   `ControlPlane`, and an abstract `Consent` (one decision per proposal) refined by
   `OperatorProposals` for the proposals that are not `overwritten`.
3. A key per write in `MemoryProjection` (the versioned projection), where a retried
   older write can overtake a newer one.
4. Proofs: the refinements of point 2, and that `PermitAuthority`'s use of `DurableLog`
   is what `ControlPlane` assumes of a permit (`PermitState`).

## 6. Not modelled

* The **event bus** delivers to subscribers of one process on a pool of threads; a
  subscriber may be called after it has unsubscribed, and one that hangs takes a thread.
* **Team coordination** and **swarm** are bookkeeping in one process without concurrency.
* The **operator daemon**, **sockets and framing**, and the **agent daemon's** front end
  produce the requests that are inputs here.
* Task runs, distillation, retrieval and ranking transform data.

Not planned: numeric code (simulation, control, safety limits), text and language
model handling, and I/O.
