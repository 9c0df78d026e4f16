------------------------------- MODULE Outbox -------------------------------
(***************************************************************************)
(* The local outbox (storage/outbox.py): OutboxStore, the durable table    *)
(* of records on their way to an upstream, and the OutboxWorker threads    *)
(* that drain it under leases.  One action per store operation or per      *)
(* stretch of a worker's drain cycle between two calls another worker, a   *)
(* crash or the clock can come in between.                                 *)
(*                                                                         *)
(* A row of the tables outbox and outbox_dead_letters is one record here:  *)
(* its status "dead" means that it lies in the dead letters, "purged" that *)
(* it was deleted after delivery, "free" that its id is not used yet.  Ids *)
(* are handed out in the order of created_at.  Clock comparisons are one   *)
(* flag, ripe: a retry that is due, a lease that has expired, a delivered  *)
(* row past its retention.                                                 *)
(***************************************************************************)
EXTENDS Naturals, FiniteSets, FiniteSetsExt

CONSTANTS
    Keys,           \* (target, idempotency_key) pairs
    Payloads,
    Workers,        \* owner ids; a restarted worker is another one
    MaxIds,         \* bound: records ever enqueued
    Capacity,       \* max_records
    BatchSize,      \* batch_size
    MaxRetries,     \* max_retries
    NoWorker,
    MaxOverruns,    \* bound: leases that expire while their worker is at work
    MaxFaults       \* bound: crashes, stops, failing store calls, corruptions

ASSUME OutboxAssumption ==
    /\ Keys # {} /\ Payloads # {}
    /\ MaxIds \in Nat /\ Capacity \in Nat \ {0} /\ BatchSize \in Nat \ {0}
    /\ MaxRetries \in Nat \ {0}
    /\ MaxOverruns \in Nat /\ MaxFaults \in Nat
    /\ NoWorker \notin Workers

VARIABLES
    rows,       \* both tables, by record id
    phase,      \* what a worker does next
    batch,      \* the claimed records a worker has not settled yet
    commits,    \* how often upstream took a record in (2: more than once)
    troubled,   \* records that met an overrun, a crash or an error
    overruns, faults

vars == <<rows, phase, batch, commits, troubled, overruns, faults>>

Ids == 1..MaxIds

Active == {"pending", "retry", "inflight"}

\* The rows the unique index on (target, idempotency_key) speaks of.
Present == Active \cup {"delivered"}

Row == [status : Present \cup {"free", "dead", "purged"}, key : Keys,
        payload : Payloads, retries : 0..MaxRetries,
        owner : Workers \cup {NoWorker}, ripe : BOOLEAN, intact : BOOLEAN]

\* An id without a row; the other columns mean nothing.
NoRow(status) ==
    [status |-> status, key |-> CHOOSE k \in Keys : TRUE,
     payload |-> CHOOSE p \in Payloads : TRUE, retries |-> 0,
     owner |-> NoWorker, ripe |-> FALSE, intact |-> TRUE]

Phases == {"idle", "batch", "marking", "commit", "mark", "fail",
           "stopped", "crashed"}

TypeOK ==
    /\ rows \in [Ids -> Row]
    /\ phase \in [Workers -> Phases]
    /\ batch \in [Workers -> SUBSET Ids]
    /\ commits \in [Ids -> 0..2]
    /\ troubled \in SUBSET Ids
    /\ overruns \in 0..MaxOverruns
    /\ faults \in 0..MaxFaults

Init ==
    /\ rows = [i \in Ids |-> NoRow("free")]
    /\ phase = [w \in Workers |-> "idle"]
    /\ batch = [w \in Workers |-> {}]
    /\ commits = [i \in Ids |-> 0]
    /\ troubled = {}
    /\ overruns = 0 /\ faults = 0

-----------------------------------------------------------------------------
(* Producers *)

Holding(k) == {i \in Ids : rows[i].status \in Present /\ rows[i].key = k}

Unacknowledged == {i \in Ids : rows[i].status \in Active}

Fresh(i) == rows[i].status = "free" /\ \A j \in Ids : j < i => rows[j].status # "free"

\* enqueue inserts a row: no row holds the key and there is room.
Insert(k, p) ==
    /\ Holding(k) = {}
    /\ Cardinality(Unacknowledged) < Capacity
    /\ \E i \in Ids :
          /\ Fresh(i)
          /\ rows' = [rows EXCEPT ![i] =
                [status |-> "pending", key |-> k, payload |-> p, retries |-> 0,
                 owner |-> NoWorker, ripe |-> TRUE, intact |-> TRUE]]

\* enqueue finds the key held, or no room: it answers with the id of the row
\* that holds the key, or raises, and stores nothing.
Turned(k) ==
    /\ Holding(k) # {} \/ Cardinality(Unacknowledged) >= Capacity
    /\ UNCHANGED rows

Enqueue(k, p) ==
    /\ Insert(k, p)
    /\ UNCHANGED <<phase, batch, commits, troubled, overruns, faults>>

-----------------------------------------------------------------------------
(* The worker: _drain_once *)

\* Variant: a lease is taken over before it has expired.
Claimable_LeaseIgnored(i) ==
    \/ rows[i].ripe /\ rows[i].status \in {"pending", "retry"} /\ rows[i].retries < MaxRetries
    \/ rows[i].status = "inflight"

\* Variant: what a crashed worker left in flight is not claimed again.
Claimable_WaitingOnly(i) ==
    rows[i].ripe /\ rows[i].status \in {"pending", "retry"} /\ rows[i].retries < MaxRetries

Claimable(i) ==
    /\ rows[i].ripe
    /\ \/ rows[i].status \in {"pending", "retry"} /\ rows[i].retries < MaxRetries
       \/ rows[i].status = "inflight"

\* ORDER BY created_at LIMIT batch_size.
Candidates ==
    LET ready == {i \in Ids : Claimable(i)}
    IN  {i \in ready : Cardinality({j \in ready : j < i}) < BatchSize}

Purgeable(i) == rows[i].status = "delivered" /\ rows[i].ripe

\* The last record of a batch ends the cycle.
Settle(w, i, next) ==
    /\ batch' = [batch EXCEPT ![w] = @ \ {i}]
    /\ phase' = [phase EXCEPT ![w] = IF batch[w] = {i} THEN "idle" ELSE next]

\* What claim and purge_delivered make of a row: a lease on a candidate, the
\* dead letters for one whose payload does not match its hash.
ClaimedRow(w, i) ==
    IF i \in Candidates
    THEN IF rows[i].intact
         THEN [rows[i] EXCEPT !.status = "inflight", !.owner = w, !.ripe = FALSE]
         ELSE [rows[i] EXCEPT !.status = "dead", !.owner = NoWorker, !.ripe = FALSE]
    ELSE IF Purgeable(i) THEN NoRow("purged") ELSE rows[i]

\* claim, and the purge_delivered that follows it.
Claim(w) ==
    LET good == {i \in Candidates : rows[i].intact}
    IN  /\ phase[w] = "idle"
        /\ Candidates # {} \/ \E i \in Ids : Purgeable(i)
        /\ rows' = [i \in Ids |-> ClaimedRow(w, i)]
        /\ batch' = [batch EXCEPT ![w] = good]
        /\ phase' = [phase EXCEPT ![w] =
              IF good = {} THEN "idle" ELSE IF Cardinality(good) > 1 THEN "batch" ELSE "commit"]
        /\ UNCHANGED <<commits, troubled, overruns, faults>>

\* Upstream takes the records of s in.
Taken(s) == [i \in Ids |-> IF i \in s /\ commits[i] < 2 THEN commits[i] + 1 ELSE commits[i]]

\* Variant: a batch that failed is marked delivered all the same.
BatchCommit_Marked(w, s) ==
    /\ phase[w] = "batch"
    /\ commits' = Taken(s) /\ troubled' = troubled \cup s
    /\ phase' = [phase EXCEPT ![w] = "marking"]
    /\ UNCHANGED <<rows, batch, overruns, faults>>

\* save_to_seekdb_batch, which upstream applies to s.  A batch that fails may
\* have been applied in part; the worker falls back to one record at a time.
BatchCommit(w, s) ==
    /\ phase[w] = "batch"
    /\ commits' = Taken(s)
    /\ \/ /\ s = batch[w]
          /\ phase' = [phase EXCEPT ![w] = "marking"]
          /\ UNCHANGED troubled
       \/ /\ phase' = [phase EXCEPT ![w] = "commit"]
          /\ troubled' = troubled \cup s
    /\ UNCHANGED <<rows, batch, overruns, faults>>

\* save_to_seekdb of the next record returns; or it raises, before or after
\* upstream took the record in.
Commit(w, s) ==
    /\ phase[w] = "commit" /\ s \subseteq {Min(batch[w])}
    /\ commits' = Taken(s)
    /\ \/ /\ s # {}
          /\ phase' = [phase EXCEPT ![w] = "mark"]
          /\ UNCHANGED troubled
       \/ /\ phase' = [phase EXCEPT ![w] = "fail"]
          /\ troubled' = troubled \cup s
    /\ UNCHANGED <<rows, batch, overruns, faults>>

Owns(w, i) == rows[i].owner = w

Delivered(w, i) ==
    IF Owns(w, i)
    THEN [rows EXCEPT ![i].status = "delivered", ![i].owner = NoWorker, ![i].ripe = FALSE]
    ELSE rows

\* mark_delivered: only the lease owner may mark a delivery.
MarkDelivered(w) ==
    LET i == Min(batch[w])
    IN  /\ phase[w] \in {"marking", "mark"}
        /\ rows' = Delivered(w, i)
        /\ Settle(w, i, IF phase[w] = "marking" THEN "marking" ELSE "commit")
        /\ UNCHANGED <<commits, troubled, overruns, faults>>

\* Variant: the report of a worker that lost its lease counts.
Failed_AnyOwner(w, i) ==
    [rows EXCEPT ![i].retries = IF @ < MaxRetries THEN @ + 1 ELSE @,
                 ![i].owner = NoWorker, ![i].ripe = FALSE,
                 ![i].status = IF rows[i].retries + 1 >= MaxRetries THEN "dead" ELSE "retry"]

Failed(w, i) ==
    IF Owns(w, i)
    THEN [rows EXCEPT ![i].retries = @ + 1, ![i].owner = NoWorker, ![i].ripe = FALSE,
                      ![i].status = IF rows[i].retries + 1 >= MaxRetries
                                    THEN "dead" ELSE "retry"]
    ELSE rows

\* mark_failed: a retry with a backoff, or the dead letters.
MarkFailed(w) ==
    LET i == Min(batch[w])
    IN  /\ phase[w] = "fail"
        /\ rows' = Failed(w, i)
        /\ Settle(w, i, "commit")
        /\ UNCHANGED <<commits, troubled, overruns, faults>>

\* A store call raises.  mark_delivered of a single record sits in the same
\* try block as the commit, so its error is handled as a failed commit; any
\* other error ends the drain cycle, and the leases of what is left run out.
StoreFails(w) ==
    /\ faults < MaxFaults
    /\ faults' = faults + 1
    /\ \/ /\ phase[w] = "mark"
          /\ phase' = [phase EXCEPT ![w] = "fail"]
          /\ troubled' = troubled \cup {Min(batch[w])}
          /\ UNCHANGED batch
       \/ /\ phase[w] \in {"marking", "fail"}
          /\ phase' = [phase EXCEPT ![w] = "idle"]
          /\ troubled' = troubled \cup batch[w]
          /\ batch' = [batch EXCEPT ![w] = {}]
    /\ UNCHANGED <<rows, commits, overruns>>

-----------------------------------------------------------------------------
(* Operators, the clock and faults *)

\* requeue_dead_letter; the unique index refuses it while another row holds
\* the key.
RequeueDeadLetter(i) ==
    /\ rows[i].status = "dead"
    /\ Holding(rows[i].key) = {}
    /\ rows' = [rows EXCEPT ![i].status = "pending", ![i].retries = 0, ![i].ripe = TRUE]
    /\ UNCHANGED <<phase, batch, commits, troubled, overruns, faults>>

\* A backoff, a lease or a retention runs out.
TimePasses(i) ==
    /\ rows[i].status \in {"retry", "inflight", "delivered"} /\ ~rows[i].ripe
    /\ rows' = [rows EXCEPT ![i].ripe = TRUE]
    /\ troubled' = IF rows[i].status = "inflight" THEN troubled \cup {i} ELSE troubled
    /\ IF rows[i].status = "inflight" /\ i \in batch[rows[i].owner]
       THEN overruns < MaxOverruns /\ overruns' = overruns + 1
       ELSE UNCHANGED overruns
    /\ UNCHANGED <<phase, batch, commits, faults>>

\* The stored payload of a waiting record is damaged on disk.
Corrupt(i) ==
    /\ faults < MaxFaults
    /\ rows[i].status \in {"pending", "retry"} /\ rows[i].intact
    /\ rows' = [rows EXCEPT ![i].intact = FALSE]
    /\ faults' = faults + 1
    /\ UNCHANGED <<phase, batch, commits, troubled, overruns>>

Gone == {"stopped", "crashed"}

\* stop() takes effect between two cycles; a crash at any point.  Another
\* worker (a restart is one) stays.
Leave(w) ==
    /\ faults < MaxFaults
    /\ phase[w] \notin Gone
    /\ \E v \in Workers \ {w} : phase[v] \notin Gone
    /\ \/ phase[w] = "idle" /\ phase' = [phase EXCEPT ![w] = "stopped"]
       \/ phase[w] # "idle" /\ phase' = [phase EXCEPT ![w] = "crashed"]
    /\ batch' = [batch EXCEPT ![w] = {}]
    /\ troubled' = troubled \cup batch[w]
    /\ faults' = faults + 1
    /\ UNCHANGED <<rows, commits, overruns>>

\* The worker hands records to upstream, which takes s in.
Upstream(w, s) == BatchCommit(w, s) \/ Commit(w, s)

\* Every other step of a drain cycle.
Local(w) == Claim(w) \/ MarkDelivered(w) \/ MarkFailed(w)

Drain(w) == Local(w) \/ \E s \in SUBSET batch[w] : Upstream(w, s)

Background ==
    \/ \E w \in Workers : Local(w) \/ StoreFails(w) \/ Leave(w)
    \/ \E i \in Ids : RequeueDeadLetter(i) \/ TimePasses(i) \/ Corrupt(i)

Next ==
    \/ \E k \in Keys, p \in Payloads : Enqueue(k, p)
    \/ \E w \in Workers : \E s \in SUBSET batch[w] : Upstream(w, s)
    \/ Background

\* Worker threads run in a loop that survives every exception, and time
\* passes.
Fairness ==
    /\ \A w \in Workers : WF_vars(Drain(w))
    /\ \A i \in Ids : WF_vars(TimePasses(i))

Spec == Init /\ [][Next]_vars /\ Fairness

-----------------------------------------------------------------------------
(* Properties *)

\* Nothing is lost: a record is marked delivered, and in the end deleted,
\* only if upstream took it in.  A batch that failed half way, a lease that
\* ran out and a crash between the commit and the mark all come in between.
DeliveredWasTaken ==
    \A i \in Ids : rows[i].status \in {"delivered", "purged"} => commits[i] > 0

\* A delivery stands: no late failure report of a worker that lost its lease
\* sends a delivered record to a retry or to the dead letters.
DeliveredStands ==
    [][\A i \in Ids : rows[i].status = "delivered" =>
          rows'[i].status \in {"delivered", "purged"}]_rows

\* Concurrent drainers do not deliver twice: upstream sees a record again
\* only after its lease ran out, its worker went away, or a call about it
\* raised.
TwiceOnlyAfterTrouble == \A i \in Ids : commits[i] > 1 => i \in troubled

\* Every record is in the end delivered or a dead letter, as long as workers
\* overrun their leases only so often and one of them is left.
Settles ==
    \A i \in Ids :
        rows[i].status \in Active ~> rows[i].status \in {"delivered", "purged", "dead"}

=============================================================================
