---------------------------- MODULE OutboxProofs ----------------------------
(***************************************************************************)
(* Proofs about Outbox, for any keys, payloads, workers, capacity, batch   *)
(* size, retries and any number of records, lease overruns and faults.     *)
(***************************************************************************)
EXTENDS Outbox, FiniteSetTheorems, TLAPS

-----------------------------------------------------------------------------
(* The inductive invariant *)

Busy == {"batch", "marking", "commit", "mark", "fail"}

\* A row that nobody has claimed has no owner, a waiting or claimed one has
\* retries left, and an expired lease is trouble.
RowInv ==
    \A i \in Ids :
        /\ rows[i].status # "inflight" => rows[i].owner = NoWorker
        /\ rows[i].status \in Active => rows[i].retries < MaxRetries
        /\ rows[i].status = "inflight" /\ rows[i].ripe => i \in troubled

\* A worker in the middle of a cycle has records left to settle, and holds the
\* lease on every one of them that met no trouble.
LeaseInv ==
    \A w \in Workers :
        /\ phase[w] \in Busy => batch[w] # {}
        /\ \A i \in batch[w] : i \notin troubled =>
              rows[i].status = "inflight" /\ rows[i].owner = w /\ ~rows[i].ripe

\* The record i is about to be marked delivered by w.
Marks(w, i) ==
    /\ i \in batch[w]
    /\ \/ phase[w] = "marking"
       \/ phase[w] = "mark" /\ i = Min(batch[w])

\* What is about to be marked was taken in by upstream ...
TakenInv == \A w \in Workers, i \in Ids : Marks(w, i) => commits[i] > 0

\* ... and what was taken in without trouble is marked, or about to be.
MarkedInv ==
    \A i \in Ids : commits[i] > 0 /\ i \notin troubled =>
        \/ rows[i].status \in {"delivered", "purged"}
        \/ \E w \in Workers : Marks(w, i)

IInv ==
    /\ TypeOK
    /\ RowInv
    /\ LeaseInv
    /\ TakenInv
    /\ MarkedInv
    /\ DeliveredWasTaken
    /\ TwiceOnlyAfterTrouble

-----------------------------------------------------------------------------
(* Every step keeps the invariant and what is delivered *)

Goal ==
    /\ IInv'
    /\ \A i \in Ids : rows[i].status = "delivered" => rows'[i].status \in {"delivered", "purged"}

\* The record a worker turns to next is one of its batch.
LEMMA MinBelongs ==
    ASSUME NEW S \in SUBSET Ids, S # {}
    PROVE  Min(S) \in S
<1>1. IsWellFoundedOn(OpToRel(<, Nat), Nat)
  BY NatLessThanWellFounded
<1>2. S \subseteq Nat
  BY OutboxAssumption DEF Ids
<1>3. PICK x \in S : \A y \in S : ~(<<y, x>> \in OpToRel(<, Nat))
  BY <1>1, <1>2, WFMin
<1>4. \A y \in S : x <= y
  <2> SUFFICES ASSUME NEW y \in S, y < x PROVE FALSE
    BY <1>2
  <2>1. y \in Nat /\ x \in Nat
    BY <1>2
  <2>2. <<y, x>> \in OpToRel(<, Nat)
    BY <2>1 DEF OpToRel
  <2> QED
    BY <1>3, <2>2
<1> QED
  BY <1>4 DEF Min

\* Rows change only where nobody has a claim without trouble and nothing is
\* taken in: enqueue, requeue_dead_letter, damage, and time.
LEMMA QuietRow ==
    ASSUME IInv, NEW i \in Ids, rows' \in [Ids -> Row],
           \A j \in Ids \ {i} : rows'[j] = rows[j],
           UNCHANGED <<phase, batch, commits>>,
           troubled' \in SUBSET Ids, troubled \subseteq troubled',
           overruns' \in 0 .. MaxOverruns, faults' \in 0 .. MaxFaults,
           rows'[i].status # "inflight" => rows'[i].owner = NoWorker,
           rows'[i].status \in Active => rows'[i].retries < MaxRetries,
           rows'[i].status = "inflight" /\ rows'[i].ripe => i \in troubled',
           \/ rows'[i].status = rows[i].status /\ rows'[i].owner = rows[i].owner
              /\ (rows[i].status # "inflight" \/ rows'[i].ripe = rows[i].ripe \/ i \in troubled')
           \/ rows[i].status \in {"free", "dead"} /\ rows'[i].status = "pending"
    PROVE  Goal
<1>1. TypeOK'
  BY DEF IInv, TypeOK
<1>2. RowInv'
  BY DEF IInv, RowInv
<1>3. LeaseInv'
  BY DEF IInv, LeaseInv, TypeOK
<1>4. TakenInv'
  BY DEF IInv, TakenInv, Marks
<1>5. MarkedInv'
  <2> SUFFICES ASSUME NEW j \in Ids, commits[j] > 0, j \notin troubled'
               PROVE  \/ rows'[j].status \in {"delivered", "purged"}
                      \/ \E w \in Workers : Marks(w, j)'
    BY DEF MarkedInv
  <2>1. \/ rows[j].status \in {"delivered", "purged"}
        \/ \E w \in Workers : Marks(w, j)
    BY DEF IInv, MarkedInv
  <2> QED
    BY <2>1 DEF Marks
<1>6. DeliveredWasTaken' /\ TwiceOnlyAfterTrouble'
  BY DEF IInv, DeliveredWasTaken, TwiceOnlyAfterTrouble
<1> QED
  BY <1>1, <1>2, <1>3, <1>4, <1>5, <1>6 DEF Goal, IInv

\* A new row is pending and nobody holds it.
LEMMA EnqueueKeeps ==
    ASSUME IInv, NEW k \in Keys, NEW p \in Payloads, Enqueue(k, p)
    PROVE  Goal
<1>1. PICK i \in Ids :
         /\ Fresh(i)
         /\ rows' = [rows EXCEPT ![i] =
               [status |-> "pending", key |-> k, payload |-> p, retries |-> 0,
                owner |-> NoWorker, ripe |-> TRUE, intact |-> TRUE]]
  BY DEF Enqueue, Insert
<1> DEFINE r == [status |-> "pending", key |-> k, payload |-> p, retries |-> 0,
                 owner |-> NoWorker, ripe |-> TRUE, intact |-> TRUE]
<1>2. r \in Row
  BY OutboxAssumption DEF Row, Present, Active
<1>3. rows' \in [Ids -> Row] /\ rows'[i] = r /\ \A j \in Ids \ {i} : rows'[j] = rows[j]
  BY <1>1, <1>2 DEF IInv, TypeOK
<1>4. rows[i].status = "free" /\ UNCHANGED <<phase, batch, commits, troubled, overruns, faults>>
  BY <1>1 DEF Fresh, Enqueue
<1>5. r.status = "pending" /\ r.owner = NoWorker /\ r.retries = 0 /\ 0 < MaxRetries
  BY OutboxAssumption
<1> QED
  BY <1>3, <1>4, <1>5, QuietRow DEF IInv, TypeOK

\* What requeueing makes of a row.
LEMMA RequeuedRow ==
    ASSUME NEW x \in Row
    PROVE  LET r == [x EXCEPT !.status = "pending", !.retries = 0, !.ripe = TRUE]
           IN  r \in Row /\ r.status = "pending" /\ r.retries = 0 /\ r.owner = x.owner
<1>1. 0 \in 0 .. MaxRetries /\ "pending" \in Present
  BY OutboxAssumption DEF Present, Active
<1> QED
  BY <1>1 DEF Row

\* A requeued row is pending again, with its retries forgotten.
LEMMA RequeueKeeps ==
    ASSUME IInv, NEW i \in Ids, RequeueDeadLetter(i)
    PROVE  Goal
<1>1. /\ rows[i].status = "dead" /\ rows[i] \in Row /\ rows[i].owner = NoWorker
      /\ rows' = [rows EXCEPT ![i].status = "pending", ![i].retries = 0, ![i].ripe = TRUE]
      /\ UNCHANGED <<phase, batch, commits, troubled, overruns, faults>>
  BY DEF RequeueDeadLetter, IInv, TypeOK, RowInv
<1> DEFINE r == [rows[i] EXCEPT !.status = "pending", !.retries = 0, !.ripe = TRUE]
<1>a. rows'[i] = r
  BY <1>1 DEF IInv, TypeOK
<1>b. r \in Row /\ r.status = "pending" /\ r.retries = 0 /\ r.owner = NoWorker
  BY <1>1, RequeuedRow
<1> HIDE DEF r
<1>2. /\ rows'[i].status = "pending" /\ rows'[i].retries = 0 /\ rows'[i].owner = NoWorker
      /\ rows'[i] \in Row /\ 0 < MaxRetries
  BY <1>a, <1>b, OutboxAssumption
<1>3. rows' \in [Ids -> Row] /\ \A j \in Ids \ {i} : rows'[j] = rows[j]
  BY <1>1, <1>2 DEF IInv, TypeOK
<1>4. /\ troubled' \in SUBSET Ids /\ troubled \subseteq troubled'
      /\ overruns' \in 0 .. MaxOverruns /\ faults' \in 0 .. MaxFaults
      /\ UNCHANGED <<phase, batch, commits>>
      /\ rows[i].status = "dead"
  BY <1>1 DEF IInv, TypeOK
<1> QED
  BY <1>2, <1>3, <1>4, QuietRow

\* A lease that runs out under its worker makes the row troubled.
LEMMA TimePassesKeeps ==
    ASSUME IInv, NEW i \in Ids, TimePasses(i)
    PROVE  Goal
<1>1. /\ rows' = [rows EXCEPT ![i].ripe = TRUE] /\ rows[i] \in Row
      /\ troubled' = (IF rows[i].status = "inflight" THEN troubled \cup {i} ELSE troubled)
      /\ UNCHANGED <<phase, batch, commits, faults>>
  BY DEF TimePasses, IInv, TypeOK
<1>2. /\ rows'[i].status = rows[i].status /\ rows'[i].retries = rows[i].retries
      /\ rows'[i].owner = rows[i].owner /\ rows'[i] \in Row
  BY <1>1 DEF IInv, TypeOK, Row
<1>3. rows' \in [Ids -> Row] /\ \A j \in Ids \ {i} : rows'[j] = rows[j]
  BY <1>1, <1>2 DEF IInv, TypeOK
<1>4. overruns' \in 0 .. MaxOverruns /\ faults' \in 0 .. MaxFaults
  BY <1>1, OutboxAssumption DEF TimePasses, IInv, TypeOK
<1>5. /\ rows'[i].status # "inflight" => rows'[i].owner = NoWorker
      /\ rows'[i].status \in Active => rows'[i].retries < MaxRetries
      /\ troubled' \in SUBSET Ids /\ troubled \subseteq troubled'
      /\ rows[i].status = "inflight" => i \in troubled'
  BY <1>1, <1>2 DEF IInv, RowInv, TypeOK
<1> QED
  BY <1>1, <1>2, <1>3, <1>4, <1>5, QuietRow

\* A payload is damaged only while nobody holds its row.
LEMMA CorruptKeeps ==
    ASSUME IInv, NEW i \in Ids, Corrupt(i)
    PROVE  Goal
<1>1. /\ rows' = [rows EXCEPT ![i].intact = FALSE] /\ rows[i] \in Row
      /\ rows[i].status \in {"pending", "retry"}
      /\ UNCHANGED <<phase, batch, commits, troubled, overruns>>
  BY DEF Corrupt, IInv, TypeOK
<1>2. /\ rows'[i].status = rows[i].status /\ rows'[i].retries = rows[i].retries
      /\ rows'[i].owner = rows[i].owner /\ rows'[i] \in Row
  BY <1>1 DEF IInv, TypeOK, Row
<1>3. rows' \in [Ids -> Row] /\ \A j \in Ids \ {i} : rows'[j] = rows[j]
  BY <1>1, <1>2 DEF IInv, TypeOK
<1>4. faults' \in 0 .. MaxFaults
  BY OutboxAssumption DEF Corrupt, IInv, TypeOK
<1>5. /\ rows'[i].status # "inflight" => rows'[i].owner = NoWorker
      /\ rows'[i].status \in Active => rows'[i].retries < MaxRetries
  BY <1>1, <1>2 DEF IInv, RowInv
<1> QED
  BY <1>1, <1>2, <1>3, <1>4, <1>5, QuietRow DEF IInv, TypeOK

\* A record without trouble is in at most one batch, and one that upstream has
\* taken in is in none but that of the worker about to mark it.
LEMMA OneHolder ==
    ASSUME IInv, NEW w \in Workers, NEW i \in batch[w], i \notin troubled
    PROVE  /\ i \in Ids
           /\ \A v \in Workers : i \in batch[v] => v = w
           /\ ~Marks(w, i) => commits[i] = 0
<1>1. i \in Ids
  BY DEF IInv, TypeOK
<1>2. rows[i].status = "inflight" /\ rows[i].owner = w
  BY DEF IInv, LeaseInv
<1>3. \A v \in Workers : i \in batch[v] => v = w
  BY <1>2 DEF IInv, LeaseInv
<1>4. ASSUME ~Marks(w, i), commits[i] # 0 PROVE FALSE
  <2>1. commits[i] > 0
    BY <1>1, <1>4 DEF IInv, TypeOK
  <2>2. \E v \in Workers : Marks(v, i)
    BY <1>1, <1>2, <2>1 DEF IInv, MarkedInv
  <2> QED
    BY <1>3, <1>4, <2>2 DEF Marks
<1> QED
  BY <1>1, <1>3, <1>4

\* A claimed row is held by its claimer.
LEMMA ClaimKeeps ==
    ASSUME IInv, NEW w \in Workers, Claim(w)
    PROVE  Goal
<1> DEFINE good == {i \in Candidates : rows[i].intact}
<1>1. /\ phase[w] = "idle" /\ batch' = [batch EXCEPT ![w] = good]
      /\ phase' = [phase EXCEPT ![w] =
            IF good = {} THEN "idle" ELSE IF Cardinality(good) > 1 THEN "batch" ELSE "commit"]
      /\ UNCHANGED <<commits, troubled, overruns, faults>>
  BY DEF Claim
<1>2. rows' = [i \in Ids |-> ClaimedRow(w, i)] /\ \A i \in Ids : rows'[i] = ClaimedRow(w, i)
  BY DEF Claim
<1>3. \A i \in Candidates : i \in Ids /\ rows[i].ripe /\ rows[i].status \in Active
                               /\ rows[i].retries < MaxRetries
  BY DEF Candidates, Claimable, IInv, RowInv, Active
<1>4. good \subseteq Candidates /\ \A i \in Candidates : i \in good <=> rows[i].intact
  OBVIOUS
<1> HIDE DEF good
<1>5. ASSUME NEW i \in good
      PROVE  rows'[i] \in Row /\ rows'[i].status = "inflight" /\ rows'[i].owner = w
             /\ ~rows'[i].ripe /\ rows'[i].retries = rows[i].retries
  <2> DEFINE q == [rows[i] EXCEPT !.status = "inflight", !.owner = w, !.ripe = FALSE]
  <2>1. rows'[i] = q
    BY <1>2, <1>3, <1>4 DEF ClaimedRow
  <2>2. rows[i] \in Row /\ "inflight" \in Present
    BY <1>3, <1>4 DEF IInv, TypeOK, Present, Active
  <2>3. q \in Row /\ q.status = "inflight" /\ q.owner = w /\ ~q.ripe /\ q.retries = rows[i].retries
    BY <2>2 DEF Row
  <2> QED
    BY <2>1, <2>3
<1>6. ASSUME NEW i \in Candidates \ good
      PROVE  rows'[i] \in Row /\ rows'[i].status = "dead" /\ rows'[i].owner = NoWorker
  <2> DEFINE q == [rows[i] EXCEPT !.status = "dead", !.owner = NoWorker, !.ripe = FALSE]
  <2>1. rows'[i] = q
    BY <1>2, <1>3, <1>4 DEF ClaimedRow
  <2>2. rows[i] \in Row
    BY <1>3 DEF IInv, TypeOK
  <2>3. q \in Row /\ q.status = "dead" /\ q.owner = NoWorker
    BY <2>2 DEF Row
  <2> QED
    BY <2>1, <2>3
<1>7. ASSUME NEW i \in Ids \ Candidates
      PROVE  \/ rows'[i] = rows[i]
             \/ /\ rows[i].status = "delivered"
                /\ rows'[i] \in Row /\ rows'[i].status = "purged" /\ rows'[i].owner = NoWorker
  <2>1. rows'[i] = IF Purgeable(i) THEN NoRow("purged") ELSE rows[i]
    BY <1>2 DEF ClaimedRow
  <2>2. /\ NoRow("purged") \in Row /\ NoRow("purged").status = "purged"
        /\ NoRow("purged").owner = NoWorker
    BY OutboxAssumption DEF NoRow, Row
  <2> QED
    BY <2>1, <2>2 DEF Purgeable
<1>8. rows' \in [Ids -> Row]
  <2>1. \A i \in Ids : rows'[i] \in Row
    BY <1>5, <1>6, <1>7 DEF IInv, TypeOK
  <2>2. rows' = [i \in Ids |-> rows'[i]]
    BY <1>2
  <2> QED
    BY <2>1, <2>2
<1>9. /\ phase' \in [Workers -> Phases] /\ batch' \in [Workers -> SUBSET Ids]
      /\ phase'[w] \in {"idle", "batch", "commit"} /\ batch'[w] = good
      /\ phase'[w] \in Busy => good # {}
      /\ \A v \in Workers \ {w} : phase'[v] = phase[v] /\ batch'[v] = batch[v]
  <2>1. /\ good \subseteq Ids
        /\ phase' = [phase EXCEPT ![w] = phase'[w]] /\ phase'[w] \in {"idle", "batch", "commit"}
        /\ phase'[w] \in Busy => good # {}
    BY <1>1, <1>3, <1>4 DEF IInv, TypeOK, Busy
  <2> QED
    BY <1>1, <2>1 DEF IInv, TypeOK, Phases
<1>10. ASSUME NEW i \in Candidates, i \notin troubled
       PROVE  commits[i] = 0 /\ \A v \in Workers : i \notin batch[v]
  <2>1. i \in Ids /\ rows[i].status \in {"pending", "retry"}
    BY <1>3, <1>10 DEF IInv, RowInv, Active
  <2>2. \A v \in Workers : i \notin batch[v]
    BY <1>10, <2>1 DEF IInv, LeaseInv
  <2> QED
    BY <1>10, <2>1, <2>2 DEF IInv, MarkedInv, Marks, TypeOK
<1>11. TypeOK'
  BY <1>1, <1>8, <1>9 DEF IInv, TypeOK
<1>12. RowInv'
  BY <1>1, <1>3, <1>4, <1>5, <1>6, <1>7 DEF IInv, RowInv, Active
<1>13. LeaseInv'
  <2>1. ASSUME NEW v \in Workers \ {w}, NEW i \in batch[v], i \notin troubled
        PROVE  i \in Ids /\ rows'[i] = rows[i]
    BY <1>7, <1>10, <2>1 DEF IInv, TypeOK, LeaseInv
  <2> QED
    BY <1>1, <1>5, <1>9, <2>1 DEF IInv, LeaseInv
<1>14. TakenInv'
  BY <1>1, <1>9 DEF IInv, TakenInv, Marks
<1>15. MarkedInv'
  <2> SUFFICES ASSUME NEW i \in Ids, commits[i] > 0, i \notin troubled
               PROVE  \/ rows'[i].status \in {"delivered", "purged"}
                      \/ \E v \in Workers : Marks(v, i)'
    BY <1>1 DEF MarkedInv
  <2>1. i \notin Candidates
    BY <1>10 DEF IInv, TypeOK
  <2>2. \/ rows[i].status \in {"delivered", "purged"}
        \/ \E v \in Workers \ {w} : Marks(v, i)
    BY <1>1 DEF IInv, MarkedInv, Marks
  <2> QED
    BY <1>7, <1>9, <2>1, <2>2 DEF Marks
<1>16. DeliveredWasTaken' /\ TwiceOnlyAfterTrouble'
  <2>1. \A i \in Ids : rows'[i].status \in {"delivered", "purged"} =>
           rows[i].status \in {"delivered", "purged"}
    BY <1>4, <1>5, <1>6, <1>7
  <2> QED
    BY <1>1, <2>1 DEF IInv, DeliveredWasTaken, TwiceOnlyAfterTrouble
<1>17. \A i \in Ids : rows[i].status = "delivered" => rows'[i].status \in {"delivered", "purged"}
  BY <1>3, <1>7 DEF Active
<1> QED
  BY <1>11, <1>12, <1>13, <1>14, <1>15, <1>16, <1>17 DEF Goal, IInv

\* Upstream takes the records of s in: what is in s met trouble, or was not
\* taken in before.
LEMMA TakenCounts ==
    ASSUME IInv, NEW w \in Workers, NEW s \in SUBSET batch[w], commits' = Taken(s),
           \A i \in s : ~Marks(w, i)
    PROVE  /\ commits' \in [Ids -> 0 .. 2]
           /\ \A i \in Ids : commits'[i] >= commits[i]
           /\ \A i \in s : i \in Ids /\ commits'[i] > 0
           /\ \A i \in Ids \ s : commits'[i] = commits[i]
           /\ \A i \in Ids : commits'[i] > 1 => i \in troubled
<1>1. \A i \in Ids : commits[i] \in 0 .. 2
  BY DEF IInv, TypeOK
<1>2. \A i \in Ids : commits'[i] = IF i \in s /\ commits[i] < 2 THEN commits[i] + 1 ELSE commits[i]
  BY DEF Taken
<1>3. commits' \in [Ids -> 0 .. 2]
  BY <1>1 DEF Taken
<1>4. \A i \in s : i \in Ids
  BY DEF IInv, TypeOK
<1>5. ASSUME NEW i \in Ids, commits'[i] > 1, i \notin troubled PROVE FALSE
  <2>1. commits[i] <= 1
    BY <1>1, <1>5 DEF IInv, TwiceOnlyAfterTrouble
  <2>2. i \in s /\ commits[i] # 0
    BY <1>1, <1>2, <1>5, <2>1
  <2> QED
    BY <1>5, <2>2, OneHolder
<1> QED
  BY <1>1, <1>2, <1>3, <1>4, <1>5

\* A step in which upstream takes records of w's batch in.
LEMMA TakingKeeps ==
    ASSUME IInv, NEW w \in Workers, NEW s \in SUBSET batch[w], commits' = Taken(s),
           \A i \in batch[w] : ~Marks(w, i),
           UNCHANGED <<rows, batch, overruns, faults>>,
           batch[w] # {},
           NEW next \in Phases, phase' = [phase EXCEPT ![w] = next],
           troubled' \in SUBSET Ids, troubled \subseteq troubled',
           \A i \in batch[w] : Marks(w, i)' => i \in s,
           \A i \in s : Marks(w, i)' \/ i \in troubled'
    PROVE  Goal
<1>1. /\ commits' \in [Ids -> 0 .. 2]
      /\ \A i \in Ids : commits'[i] >= commits[i]
      /\ \A i \in s : i \in Ids /\ commits'[i] > 0
      /\ \A i \in Ids \ s : commits'[i] = commits[i]
      /\ \A i \in Ids : commits'[i] > 1 => i \in troubled
  BY TakenCounts
<1>2. \A i \in Ids : commits[i] \in Nat /\ commits'[i] \in Nat
  BY <1>1 DEF IInv, TypeOK
<1>3. \A v \in Workers \ {w} : phase'[v] = phase[v]
  BY DEF IInv, TypeOK
<1>4. \A v \in Workers \ {w}, i \in Ids : Marks(v, i)' <=> Marks(v, i)
  BY <1>3 DEF Marks
<1>5. TypeOK'
  BY <1>1 DEF IInv, TypeOK
<1>6. RowInv'
  BY DEF IInv, RowInv
<1>7. LeaseInv'
  BY <1>3 DEF IInv, LeaseInv
<1>8. TakenInv'
  <2> SUFFICES ASSUME NEW v \in Workers, NEW i \in Ids, Marks(v, i)' PROVE commits'[i] > 0
    BY DEF TakenInv
  <2>1. CASE v = w
    BY <1>1, <2>1 DEF Marks
  <2>2. CASE v # w
    <3>1. commits[i] > 0
      BY <1>4, <2>2 DEF IInv, TakenInv
    <3> QED
      BY <1>1, <1>2, <3>1
  <2> QED
    BY <2>1, <2>2
<1>9. MarkedInv'
  <2> SUFFICES ASSUME NEW i \in Ids, commits'[i] > 0, i \notin troubled'
               PROVE  \/ rows'[i].status \in {"delivered", "purged"}
                      \/ \E v \in Workers : Marks(v, i)'
    BY DEF MarkedInv
  <2>1. CASE i \in s
    BY <2>1
  <2>2. CASE i \notin s
    <3>1. commits[i] > 0
      BY <1>1, <2>2
    <3>2. \/ rows[i].status \in {"delivered", "purged"}
          \/ \E v \in Workers : Marks(v, i)
      BY <3>1 DEF IInv, MarkedInv
    <3>3. ~Marks(w, i)
      BY DEF Marks
    <3> QED
      BY <1>4, <3>2, <3>3
  <2> QED
    BY <2>1, <2>2
<1>10. DeliveredWasTaken'
  BY <1>1, <1>2 DEF IInv, DeliveredWasTaken
<1>11. TwiceOnlyAfterTrouble'
  BY <1>1 DEF TwiceOnlyAfterTrouble
<1> QED
  BY <1>5, <1>6, <1>7, <1>8, <1>9, <1>10, <1>11 DEF Goal, IInv

\* A batch that is not taken as a whole makes the rows it took troubled.
LEMMA BatchCommitKeeps ==
    ASSUME IInv, NEW w \in Workers, NEW s \in SUBSET batch[w], BatchCommit(w, s)
    PROVE  Goal
<1>1. /\ phase[w] = "batch" /\ commits' = Taken(s)
      /\ UNCHANGED <<rows, batch, overruns, faults>>
  BY DEF BatchCommit
<1>2. batch[w] # {} /\ \A i \in batch[w] : ~Marks(w, i) /\ i \in Ids
  BY <1>1 DEF IInv, LeaseInv, Busy, Marks, TypeOK
<1>3. CASE s = batch[w] /\ phase' = [phase EXCEPT ![w] = "marking"] /\ UNCHANGED troubled
  <2>1. phase'[w] = "marking" /\ "marking" \in Phases /\ troubled' \in SUBSET Ids
    BY <1>3 DEF IInv, TypeOK, Phases
  <2>2. \A i \in s : Marks(w, i)'
    BY <1>1, <2>1 DEF Marks
  <2> QED
    BY <1>1, <1>2, <1>3, <2>1, <2>2, TakingKeeps
<1>4. CASE phase' = [phase EXCEPT ![w] = "commit"] /\ troubled' = troubled \cup s
  <2>1. phase'[w] = "commit" /\ "commit" \in Phases /\ troubled' \in SUBSET Ids
    BY <1>2, <1>4 DEF IInv, TypeOK, Phases
  <2>2. \A i \in batch[w] : ~Marks(w, i)'
    BY <2>1 DEF Marks
  <2> QED
    BY <1>1, <1>2, <1>4, <2>1, <2>2, TakingKeeps
<1> QED
  BY <1>3, <1>4 DEF BatchCommit

\* A record is written for a row the worker holds.
LEMMA CommitKeeps ==
    ASSUME IInv, NEW w \in Workers, NEW s \in SUBSET batch[w], Commit(w, s)
    PROVE  Goal
<1>1. /\ phase[w] = "commit" /\ commits' = Taken(s) /\ s \subseteq {Min(batch[w])}
      /\ UNCHANGED <<rows, batch, overruns, faults>>
  BY DEF Commit
<1>2. batch[w] # {} /\ \A i \in batch[w] : ~Marks(w, i) /\ i \in Ids
  BY <1>1 DEF IInv, LeaseInv, Busy, Marks, TypeOK
<1>3. CASE s # {} /\ phase' = [phase EXCEPT ![w] = "mark"] /\ UNCHANGED troubled
  <2>1. phase'[w] = "mark" /\ "mark" \in Phases /\ troubled' \in SUBSET Ids
    BY <1>3 DEF IInv, TypeOK, Phases
  <2>2. \A i \in s : Marks(w, i)'
    BY <1>1, <2>1 DEF Marks
  <2>3. \A i \in batch[w] : Marks(w, i)' => i \in s
    BY <1>1, <1>3, <2>1 DEF Marks
  <2> QED
    BY <1>1, <1>2, <1>3, <2>1, <2>2, <2>3, TakingKeeps
<1>4. CASE phase' = [phase EXCEPT ![w] = "fail"] /\ troubled' = troubled \cup s
  <2>1. phase'[w] = "fail" /\ "fail" \in Phases /\ troubled' \in SUBSET Ids
    BY <1>2, <1>4 DEF IInv, TypeOK, Phases
  <2>2. \A i \in batch[w] : ~Marks(w, i)'
    BY <2>1 DEF Marks
  <2> QED
    BY <1>1, <1>2, <1>4, <2>1, <2>2, TakingKeeps
<1> QED
  BY <1>3, <1>4 DEF Commit

\* A worker reports on the record at hand, and the report counts if the worker
\* still has the lease.
LEMMA SettleKeeps ==
    ASSUME IInv, NEW w \in Workers, NEW i \in batch[w], i = Min(batch[w]),
           phase[w] \in {"marking", "mark", "fail"},
           NEW next, next = (IF phase[w] = "marking" THEN "marking" ELSE "commit"),
           Settle(w, i, next), UNCHANGED <<commits, troubled, overruns, faults>>,
           rows' \in [Ids -> Row], \A j \in Ids \ {i} : rows'[j] = rows[j],
           rows[i].owner # w => rows'[i] = rows[i],
           rows[i].owner = w =>
              /\ rows'[i].status \in {"delivered", "retry", "dead"} /\ rows'[i].owner = NoWorker
              /\ rows'[i].status = "retry" => rows'[i].retries < MaxRetries
              /\ rows'[i].status = "delivered" <=> phase[w] # "fail"
    PROVE  Goal
<1>1. i \in Ids /\ (phase[w] # "fail" <=> Marks(w, i))
  BY DEF IInv, TypeOK, Marks
<1>2. /\ \A v \in Workers \ {w} : phase'[v] = phase[v] /\ batch'[v] = batch[v]
      /\ batch'[w] = batch[w] \ {i}
      /\ phase'[w] = IF batch[w] = {i} THEN "idle" ELSE next
  BY DEF Settle, IInv, TypeOK
<1>3. phase' \in [Workers -> Phases] /\ batch' \in [Workers -> SUBSET Ids]
  BY DEF Settle, IInv, TypeOK, Phases
<1>4. TypeOK'
  BY <1>3 DEF IInv, TypeOK
<1>5. RowInv'
  <2> SUFFICES ASSUME NEW j \in Ids
               PROVE  /\ rows'[j].status # "inflight" => rows'[j].owner = NoWorker
                      /\ rows'[j].status \in Active => rows'[j].retries < MaxRetries
                      /\ rows'[j].status = "inflight" /\ rows'[j].ripe => j \in troubled
    BY DEF RowInv
  <2>1. CASE rows'[j] = rows[j]
    BY <2>1 DEF IInv, RowInv
  <2>2. CASE rows'[j] # rows[j]
    BY <2>2 DEF Active
  <2> QED
    BY <2>1, <2>2
<1>6. LeaseInv'
  <2>1. ASSUME NEW v \in Workers, NEW j \in batch'[v], j \notin troubled
        PROVE  j \in batch[v] /\ j \in Ids /\ rows'[j] = rows[j]
    <3>1. j \in batch[v] /\ j \in Ids
      BY <1>2, <2>1 DEF IInv, TypeOK
    <3>2. rows[j].owner = v
      BY <2>1, <3>1 DEF IInv, LeaseInv
    <3>3. CASE v = w
      BY <1>2, <3>1, <3>3
    <3>4. CASE v # w
      BY <3>1, <3>2, <3>4
    <3> QED
      BY <3>1, <3>3, <3>4
  <2>2. ASSUME NEW v \in Workers, phase'[v] \in Busy PROVE batch'[v] # {}
    BY <1>2, <2>2 DEF IInv, LeaseInv, Busy
  <2> QED
    BY <2>1, <2>2 DEF IInv, LeaseInv
<1>7. \A v \in Workers, j \in Ids : Marks(v, j)' => Marks(v, j)
  BY <1>2 DEF Marks
<1>8. \A v \in Workers, j \in Ids \ {i} : Marks(v, j) => Marks(v, j)'
  BY <1>2 DEF Marks
<1>9. TakenInv'
  BY <1>7 DEF IInv, TakenInv
<1>10. MarkedInv'
  <2> SUFFICES ASSUME NEW j \in Ids, commits[j] > 0, j \notin troubled
               PROVE  \/ rows'[j].status \in {"delivered", "purged"}
                      \/ \E v \in Workers : Marks(v, j)'
    BY DEF MarkedInv
  <2>1. CASE j = i
    <3>1. rows[i].owner = w
      BY <2>1 DEF IInv, LeaseInv
    <3>2. Marks(w, i)
      BY <2>1, OneHolder
    <3> QED
      BY <1>1, <2>1, <3>1, <3>2
  <2>2. CASE j # i
    <3>1. \/ rows[j].status \in {"delivered", "purged"}
          \/ \E v \in Workers : Marks(v, j)
      BY DEF IInv, MarkedInv
    <3> QED
      BY <1>8, <2>2, <3>1
  <2> QED
    BY <2>1, <2>2
<1>11. DeliveredWasTaken'
  <2>1. ASSUME NEW j \in Ids, rows'[j].status \in {"delivered", "purged"}
        PROVE  rows[j].status \in {"delivered", "purged"} \/ Marks(w, j)
    BY <1>1, <2>1
  <2> QED
    BY <2>1 DEF IInv, DeliveredWasTaken, TakenInv
<1>12. TwiceOnlyAfterTrouble'
  BY DEF IInv, TwiceOnlyAfterTrouble
<1>13. \A j \in Ids : rows[j].status = "delivered" => rows'[j].status = "delivered"
  BY OutboxAssumption DEF IInv, RowInv
<1> QED
  BY <1>4, <1>5, <1>6, <1>9, <1>10, <1>11, <1>12, <1>13 DEF Goal, IInv

\* A row is marked delivered by the worker that wrote it.
LEMMA MarkDeliveredKeeps ==
    ASSUME IInv, NEW w \in Workers, MarkDelivered(w)
    PROVE  Goal
<1> DEFINE i == Min(batch[w])
<1> DEFINE next == IF phase[w] = "marking" THEN "marking" ELSE "commit"
<1>1. /\ phase[w] \in {"marking", "mark"} /\ rows' = Delivered(w, i) /\ Settle(w, i, next)
      /\ UNCHANGED <<commits, troubled, overruns, faults>>
  BY DEF MarkDelivered
<1>2. batch[w] \in SUBSET Ids /\ batch[w] # {}
  BY <1>1 DEF IInv, LeaseInv, TypeOK, Busy
<1>3. i \in batch[w] /\ i \in Ids
  BY <1>2, MinBelongs
<1> HIDE DEF i
<1>4. rows[i] \in Row /\ rows \in [Ids -> Row]
  BY <1>3 DEF IInv, TypeOK
<1> DEFINE q == [rows[i] EXCEPT !.status = "delivered", !.owner = NoWorker, !.ripe = FALSE]
<1>5. q \in Row /\ q.status = "delivered" /\ q.owner = NoWorker
  BY <1>4 DEF Row, Present
<1>6. rows' = IF rows[i].owner = w THEN [rows EXCEPT ![i] = q] ELSE rows
  BY <1>1, <1>3, <1>4 DEF Delivered, Owns
<1> HIDE DEF q
<1>7. /\ rows' \in [Ids -> Row] /\ \A j \in Ids \ {i} : rows'[j] = rows[j]
      /\ rows[i].owner # w => rows'[i] = rows[i]
      /\ rows[i].owner = w => rows'[i] = q
  BY <1>3, <1>4, <1>5, <1>6
<1>8. rows[i].owner = w => /\ rows'[i].status = "delivered" /\ rows'[i].owner = NoWorker
  BY <1>5, <1>7
<1>9. i = Min(batch[w])
  BY DEF i
<1> QED
  BY <1>1, <1>3, <1>7, <1>8, <1>9, SettleKeeps

\* A failed row goes back to pending, or to dead after its last retry.
LEMMA MarkFailedKeeps ==
    ASSUME IInv, NEW w \in Workers, MarkFailed(w)
    PROVE  Goal
<1> DEFINE i == Min(batch[w])
<1>1. /\ phase[w] = "fail" /\ rows' = Failed(w, i) /\ Settle(w, i, "commit")
      /\ UNCHANGED <<commits, troubled, overruns, faults>>
  BY DEF MarkFailed
<1>2. batch[w] \in SUBSET Ids /\ batch[w] # {}
  BY <1>1 DEF IInv, LeaseInv, TypeOK, Busy
<1>3. i \in batch[w] /\ i \in Ids
  BY <1>2, MinBelongs
<1> HIDE DEF i
<1>4. rows[i] \in Row /\ rows \in [Ids -> Row]
  BY <1>3 DEF IInv, TypeOK
<1> DEFINE st == IF rows[i].retries + 1 >= MaxRetries THEN "dead" ELSE "retry"
           n == rows[i].retries + 1
           f == [rows[i] EXCEPT !.retries = n, !.owner = NoWorker, !.ripe = FALSE, !.status = st]
<1>5. ASSUME rows[i].owner = w
      PROVE  n \in 0 .. MaxRetries /\ (st = "retry" => n < MaxRetries) /\ st \in {"retry", "dead"}
  <2>1. rows[i].status = "inflight"
    BY <1>3, <1>5, OutboxAssumption DEF IInv, RowInv
  <2>2. rows[i].retries < MaxRetries /\ rows[i].retries \in 0 .. MaxRetries
    BY <1>3, <1>4, <2>1 DEF IInv, RowInv, Active, Row
  <2> QED
    BY <2>2, OutboxAssumption
<1>6. rows' = IF rows[i].owner = w THEN [rows EXCEPT ![i] = f] ELSE rows
  BY <1>1, <1>3, <1>4 DEF Failed, Owns
<1> HIDE DEF n, st
<1>7. ASSUME rows[i].owner = w
      PROVE  f \in Row /\ f.status = st /\ f.owner = NoWorker /\ f.retries = n
  <2>1. st \in Present \cup {"free", "dead", "purged"} /\ n \in 0 .. MaxRetries
    BY <1>5, <1>7 DEF Present, Active
  <2> QED
    BY <1>4, <2>1 DEF Row
<1> HIDE DEF f
<1>8. /\ rows' \in [Ids -> Row] /\ \A j \in Ids \ {i} : rows'[j] = rows[j]
      /\ rows[i].owner # w => rows'[i] = rows[i]
      /\ rows[i].owner = w => rows'[i] = f
  BY <1>3, <1>4, <1>6, <1>7
<1>9. rows[i].owner = w =>
         /\ rows'[i].status \in {"retry", "dead"} /\ rows'[i].owner = NoWorker
         /\ rows'[i].status = "retry" => rows'[i].retries < MaxRetries
  BY <1>5, <1>7, <1>8
<1>10. i = Min(batch[w])
  BY DEF i
<1> QED
  BY <1>1, <1>3, <1>8, <1>9, <1>10, SettleKeeps

\* A worker gives up what it was about to mark: a store call raised, or the
\* worker is gone.  Its lease, or what it held, is trouble from here on.
LEMMA TroubleKeeps ==
    ASSUME IInv, NEW w \in Workers, NEW next \in Phases, NEW b \in SUBSET batch[w],
           phase' = [phase EXCEPT ![w] = next], batch' = [batch EXCEPT ![w] = b],
           next \in Busy => b # {}, next \notin {"mark", "marking"},
           troubled' \in SUBSET Ids, troubled \subseteq troubled',
           \A i \in batch[w] : Marks(w, i) => i \in troubled',
           faults' \in 0 .. MaxFaults, UNCHANGED <<rows, commits, overruns>>
    PROVE  Goal
<1>1. /\ \A v \in Workers \ {w} : phase'[v] = phase[v] /\ batch'[v] = batch[v]
      /\ batch'[w] = b /\ phase'[w] = next
      /\ phase' \in [Workers -> Phases] /\ batch' \in [Workers -> SUBSET Ids]
  BY DEF IInv, TypeOK
<1>2. TypeOK'
  BY <1>1 DEF IInv, TypeOK
<1>3. RowInv'
  BY DEF IInv, RowInv
<1>4. LeaseInv'
  BY <1>1 DEF IInv, LeaseInv
<1>5. TakenInv'
  BY <1>1 DEF IInv, TakenInv, Marks
<1>6. MarkedInv'
  <2> SUFFICES ASSUME NEW i \in Ids, commits[i] > 0, i \notin troubled'
               PROVE  \/ rows'[i].status \in {"delivered", "purged"}
                      \/ \E v \in Workers : Marks(v, i)'
    BY DEF MarkedInv
  <2>1. \/ rows[i].status \in {"delivered", "purged"}
        \/ \E v \in Workers : Marks(v, i)
    BY DEF IInv, MarkedInv
  <2>2. ~Marks(w, i)
    BY DEF Marks
  <2> QED
    BY <1>1, <2>1, <2>2 DEF Marks
<1>7. DeliveredWasTaken' /\ TwiceOnlyAfterTrouble'
  BY DEF IInv, DeliveredWasTaken, TwiceOnlyAfterTrouble
<1> QED
  BY <1>2, <1>3, <1>4, <1>5, <1>6, <1>7 DEF Goal, IInv

\* A store that fails makes the rows of the batch troubled.
LEMMA StoreFailsKeeps ==
    ASSUME IInv, NEW w \in Workers, StoreFails(w)
    PROVE  Goal
<1>1. faults' \in 0 .. MaxFaults /\ UNCHANGED <<rows, commits, overruns>>
  BY OutboxAssumption DEF StoreFails, IInv, TypeOK
<1>2. batch[w] \in SUBSET Ids /\ batch \in [Workers -> SUBSET Ids] /\ troubled \in SUBSET Ids
  BY DEF IInv, TypeOK
<1>3. CASE /\ phase[w] = "mark" /\ phase' = [phase EXCEPT ![w] = "fail"]
           /\ troubled' = troubled \cup {Min(batch[w])} /\ UNCHANGED batch
  <2>1. batch[w] # {}
    BY <1>3 DEF IInv, LeaseInv, Busy
  <2>2. Min(batch[w]) \in batch[w]
    BY <1>2, <2>1, MinBelongs
  <2>3. batch' = [batch EXCEPT ![w] = batch[w]] /\ "fail" \in Phases
    BY <1>2, <1>3 DEF Phases
  <2>4. troubled' \in SUBSET Ids /\ \A i \in batch[w] : Marks(w, i) => i \in troubled'
    BY <1>2, <1>3, <2>2 DEF Marks
  <2> QED
    BY <1>1, <1>3, <2>1, <2>3, <2>4, TroubleKeeps
<1>4. CASE /\ phase[w] \in {"marking", "fail"} /\ phase' = [phase EXCEPT ![w] = "idle"]
           /\ troubled' = troubled \cup batch[w] /\ batch' = [batch EXCEPT ![w] = {}]
  <2>1. "idle" \in Phases /\ "idle" \notin Busy /\ troubled' \in SUBSET Ids
    BY <1>2, <1>4 DEF Phases, Busy
  <2> QED
    BY <1>1, <1>4, <2>1, TroubleKeeps
<1> QED
  BY <1>3, <1>4 DEF StoreFails

\* The rows a worker leaves behind are troubled.
LEMMA LeaveKeeps ==
    ASSUME IInv, NEW w \in Workers, Leave(w)
    PROVE  Goal
<1>1. /\ faults' \in 0 .. MaxFaults /\ UNCHANGED <<rows, commits, overruns>>
      /\ troubled' = troubled \cup batch[w] /\ batch' = [batch EXCEPT ![w] = {}]
  BY OutboxAssumption DEF Leave, IInv, TypeOK
<1>2. PICK next \in {"stopped", "crashed"} : phase' = [phase EXCEPT ![w] = next]
  BY DEF Leave
<1>3. next \in Phases /\ next \notin Busy /\ troubled' \in SUBSET Ids
  BY <1>1, <1>2 DEF Phases, Busy, IInv, TypeOK
<1> QED
  BY <1>1, <1>2, <1>3, TroubleKeeps

-----------------------------------------------------------------------------
(* The theorems *)

\* The invariant holds of the empty outbox.
LEMMA InitHolds == Init => IInv
<1> SUFFICES ASSUME Init PROVE IInv
  OBVIOUS
<1>1. NoRow("free") \in Row /\ NoRow("free").status = "free" /\ NoRow("free").owner = NoWorker
  BY OutboxAssumption DEF NoRow, Row
<1>2. /\ rows \in [Ids -> Row]
      /\ \A i \in Ids : rows[i].status = "free" /\ rows[i].owner = NoWorker
  BY <1>1 DEF Init
<1>3. TypeOK
  BY <1>2, OutboxAssumption DEF Init, TypeOK, Phases
<1>4. RowInv /\ LeaseInv /\ TakenInv
  BY <1>2 DEF Init, RowInv, LeaseInv, TakenInv, Marks, Active, Busy
<1>5. MarkedInv /\ DeliveredWasTaken /\ TwiceOnlyAfterTrouble
  BY <1>2 DEF Init, MarkedInv, DeliveredWasTaken, TwiceOnlyAfterTrouble
<1> QED
  BY <1>3, <1>4, <1>5 DEF IInv

\* Every step of the outbox keeps the invariant.
LEMMA StepKeeps == IInv /\ [Next]_vars => Goal
<1> SUFFICES ASSUME IInv, [Next]_vars PROVE Goal
  OBVIOUS
<1>1. ASSUME NEW k \in Keys, NEW p \in Payloads, Enqueue(k, p) PROVE Goal
  BY <1>1, EnqueueKeeps
<1>2. ASSUME NEW w \in Workers, NEW s \in SUBSET batch[w], Upstream(w, s) PROVE Goal
  BY <1>2, BatchCommitKeeps, CommitKeeps DEF Upstream
<1>3. ASSUME NEW w \in Workers, Local(w) \/ StoreFails(w) \/ Leave(w) PROVE Goal
  BY <1>3, ClaimKeeps, MarkDeliveredKeeps, MarkFailedKeeps, StoreFailsKeeps, LeaveKeeps DEF Local
<1>4. ASSUME NEW i \in Ids, RequeueDeadLetter(i) \/ TimePasses(i) \/ Corrupt(i) PROVE Goal
  BY <1>4, RequeueKeeps, TimePassesKeeps, CorruptKeeps
<1>5. CASE UNCHANGED vars
  BY <1>5 DEF vars, Goal, IInv, TypeOK, RowInv, LeaseInv, TakenInv, MarkedInv, Marks,
              DeliveredWasTaken, TwiceOnlyAfterTrouble
<1> QED
  BY <1>1, <1>2, <1>3, <1>4, <1>5 DEF Next, Background

\* The invariant is inductive.
LEMMA Invariance == Spec => []IInv
<1>1. IInv /\ [Next]_vars => IInv'
  BY StepKeeps DEF Goal
<1> QED
  BY <1>1, InitHolds, PTL DEF Spec

\* Every variable keeps its type; a row's retries stay within max_retries.
THEOREM TypeCorrect == Spec => []TypeOK
<1>1. IInv => TypeOK
  BY DEF IInv
<1> QED
  BY <1>1, Invariance, PTL

\* No record is marked delivered, or deleted, that upstream did not take in,
\* however many workers drain the outbox and whatever fails.
THEOREM NothingIsLost == Spec => []DeliveredWasTaken
<1>1. IInv => DeliveredWasTaken
  BY DEF IInv
<1> QED
  BY <1>1, Invariance, PTL

\* Upstream is given a record again only after a lease ran out, a worker went
\* away or a call raised: concurrent claims never hand it out twice.
THEOREM NoIdleDuplicates == Spec => []TwiceOnlyAfterTrouble
<1>1. IInv => TwiceOnlyAfterTrouble
  BY DEF IInv
<1> QED
  BY <1>1, Invariance, PTL

\* A delivered record is never sent back to a retry or to the dead letters by
\* the late report of a worker that lost its lease.
THEOREM DeliveriesStand == Spec => DeliveredStands
<1>1. IInv /\ [Next]_vars =>
         [\A i \in Ids : rows[i].status = "delivered" =>
             rows'[i].status \in {"delivered", "purged"}]_rows
  BY StepKeeps DEF Goal
<1> QED
  BY <1>1, Invariance, PTL DEF Spec, DeliveredStands

=============================================================================
