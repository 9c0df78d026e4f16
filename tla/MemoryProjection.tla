-------------------------- MODULE MemoryProjection --------------------------
(***************************************************************************)
(* The retrieval projection of memories: MemoryRepository                  *)
(* (memory/repository.py) writes a memory to the local store and hands a   *)
(* copy to MemoryRetrievalProjection (storage/seekdb_projection.py), which *)
(* enqueues it; the workers of Outbox carry it to the native index, where  *)
(* MemoryRetrievalProjectionCommitter upserts it.                          *)
(*                                                                         *)
(* A memory's content is the number of its last write.  A record of the    *)
(* outbox has the memory as its key, "memory:{memory_id}:projection", and  *)
(* the content as its payload.                                             *)
(***************************************************************************)
EXTENDS Outbox

VARIABLES
    source,     \* memory_items of the local store; 0: not stored
    index       \* memory_items of the native index

allVars == <<vars, source, index>>

Memories == Keys

MaxVersion == Max(Payloads)     \* bound: writes of one memory

Contents == 0..MaxVersion

ProjectionTypeOK ==
    /\ TypeOK
    /\ source \in [Memories -> Contents]
    /\ index \in [Memories -> Contents]

ProjectionInit ==
    /\ Init
    /\ source = [m \in Memories |-> 0]
    /\ index = [m \in Memories |-> 0]

\* project: a copy goes to the outbox, which stores it or turns it away.  The
\* caller, _project, logs an exception and goes on.
Project(m, content) ==
    /\ Insert(m, content) \/ Turned(m)
    /\ UNCHANGED <<phase, batch, commits, troubled, overruns, faults>>

\* store, merge_into, mark_status and update_fields: the local write first.
Write(m) ==
    /\ source[m] < MaxVersion
    /\ source' = [source EXCEPT ![m] = @ + 1]
    /\ Project(m, source'[m])
    /\ UNCHANGED index

\* save_to_seekdb and save_to_seekdb_batch: an upsert of each record.
Upsert(s) ==
    index' = [m \in Memories |->
        IF \E i \in s : rows[i].key = m
        THEN rows[CHOOSE i \in s : rows[i].key = m].payload
        ELSE index[m]]

ProjectionNext ==
    \/ \E m \in Memories : Write(m)
    \/ \E w \in Workers : \E s \in SUBSET batch[w] :
          Upstream(w, s) /\ Upsert(s) /\ UNCHANGED source
    \/ Background /\ UNCHANGED <<source, index>>

ProjectionSpec == ProjectionInit /\ [][ProjectionNext]_allVars

-----------------------------------------------------------------------------

Quiet ==
    /\ Unacknowledged = {}
    /\ \A i \in Ids : rows[i].status # "dead"
    /\ \A w \in Workers : batch[w] = {}

\* "when present, every successful local write is projected ... so the native
\* index stays current": once the outbox has nothing left to deliver and has
\* given nothing up, the index holds the last write of every memory.
IndexIsCurrent == Quiet => index = source

=============================================================================
