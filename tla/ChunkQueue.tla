------------------------------ MODULE ChunkQueue ------------------------------
(***************************************************************************)
(* The Redis chunk queue of one batch job (orca_server/chunk_manager.py).  *)
(*                                                                         *)
(* A variable per kind of key: the pending list, the inflight, completed   *)
(* and failed sets, and the fields of the per-chunk hashes that decide     *)
(* anything (status, replica_id, lease_until, retry_count).  Every action  *)
(* is one ChunkManager call.  The control plane makes the calls from one   *)
(* event loop and none of them awaits, so two calls never interleave; the  *)
(* three commands of pull_chunk can be cut short by a crash or by a Redis  *)
(* error (PullInterrupted).                                                *)
(*                                                                         *)
(* Time is abstracted to what the scripts compare it for: a lease is       *)
(* "none" (lease_until = 0), "live" or "expired".                          *)
(*                                                                         *)
(* The callers are as general as a network allows: a replica that was ever *)
(* given a chunk may report it or renew it at any later moment and any     *)
(* number of times, which covers lost answers, retried and delayed         *)
(* requests, and replicas that were declared dead while they still run.    *)
(***************************************************************************)
EXTENDS Naturals, FiniteSets, SequencesExt

CONSTANTS Chunks,        \* the chunk ids of the job
          Replicas,      \* the replica ids that may pull
          NoReplica,     \* the empty replica_id of a chunk never pulled
          MaxRetries,    \* CHUNK_MAX_RETRIES
          MaxInterrupts  \* bound: how many pulls are cut short

ASSUME ChunkQueueAssumption ==
    /\ IsFiniteSet(Chunks) /\ Chunks # {}
    /\ NoReplica \notin Replicas
    /\ MaxRetries \in Nat \ {0}
    /\ MaxInterrupts \in Nat

VARIABLES pending,      \* chunk:job:{id}:pending, a list popped at its head
          inflight,     \* chunk:job:{id}:inflight
          completed,    \* chunk:job:{id}:completed
          failed,       \* chunk:job:{id}:failed
          status,       \* field status of each chunk hash
          replica_id,   \* field replica_id of each chunk hash
          lease_until,  \* field lease_until of each chunk hash, abstracted
          retry_count,  \* field retry_count of each chunk hash
          meta,         \* the job's metadata hash exists
          pulled,       \* who was ever given which chunk
          interrupts    \* pulls cut short so far

hashes == <<status, replica_id, lease_until, retry_count>>
vars == <<pending, inflight, completed, failed, status, replica_id,
          lease_until, retry_count, meta, pulled, interrupts>>

Statuses == {"pending", "inflight", "completed", "failed", "absent"}
Leases == {"none", "live", "expired"}

-----------------------------------------------------------------------------
(* What the operations read.                                               *)

\* get_progress()["all_done"]: the sizes of two sets are added up.
AllDone == /\ meta
           /\ Cardinality(completed) + Cardinality(failed) >= Cardinality(Chunks)

\* What _RECLAIM_LUA selects: inflight members with 0 < lease_until < now.
Expired == {c \in inflight : lease_until[c] = "expired"}

\* Fault: the owner field, which a reclaim leaves in the hash, is trusted.
OwnedByHash(R) == {c \in Chunks : replica_id[c] \in R}

\* What _FORCE_RECLAIM_LUA selects: inflight members of the given replicas.
OwnedBy(R) == {c \in inflight : replica_id[c] \in R}

\* The selected chunks that have no retry left.
Exhausted(S) == {c \in S : retry_count[c] + 1 >= MaxRetries}

\* Fault: exhausted chunks are not added to the failed set.
FailedAfterForgotten(S) == failed
\* Fault: the retry count does not accumulate.
RetriesAfterUncounted(S) == retry_count

\* The failed set and the hashes after either script has processed the selected
\* chunks.
FailedAfter(S) == failed \cup Exhausted(S)
StatusAfter(S) == [c \in Chunks |-> IF c \in Exhausted(S) THEN "failed"
                                    ELSE IF c \in S THEN "pending" ELSE status[c]]
LeaseAfter(S) == [c \in Chunks |-> IF c \in S \ Exhausted(S) THEN "none"
                                   ELSE lease_until[c]]
RetriesAfter(S) == [c \in Chunks |-> IF c \in S THEN retry_count[c] + 1
                                     ELSE retry_count[c]]

-----------------------------------------------------------------------------
(* The state create_job_queue leaves behind.                               *)

Init == /\ pending \in SetToSeqs(Chunks)
        /\ inflight = {} /\ completed = {} /\ failed = {}
        /\ status = [c \in Chunks |-> "pending"]
        /\ replica_id = [c \in Chunks |-> NoReplica]
        /\ lease_until = [c \in Chunks |-> "none"]
        /\ retry_count = [c \in Chunks |-> 0]
        /\ meta = TRUE
        /\ pulled = {}
        /\ interrupts = 0

(* Both reclaim scripts, for the chunks S they select.  SMEMBERS has no     *)
(* order, so the chunks with retries left go back in any order.             *)
Reclaim(S) ==
    /\ \E back \in SetToSeqs(S \ Exhausted(S)) : pending' = pending \o back
    /\ inflight' = inflight \ S
    /\ failed' = FailedAfter(S)
    /\ status' = StatusAfter(S)
    /\ lease_until' = LeaseAfter(S)
    /\ retry_count' = RetriesAfter(S)
    /\ UNCHANGED <<completed, replica_id, meta, pulled, interrupts>>

\* reclaim_expired_chunks, as the reclaim loop calls it.
ReclaimExpiredChunks == Expired # {} /\ Reclaim(Expired)

\* force_reclaim, as the watchdog and the kill and swap endpoints call it: for
\* any replicas, dead or alive.
ForceReclaim(R) == OwnedBy(R) # {} /\ Reclaim(OwnedBy(R))

-----------------------------------------------------------------------------
(* pull_chunk is LPOP, then SADD to inflight, then HSET, each its own       *)
(* command; before the LPOP succeeds on an empty list, expired leases are   *)
(* reclaimed.  `last` is the last command that took effect.                 *)

\* Fault: an empty queue makes a pull take back every inflight chunk.
PassiveReclaimAll == IF pending = <<>> THEN inflight ELSE {}

\* Only an empty queue makes pull_chunk reclaim, and only expired leases.
PassiveReclaim == IF pending = <<>> THEN Expired ELSE {}

\* The head of the queue is handed to r; S was reclaimed on the way.
Hand(r, last, S, queue) ==
    LET c == Head(queue)
    IN /\ queue # <<>>
       /\ pending' = Tail(queue)
       /\ failed' = FailedAfter(S)
       /\ retry_count' = RetriesAfter(S)
       /\ inflight' = (inflight \ S) \cup (IF last = "LPOP" THEN {} ELSE {c})
       /\ IF last = "HSET"
          THEN /\ status' = [StatusAfter(S) EXCEPT ![c] = "inflight"]
               /\ lease_until' = [LeaseAfter(S) EXCEPT ![c] = "live"]
               /\ replica_id' = [replica_id EXCEPT ![c] = r]
               /\ pulled' = pulled \cup {<<r, c>>}
          ELSE /\ status' = StatusAfter(S)
               /\ lease_until' = LeaseAfter(S)
               /\ UNCHANGED <<replica_id, pulled>>
       /\ UNCHANGED <<completed, meta>>

PullThrough(r, last) ==
    LET S == PassiveReclaim
    IN \E back \in SetToSeqs(S \ Exhausted(S)) : Hand(r, last, S, pending \o back)

\* A pull that finds the queue empty and whose reclaim only fails chunks: the
\* caller gets nothing.
PullNothing == /\ pending = <<>>
               /\ Expired # {} /\ Expired = Exhausted(Expired)
               /\ Reclaim(Expired)

\* pull_chunk run to its end.
PullChunk(r) == \/ PullThrough(r, "HSET") /\ UNCHANGED interrupts
                \/ PullNothing

\* pull_chunk cut short by a crash or a Redis error after LPOP or SADD.
PullInterrupted(r) == /\ interrupts < MaxInterrupts
                      /\ interrupts' = interrupts + 1
                      /\ \E last \in {"LPOP", "SADD"} : PullThrough(r, last)

-----------------------------------------------------------------------------
\* renew_lease: _RENEW_LUA trusts the hash alone.  An expired lease that was
\* not reclaimed yet is renewed like a live one.
RenewLease(r, c) ==
    /\ <<r, c>> \in pulled
    /\ status[c] = "inflight" /\ replica_id[c] = r
    /\ lease_until' = [lease_until EXCEPT ![c] = "live"]
    /\ UNCHANGED <<pending, inflight, completed, failed, status, replica_id,
                   retry_count, meta, pulled, interrupts>>

\* complete_chunk: anyone who was given the chunk may complete it; neither the
\* owner nor the pending list is looked at.  A chunk completed already is left
\* alone.  After cleanup_job the call recreates two of the keys.
CompleteChunk(r, c) ==
    /\ <<r, c>> \in pulled
    /\ c \notin completed
    /\ inflight' = inflight \ {c}
    /\ failed' = failed \ {c}
    /\ completed' = completed \cup {c}
    /\ status' = [status EXCEPT ![c] = "completed"]
    /\ UNCHANGED <<pending, replica_id, lease_until, retry_count, meta, pulled,
                   interrupts>>

\* What cleanup_job removes beside the pending list.  The chunk hashes are found
\* through output_order, so a second call leaves what late completions recreated.
DeleteSetsAndHashes ==
    /\ inflight' = {} /\ completed' = {} /\ failed' = {}
    /\ status' = IF meta THEN [c \in Chunks |-> "absent"] ELSE status
    /\ replica_id' = [c \in Chunks |-> NoReplica]
    /\ lease_until' = [c \in Chunks |-> "none"]
    /\ retry_count' = [c \in Chunks |-> 0]
    /\ meta' = FALSE
    /\ UNCHANGED <<pulled, interrupts>>

DeleteKeys == DeleteSetsAndHashes /\ pending' = <<>>

\* cleanup_job: _assemble_output calls it once it was told that all is done, and a
\* second assembly of the same job (its lock lives five minutes) may call it again.
CleanupJob == (AllDone \/ ~meta) /\ DeleteKeys

\* CHUNK_LEASE_TTL_SEC pass without a renewal.  Only the leases of inflight
\* chunks are ever read.
LeaseExpires(c) ==
    /\ c \in inflight /\ lease_until[c] = "live"
    /\ lease_until' = [lease_until EXCEPT ![c] = "expired"]
    /\ UNCHANGED <<pending, inflight, completed, failed, status, replica_id,
                   retry_count, meta, pulled, interrupts>>

Next == \/ \E r \in Replicas : PullChunk(r) \/ PullInterrupted(r)
        \/ \E r \in Replicas, c \in Chunks : RenewLease(r, c) \/ CompleteChunk(r, c)
        \/ \E R \in SUBSET Replicas : ForceReclaim(R)
        \/ \E c \in Chunks : LeaseExpires(c)
        \/ ReclaimExpiredChunks
        \/ CleanupJob

Spec == Init /\ [][Next]_vars
-----------------------------------------------------------------------------
(* Properties.                                                             *)

Queued == Range(pending)

\* The chunks that no key of the job accounts for.
Unaccounted == Chunks \ (Queued \cup inflight \cup completed \cup failed)

TypeOK ==
    /\ pending \in Seq(Chunks)
    /\ inflight \subseteq Chunks /\ completed \subseteq Chunks /\ failed \subseteq Chunks
    /\ status \in [Chunks -> Statuses]
    /\ replica_id \in [Chunks -> Replicas \cup {NoReplica}]
    /\ lease_until \in [Chunks -> Leases]
    /\ retry_count \in [Chunks -> 0..MaxRetries]
    /\ meta \in BOOLEAN
    /\ pulled \subseteq Replicas \X Chunks
    /\ interrupts \in 0..MaxInterrupts

\* A chunk waits in the pending list at most once, and it is never in two of
\* pending, inflight and failed: however reclaims (by lease, by replica, by an empty
\* pull), pulls and late completions interleave, no two replicas can be handed the
\* same chunk without one of them losing its lease first.
SingleCustody ==
    /\ IsInjective(pending)
    /\ Queued \cap inflight = {}
    /\ Queued \cap failed = {}
    /\ inflight \cap failed = {}

\* No chunk disappears from the job's keys, except one for each pull that was cut
\* short between LPOP and SADD.
NoChunkLost == meta => Cardinality(Unaccounted) <= interrupts

\* CHUNK_MAX_RETRIES is what it says: a chunk that can still be handed out or is
\* being worked on has retries left, and a chunk is failed exactly when the last
\* one was used, whichever of the three reclaim paths used it.
RetryBudget == /\ \A c \in Queued \cup inflight : retry_count[c] < MaxRetries
               /\ \A c \in failed : retry_count[c] = MaxRetries

\* The per-chunk hash and the sets, written by different commands, agree where one
\* is trusted for the other: _RENEW_LUA extends a lease on the hash's word alone,
\* so status "inflight" must mean a member of the inflight set; the reclaim scripts
\* find a chunk's lease and owner in the hash, so an inflight chunk must have both
\* (lease_until > 0), or nothing would ever take it back.
HashAgreesWithSets ==
    /\ \A c \in Chunks : status[c] = "inflight" => c \in inflight
    /\ \A c \in Chunks : status[c] = "failed" <=> c \in failed
    /\ interrupts = 0 => \A c \in inflight : /\ status[c] = "inflight"
                                           /\ replica_id[c] # NoReplica
                                           /\ lease_until[c] # "none"

\* After cleanup_job nothing can be pulled, reclaimed or failed any more, whatever
\* calls still arrive from replicas that do not know the job is over.
CleanedStaysIdle == ~meta => pending = <<>> /\ inflight = {} /\ failed = {}

\* Once get_progress has said all_done it keeps saying so until cleanup: a late
\* completion moves a chunk from failed to completed and must not lower the sum,
\* which handlers, the watchdog and the reclaim loop each test at another moment.
AllDoneStable == [][AllDone /\ meta' => AllDone']_vars

\* While a chunk stays inflight under a live lease, its owner does not change: an
\* empty queue does not make a pull steal work that is being renewed.
LiveLeaseKept ==
    [][\A c \in inflight \cap inflight' :
          lease_until[c] = "live" => replica_id'[c] = replica_id[c]]_vars

\* all_done means that every chunk is completed or failed.  complete_chunk's
\* docstring says it completes "without double-counting"; the counts can be wrong
\* all the same, because a chunk completed while it is pending can be pulled again
\* and exhaust its retries: it is then counted as completed and as failed.
AllDoneSound == AllDone => completed \cup failed = Chunks

\* The queue implements the pool of leased tasks: a completed chunk is done whatever
\* else still holds it.
TaskState(c) == IF ~meta THEN "gone"
                ELSE IF c \in completed THEN "done"
                ELSE IF c \in failed THEN "failed"
                ELSE IF c \in inflight THEN "leased"
                ELSE "ready"
TaskTries(c) == IF meta /\ c \notin completed THEN retry_count[c] ELSE 0

Pool == INSTANCE TaskPool WITH Tasks <- Chunks, MaxTries <- MaxRetries,
                               task <- [c \in Chunks |-> TaskState(c)],
                               tries <- [c \in Chunks |-> TaskTries(c)]

\* Every step of the queue is a step of the pool or none: a chunk fails only by its
\* MaxRetries-th lost lease, is completed only after it was leased, and completed is
\* final.
ImplementsTaskPool == Pool!PoolSpec
===============================================================================
