--------------------------------- MODULE Metrics ---------------------------------
(***************************************************************************)
(* Live metrics of one chunked job: the sidecar thread of a runner         *)
(* (templates/vllm_batch_runner_chunked.py), the ingest and phase handlers *)
(* and _do_kill (server.py), the watchdog's exclusion                      *)
(* (orca_server/watchdog.py), MetricsCollector                             *)
(* (orca_server/monitoring.py) and the timeseries table                    *)
(* (orca_server/metrics_db.py).                                            *)
(*                                                                         *)
(* A snapshot is its number: the n-th snapshot of a replica reports        *)
(* counters worth n, and 0 stands for "no snapshot".  Of a ring buffer     *)
(* only the newest entry matters.  A post that timed out may be handled    *)
(* later, after the post that repeats its snapshots, or never.  Handlers   *)
(* and watchdog run on one event loop and touch the collector without an   *)
(* await, so each is one step.                                             *)
(***************************************************************************)
EXTENDS Naturals, Folds, Functions

CONSTANTS Replica,
          MaxSamples,  \* bound: snapshots that one sidecar takes
          MaxFaults    \* bound: posts that time out, lost reports, refusals, restarts

ASSUME MetricsAssumption == MaxSamples \in Nat /\ MaxFaults \in Nat

VARIABLES sidecar,   \* of a replica: sampling, waiting for an answer, and ended
          sampled,   \* the snapshots it took: 1 .. sampled[r]
          cleared,   \* those up to this one have left its buffer
          complete,  \* the runner's replica_complete: unsent, on its way, over
          posts,     \* ingest requests that the server may still handle
          phase,     \* ClusterManager: the replica's phase
          newest,    \* the newest entry of the replica's ring buffer
          jobNewest, \* the newest entry of the job's ring buffer
          excluded,  \* _excluded_replicas
          saved,     \* _excluded_cumulative
          stored,    \* the snapshots in the timeseries table
          lost,      \* those of a batch that was answered with an error or not written
          faults

client == <<sidecar, sampled, cleared, complete>>
collector == <<phase, newest, jobNewest, excluded, saved>>
vars == <<client, posts, collector, stored, lost, faults>>

Fault == faults < MaxFaults /\ faults' = faults + 1

Post == [replica : Replica, from : 1 .. MaxSamples, to : 1 .. MaxSamples, awaited : BOOLEAN,
         try : 0 .. MaxFaults]

Batch(p) == p.from .. p.to

-----------------------------------------------------------------------------

Init == /\ sidecar = [r \in Replica |-> "sampling"]
        /\ sampled = [r \in Replica |-> 0] /\ cleared = [r \in Replica |-> 0]
        /\ complete = [r \in Replica |-> "unsent"]
        /\ posts = {}
        /\ phase = [r \in Replica |-> "launching"]
        /\ newest = [r \in Replica |-> 0] /\ jobNewest = 0
        /\ excluded = {} /\ saved = [r \in Replica |-> 0]
        /\ stored = [r \in Replica |-> {}] /\ lost = [r \in Replica |-> {}]
        /\ faults = 0

-----------------------------------------------------------------------------
(* The sidecar of a runner.                                                *)

Sample(r) ==
    /\ sidecar[r] = "sampling" /\ sampled[r] < MaxSamples
    /\ sampled' = [sampled EXCEPT ![r] = @ + 1]
    /\ UNCHANGED <<sidecar, cleared, complete, posts, collector, stored, lost, faults>>

\* One post of the whole buffer, in the loop or, once the sidecar was told to stop, as the
\* final push.
Push(r, waiting) ==
    /\ sidecar[r] = "sampling" /\ cleared[r] < sampled[r]
    /\ sidecar' = [sidecar EXCEPT ![r] = waiting]
    /\ posts' = posts \cup {[replica |-> r, from |-> cleared[r] + 1, to |-> sampled[r],
                             awaited |-> TRUE, try |-> faults]}
    /\ UNCHANGED <<sampled, cleared, complete, collector, stored, lost, faults>>

PushBatch(r) == Push(r, "waiting")

\* main() sets stop_sidecar after it has signalled replica_complete.
PushLast(r) == complete[r] # "unsent" /\ Push(r, "last")

\* The loop goes on, or the thread is over.
After(r) == IF sidecar[r] = "last" THEN "ended" ELSE "sampling"

\* An answer, whatever its status: the buffer is cleared.
Answer(r) == /\ sidecar' = [sidecar EXCEPT ![r] = After(r)]
             /\ cleared' = [cleared EXCEPT ![r] = sampled[r]]

\* Fault: the buffer is replaced before the post, so that no answer loses it.
NoAnswerClearing(r) ==
    /\ sidecar' = [sidecar EXCEPT ![r] = After(r)]
    /\ cleared' = [cleared EXCEPT ![r] = sampled[r]]

\* An exception of requests.post: the buffer is kept for the next turn.
NoAnswer(r) == /\ sidecar' = [sidecar EXCEPT ![r] = After(r)]
               /\ UNCHANGED cleared

\* Five seconds are over; the server may handle the request all the same.
Timeout(p) ==
    /\ p.awaited /\ Fault
    /\ NoAnswer(p.replica)
    /\ posts' = (posts \ {p}) \cup {[p EXCEPT !.awaited = FALSE]}
    /\ UNCHANGED <<sampled, complete, collector, stored, lost>>

\* An answer of 4xx or 5xx clears the buffer like any other.
Refused(p) ==
    /\ p.awaited /\ Fault
    /\ Answer(p.replica)
    /\ posts' = posts \ {p}
    /\ lost' = [lost EXCEPT ![p.replica] = @ \cup Batch(p)]
    /\ UNCHANGED <<sampled, complete, collector, stored>>

\* A request that nobody waits for is dropped with its connection.
Dropped(p) ==
    /\ ~ p.awaited
    /\ posts' = posts \ {p}
    /\ UNCHANGED <<client, collector, stored, lost, faults>>

\* The runner has no chunk left and signals replica_complete.
Finish(r) ==
    /\ complete[r] = "unsent" /\ sidecar[r] # "ended"
    /\ complete' = [complete EXCEPT ![r] = "sent"]
    /\ UNCHANGED <<sidecar, sampled, cleared, posts, collector, stored, lost, faults>>

\* The runner or its cluster is gone, with what its sidecar has in its buffer.
Die(r) ==
    /\ sidecar[r] # "ended"
    /\ sidecar' = [sidecar EXCEPT ![r] = "ended"]
    /\ posts' = {[p EXCEPT !.awaited = @ /\ p.replica # r] : p \in posts}
    /\ UNCHANGED <<sampled, cleared, complete, collector, stored, lost, faults>>

-----------------------------------------------------------------------------
(* The server.                                                             *)

\* Fault: a replica is counted live again and its saved counters stay.
WelcomeKeepingSaved(r) ==
    /\ phase' = [phase EXCEPT ![r] = IF @ \in {"launching", "dead"} THEN "running" ELSE @]
    /\ excluded' = excluded \ {r}
    /\ UNCHANGED saved

\* ingest_job_metrics up to its loop: the collectors exist, a replica that waits for its
\* first heartbeat or was given up runs, and it is counted live again.
Welcome(r) ==
    /\ phase' = [phase EXCEPT ![r] = IF @ \in {"launching", "dead"} THEN "running" ELSE @]
    /\ excluded' = excluded \ {r}
    /\ saved' = [saved EXCEPT ![r] = IF r \in excluded THEN 0 ELSE @]

\* Its loop, the write of the batch, which may raise, and the answer, which may be late.
Record(p) ==
    /\ newest' = [newest EXCEPT ![p.replica] = p.to] /\ jobNewest' = p.to
    /\ posts' = posts \ {p}
    /\ \/ /\ stored' = [stored EXCEPT ![p.replica] = @ \cup Batch(p)]
          /\ UNCHANGED <<lost, faults>>
          /\ IF p.awaited THEN Answer(p.replica) ELSE UNCHANGED <<sidecar, cleared>>
       \/ /\ Fault
          /\ lost' = [lost EXCEPT ![p.replica] = @ \cup Batch(p)]
          /\ UNCHANGED stored
          /\ IF p.awaited THEN Answer(p.replica) ELSE UNCHANGED <<sidecar, cleared>>
       \/ /\ Fault
          /\ stored' = [stored EXCEPT ![p.replica] = @ \cup Batch(p)]
          /\ UNCHANGED lost
          /\ p.awaited /\ NoAnswer(p.replica)
    /\ UNCHANGED <<sampled, complete>>

Ingest(p) == Welcome(p.replica) /\ Record(p)

\* exclude_replica: the counters of the newest snapshot, if there is one.
Exclude(r) ==
    /\ excluded' = excluded \cup {r}
    /\ saved' = [saved EXCEPT ![r] = IF newest[r] # 0 THEN newest[r] ELSE @]
    /\ UNCHANGED <<newest, jobNewest>>

\* update_job_phase with replica_complete.
ReplicaComplete(r) ==
    /\ complete[r] = "sent"
    /\ complete' = [complete EXCEPT ![r] = "over"]
    /\ phase' = [phase EXCEPT ![r] = "completed"]
    /\ Exclude(r)
    /\ UNCHANGED <<sidecar, sampled, cleared, posts, stored, lost, faults>>

\* The report is lost: _report_phase sends it once.
ReportLost(r) ==
    /\ complete[r] = "sent" /\ Fault
    /\ complete' = [complete EXCEPT ![r] = "over"]
    /\ UNCHANGED <<sidecar, sampled, cleared, posts, collector, stored, lost>>

\* _check_all_jobs: no heartbeat for the threshold, or phase failed.
DeclareDead(r) ==
    /\ \/ phase[r] = "running" /\ \E p \in {"completed", "dead"} : phase' = [phase EXCEPT ![r] = p]
       \/ phase[r] = "failed" /\ phase' = [phase EXCEPT ![r] = "dead"]
    /\ Exclude(r)
    /\ UNCHANGED <<client, posts, stored, lost, faults>>

\* monitor_replica, after the launch of the replica or its cluster job failed.
MarkFailed(r) ==
    /\ phase[r] \in {"launching", "running"}
    /\ phase' = [phase EXCEPT ![r] = "failed"]
    /\ UNCHANGED <<client, posts, newest, jobNewest, excluded, saved, stored, lost, faults>>

\* _do_kill, of a job of which the server knows a replica.
Kill(r) ==
    /\ phase[r] \in {"launching", "running", "unknown"}
    /\ \E q \in Replica : phase[q] # "unknown"
    /\ phase' = [phase EXCEPT ![r] = "killed"]
    /\ Exclude(r)
    /\ UNCHANGED <<client, posts, stored, lost, faults>>

\* The server process is replaced: collector and phases are gone, the table is not.
Restart ==
    /\ Fault
    /\ phase' = [r \in Replica |-> "unknown"]
    /\ newest' = [r \in Replica |-> 0] /\ jobNewest' = 0
    /\ excluded' = {} /\ saved' = [r \in Replica |-> 0]
    /\ posts' = {}
    /\ sidecar' = [r \in Replica |-> IF sidecar[r] = "waiting" THEN "sampling"
                                     ELSE IF sidecar[r] = "last" THEN "ended" ELSE sidecar[r]]
    /\ UNCHANGED <<sampled, cleared, complete, stored, lost>>

-----------------------------------------------------------------------------

Next == \/ \E r \in Replica : \/ Sample(r) \/ PushBatch(r) \/ PushLast(r) \/ Finish(r) \/ Die(r)
                              \/ ReplicaComplete(r) \/ ReportLost(r)
                              \/ DeclareDead(r) \/ MarkFailed(r) \/ Kill(r)
        \/ \E p \in posts : Ingest(p) \/ Timeout(p) \/ Refused(p) \/ Dropped(p)
        \/ Restart

Spec == Init /\ [][Next]_vars

-----------------------------------------------------------------------------
(* What MetricsCollector answers.                                          *)

Sum(f) == FoldFunction(LAMBDA a, b : a + b, 0, f)

\* list_replica_ids, of those that get_replica_latest knows a snapshot of.
Live == {r \in Replica : r \notin excluded /\ newest[r] # 0}

\* get_aggregated: the live replicas, and what was saved of the others; or the job's ring.
Contribution == [r \in Replica |-> (IF r \in Live THEN newest[r] ELSE 0) + saved[r]]

Aggregated == IF Live # {} THEN Sum(Contribution) ELSE jobNewest

-----------------------------------------------------------------------------
(* Properties.                                                             *)

TypeOK ==
    /\ sidecar \in [Replica -> {"sampling", "waiting", "last", "ended"}]
    /\ sampled \in [Replica -> 0 .. MaxSamples] /\ cleared \in [Replica -> 0 .. MaxSamples]
    /\ complete \in [Replica -> {"unsent", "sent", "over"}]
    /\ posts \subseteq Post
    /\ phase \in [Replica -> {"launching", "running", "failed", "completed", "dead", "killed",
                              "unknown"}]
    /\ newest \in [Replica -> 0 .. MaxSamples] /\ jobNewest \in 0 .. MaxSamples
    /\ excluded \subseteq Replica /\ saved \in [Replica -> 0 .. MaxSamples]
    /\ stored \in [Replica -> SUBSET (1 .. MaxSamples)]
    /\ lost \in [Replica -> SUBSET (1 .. MaxSamples)]
    /\ faults \in 0 .. MaxFaults

\* While some replica reports, the aggregated counters are those of all replicas: however
\* often a replica completes, is given up or killed and is heard from again, it is counted
\* once, with its newest counters.
TotalAddsUp == Live # {} => Aggregated = Sum(newest)

\* No replica is left out of the rates and averages while it is held to run.
RunningIsCounted == \A r \in Replica : phase[r] = "running" => r \notin excluded

\* A sidecar that lives loses no snapshot to a timeout, a restart of the server or a late
\* answer: it still has it, or it is in the table, or the server failed on its batch.
SnapshotsKept ==
    \A r \in Replica : sidecar[r] # "ended" =>
        \A n \in 1 .. sampled[r] : n > cleared[r] \/ n \in stored[r] \cup lost[r]

\* What exclude_replica is said to ensure: the counters of a replica "remain in the
\* aggregated sum even after the replica is excluded", so a total does not fall when a
\* replica completes, dies or is killed.
CountersPreserved == [][excluded \subseteq excluded' => Aggregated' >= Aggregated]_vars
================================================================================
