------------------------------- MODULE JobReport -------------------------------
(***************************************************************************)
(* The metrics row of a finished chunked job: the summary that a runner    *)
(* builds and posts after its chunk loop (vllm_batch_runner_chunked.py),   *)
(* the table of summaries (ingest_replica_summary in server.py,            *)
(* orca_server/metrics_db.py), and the aggregation in _assemble_output     *)
(* that writes the job's row in the runs table.                            *)
(*                                                                         *)
(* A chunk is one request here, of a length that is the replica's; a       *)
(* replica runs one unit of time and one for each chunk.  A summary keeps  *)
(* one field of each rule of aggregation: a sum (requests, cost), an       *)
(* average over the replicas that did something, a maximum and a copy.     *)
(* From the aggregate to the row _assemble_output does not await, so it is *)
(* one step; the upload of the output, before it, may take any time.       *)
(***************************************************************************)
EXTENDS Naturals, Sequences, FiniteSets, FiniteSetsExt, SequencesExt

CONSTANTS Worker,        \* the replicas
          Work,          \* the chunks
          Length,        \* of a replica: the average length of its requests
          Rate,          \* of a replica: the hourly price of its instance type
          CatalogKnows   \* SkyPilot's catalog has a price for the job's region

ASSUME JobReportAssumption ==
    /\ IsFiniteSet(Worker) /\ Work \in Nat \ {0}
    /\ Length \in [Worker -> Nat \ {0}] /\ Rate \in [Worker -> Nat \ {0}]
    /\ CatalogKnows \in BOOLEAN

VARIABLES queue,      \* the chunks that nobody has
          worker,     \* what a runner does
          served,     \* the chunks it has completed
          posted,     \* the replica_summaries table: the order of its rows
          assembly,   \* _assemble_output
          run         \* the job's row in the runs table, NoRun if it has none

reportVars == <<queue, worker, served, posted, assembly, run>>

NoRun == [requests |-> 0, length |-> 0, hours |-> 0, cost |-> 0, of |-> {}]

JobReportInit ==
    /\ queue = Work
    /\ worker = [r \in Worker |-> "free"] /\ served = [r \in Worker |-> 0]
    /\ posted = <<>> /\ assembly = "none" /\ run = NoRun

-----------------------------------------------------------------------------
(* The runner.                                                             *)

TakeChunk(r) ==
    /\ worker[r] = "free" /\ queue > 0
    /\ queue' = queue - 1 /\ worker' = [worker EXCEPT ![r] = "busy"]
    /\ UNCHANGED <<served, posted, assembly, run>>

\* The completion of the last chunk starts the assembly.
FinishChunk(r) ==
    /\ worker[r] = "busy"
    /\ worker' = [worker EXCEPT ![r] = "free"] /\ served' = [served EXCEPT ![r] = @ + 1]
    /\ assembly' = IF queue = 0 /\ \A w \in Worker \ {r} : worker[w] # "busy"
                   THEN "uploading" ELSE assembly
    /\ UNCHANGED <<queue, posted, run>>

\* The loop ends, because all is done or after a minute of idling.  The runner reports
\* replica_complete first, and the server starts to tear its cluster down.
LoopEnds(r) ==
    /\ worker[r] = "free" /\ queue = 0
    /\ worker' = [worker EXCEPT ![r] = "building"]
    /\ UNCHANGED <<queue, served, posted, assembly, run>>

\* build_metrics: the average of a replica that completed nothing is 0.
Summary(r) == [requests |-> served[r],
               length |-> IF served[r] > 0 THEN Length[r] ELSE 0,
               hours |-> 1 + served[r],
               cost |-> Rate[r] * (1 + served[r])]

\* ingest_replica_summary: a row per replica.
Stored(r) == Append(RemoveFirst(posted, r), r)

\* The summary is posted once.
PostSummary(r) ==
    /\ worker[r] = "building" /\ worker' = [worker EXCEPT ![r] = "ended"]
    /\ posted' = Stored(r)
    /\ UNCHANGED <<queue, served, assembly, run>>

\* The cluster is gone before, or the post fails: there is no second one.
SummaryLost(r) ==
    /\ worker[r] = "building" /\ worker' = [worker EXCEPT ![r] = "ended"]
    /\ UNCHANGED <<queue, served, posted, assembly, run>>

-----------------------------------------------------------------------------
(* The aggregation.                                                        *)

Rows == {posted[i] : i \in 1..Len(posted)}
Summaries == [r \in Worker |-> Summary(r)]
Total(table, R, field) == MapThenSumSet(LAMBDA r : table[r][field], R)

\* Fault: idle replicas are averaged in.
AveragedAll(R) == R

\* Averages over the replicas that completed a request, if there are any.
Averaged(R) == LET working == {r \in R : Summary(r).requests > 0}
               IN IF working = {} THEN R ELSE working

\* aggregate_replica_summaries.
Aggregate(R) ==
    [requests |-> Total(Summaries, R, "requests"),
     length |-> Total(Summaries, Averaged(R), "length") \div Cardinality(Averaged(R)),
     hours |-> Max({Summary(r).hours : r \in R}),
     cost |-> Total(Summaries, R, "cost"),
     of |-> R]

\* _compute_derived: with a price for the instance type, which is the first replica's, the
\* cost becomes that of the whole run on one such instance.
Derived(row) ==
    [row EXCEPT !.cost = IF CatalogKnows THEN Rate[posted[1]] * row.hours ELSE @]

\* push_run, when there is a summary; the row of an earlier run is replaced.
PushRun ==
    /\ assembly = "uploading" /\ assembly' = "done"
    /\ run' = IF posted = <<>> THEN run ELSE Derived(Aggregate(Rows))
    /\ UNCHANGED <<queue, worker, served, posted>>

-----------------------------------------------------------------------------

JobReportNext ==
    \/ \E r \in Worker : TakeChunk(r) \/ FinishChunk(r) \/ LoopEnds(r) \/ PostSummary(r)
                         \/ SummaryLost(r)
    \/ PushRun

JobReportSpec == JobReportInit /\ [][JobReportNext]_reportVars

-----------------------------------------------------------------------------
(* Properties.                                                             *)

JobReportTypeOK ==
    /\ queue \in 0..Work
    /\ worker \in [Worker -> {"free", "busy", "building", "ended"}]
    /\ served \in [Worker -> 0..Work]
    /\ Rows \subseteq Worker
    /\ assembly \in {"none", "uploading", "done"}
    /\ run.of \subseteq Worker

\* The row of a job is that of its summaries: the requests are those that these replicas
\* completed until they ended, and the average lies between theirs, however many replicas
\* only idled.
RunIsOfItsReplicas ==
    run # NoRun =>
        /\ run.requests = Total(Summaries, run.of, "requests")
        /\ LET lengths == {Length[r] : r \in {w \in run.of : served[w] > 0}}
           IN run.requests > 0 => Min(lengths) <= run.length /\ run.length <= Max(lengths)

\* "POSTed by each replica after all chunks done": the job's row counts all its requests.
RunCountsAll == assembly = "done" => run.requests = Work

\* "every replica burns money": the cost of the run is the sum of its replicas' costs.
CostIsOfAll ==
    run # NoRun => run.cost = Total(Summaries, run.of, "cost")
================================================================================
