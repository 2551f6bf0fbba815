# TLA+ models of tandemn-sys

TLA+ specifications of the control plane in this repository and of the programs it runs
on other machines, the TLC runs that check them on small instances, and machine-checked
proofs about all of them. Sources are named as in the repository; the lines that
each definition stands for are in `PROJECT.json` (`map`), and what is hard to test in
this code, line by line, in its `hazards`.

## The system

The repository holds two generations of the same service.

**The batch server** (`server.py`, `orca_server/`, `quota/`, `placement/`, `templates/`).
A client submits a file of prompts; a solver, or the client, chooses instance types; the
server launches clusters with SkyPilot. A chunked job is split into chunks kept in Redis:
its replicas pull chunks over HTTP, run them through vLLM, upload one output per chunk to
S3 and report it; when every chunk is completed or failed the server joins the outputs
into one file. Any other job has one cluster to itself, whose monitor thread downloads
the output. An optional scheduler, Koi, is told of launches, failures and progress.

**The plan executor** (`src/tandemn_orca/`). A single-threaded poll loop that
reads plans from Postgres, turns their actions into rows (jobs, ranks) and
Kubernetes objects, and moves the rows to match what the cluster reports. Next to it run
tunnels and routers on the same machine and a collector of GPU telemetry.

### Inventory

| Component | State | Operations | What makes it correct |
|---|---|---|---|
| Submission (`server.py`, `quota/region_selector.py`, `placement/`) | quota cache | submit, dry run, solve, order regions, try configurations, scale | what is offered can be launched, in the market that was asked for; a dry run tells the truth |
| Single-cluster jobs and the server's life (`server.py`, `orca_server/launcher.py`, `job_manager.py`) | registries of clusters and threads, job status | launch with fallback, monitor, download, start, shutdown | no cluster and no reservation outlives what it was made for |
| vCPU quota (`quota/tracker.py`) | SQLite reservations and their sum in memory | reserve, release, reconcile, restart | memory equals rows |
| Chunk queue (`chunk_manager.py`) | per job in Redis: pending list; inflight, completed, failed sets; chunk hashes; metadata | create, pull, renew, complete, reclaim by lease, reclaim by replica, progress, cleanup | one custody per chunk, no chunk lost, bounded retries, completed is final, hash and sets agree |
| Chunk endpoints, reclaim loop, assembly (`server.py`) | asyncio tasks, the assembly lock, `/tmp/assembly_*.jsonl`, job status | pull / complete / renew handlers, `_reclaim_loop`, `_assemble_output` | one assembly at a time, success means a complete file, a completed job is assembled |
| Replica lifecycle (`orca_server/launcher.py`, `server.py`, `job_manager.py`, `watchdog.py`) | phase of each replica, swap flag, job status; one launch and monitor thread per replica | launch, provision, ingest, monitor, scale, kill, swap, watch, teardown | terminal phases stay, Koi hears of every end, clusters are given back |
| Launch heartbeats (`orca_server/launcher.py`) | registry of entries, one thread per attempt | start, update, beat, stop | no beats of what is over, no thread for ever |
| Webhook outbox (`outbox.py`) | SQLite rows, publisher thread | enqueue with dedup key, claim, post, mark, back off, prune, start, stop | at least once, at most once but for a cause, nothing forgotten |
| Runners (`vllm_batch_runner_chunked.py`, `vllm_batch_runner_server.py`) | chunk in work, prefetched chunk, vLLM, results, log tee, sidecar buffer | start vLLM, wait, send, collect, write, upload, report, renew, push | output before completion, output answers the input, the machine is given back |
| Live metrics (`monitoring.py`, `metrics_db.py`, sidecar) | ring buffers, excluded replicas and their saved counters, time series | push, ingest, exclude, welcome back, aggregate | each token counted once, no snapshot lost |
| Job report (`metrics_db.py`, `build_metrics`) | summaries per replica, row per run | summarise, post, store, aggregate, derive | the row is that of the replicas it is made of |
| Plan executor (`orca.py`) | jobs, ranks, plans, events (Postgres); debounce streaks | apply plans (place, swap, preempt), four reconcile passes, crash and restart | a plan's effects happen once, one job's failure does not stop the others, interrupted swaps converge |
| Rank and router health | readings, streaks | verdicts, publication | no failure on one bad poll, relaunched ranks start clean |
| Launchers, Kubernetes objects | objects per rank | reconcile by diff, teardown | objects of a job equal its active ranks |
| Tunnels, routers (`tunnels.py`) | desired specs, live processes, a supervisor thread | replace, supervise, close | live processes are the desired ones; a port leads to its own job |
| Telemetry (`gpu_metrics_collector.py`, labels of the compilers) | pods listed, ranks read, rows, what routers know | list, query, tell, write | a row is of the pod that has the GPU; routers learn what is whole |
| Dashboard, plots, storage, scripts, generated gRPC code, catalogs | none, or files | views and I/O | not modelled (below) |

They interact as follows. Runners call the server's HTTP handlers; handlers, the
reclaim loop and the watchdog call the chunk queue, all on one event loop, so
they interleave only at `await`. Launch threads, monitor threads and teardown
threads share the replica phases with them under a lock taken for one access at
a time. Everything that notifies Koi goes through the outbox. The executor's
passes meet only in Postgres and Kubernetes, and a crash may fall between any
two calls. Tunnels are kept by a thread of the executor's process, telemetry is a
process of its own that reads what the others left in Kubernetes and Postgres.

The hard behaviours: lost and repeated HTTP answers; completions that arrive after a
lease was reclaimed; reclaim paths of which one asks whether the job is finished, one
asks unless it was the pull's, and one never asks; the assembly task's awaits and its
expiring lock; replicas torn down while they work; threads overwriting each other's
phases and outliving what they were started for; a shutdown that meets a launch; steps
of the executor separated by a crash; pods that move while they are being counted.

## Modules

| Module | Models | Status |
|---|---|---|
| `TaskPool` | what the queue promises: a pool of leased tasks | abstract specification |
| `ChunkQueue`, `ChunkQueueProofs` | `chunk_manager.py`, called in any order by anyone | checked, proved |
| `BatchJob`, `BatchJobProofs` | runners, handlers, reclaim loop, watchdog, kill and assembly over the queue | checked, proved |
| `Replicas`, `ReplicasProofs` | launch, monitor, scale, kill, swap and watch of a chunked job's replicas | checked, proved |
| `Heartbeats` | the heartbeats of launches | checked, proved in `OutboxProofs` |
| `Outbox`, `OutboxProofs` | the durable queue of webhooks | checked, proved |
| `Metrics`, `MetricsProofs` | sidecars, ingest, exclusion, aggregation | checked, proved |
| `JobReport` | summaries and the row of a finished job | checked, proved in `MetricsProofs` |
| `Engine` | inside a machine: runner, vLLM, requests, log tee, sidecar | checked, proved in `MetricsProofs` |
| `SingleCluster`, `SingleClusterProofs` | jobs without chunks, quota tracker, start and shutdown of the server | checked, proved |
| `Submission` | from a request to what SkyPilot is offered; dry runs; shapes of scaled replicas | checked, proved in `SingleClusterProofs` |
| `Orca`, `OrcaProofs` | the plan executor with its health pass, over stores, clusters and the chunk manager | checked, proved |
| `Supervisor`, `SupervisorProofs` | port forwards and routers | checked, proved |
| `Telemetry` | pod labels, the collector, what routers are told | checked, proved in `SupervisorProofs` |
| `MC*` | symmetry sets, plans, requests and machines for TLC | |

`BatchJob` composes runners and handlers with an instance of `ChunkQueue`, which implements
`TaskPool`. `Metrics` and `JobReport`, `Outbox` and `Heartbeats`, `Supervisor` and
`Telemetry` share a run each: the MC module has a variable `part`, a behaviour is of one
of the two, and the other does not move. They share no state, so nothing is lost.

### ChunkQueue

One variable per kind of Redis key of a job, one action per `ChunkManager` call
that changes something. The two Lua scripts differ in how they select chunks
(`Expired`, `OwnedBy`) and agree on what they do to them (`Reclaim`). `pull_chunk`
is three commands, so it has a second action, `PullInterrupted`, which stops
after the first or the second. Time is reduced to what the scripts compare it
with: a lease is none, live or expired. A chunk hash field no decision reads is
left out. Callers are as general as a network makes them: whoever was ever given
a chunk may complete or renew it at any later time, any number of times.

`TaskPool` forgets lists, sets and hashes: a task is ready, leased, done, failed
or gone and has a number of lost leases. `ImplementsTaskPool` is the refinement;
its mapping calls a chunk done as soon as it is completed, whatever other key
still holds it.

### BatchJob

`Q == INSTANCE ChunkQueue` supplies the queue; BatchJob adds the callers as they
are. A runner is its main loop (`work`, with `stage` run or report), its prefetch
thread (`prefetch`: pulling, empty, or the chunk it holds) and the renewal threads
that may have been told a lease is gone (`stolen`). A handler is one action,
because it does not await between reading and writing the queue.
`_assemble_output` is a task in steps, one per stretch between awaits:
`spawned` (waiting for the loop), `collect` (downloads), `upload`. The repeated
download awaits are one step: what they find depends only on the outputs, which
only grow. `combined` and `onDisk` are the temporary file two assemblies share.

Each thing a network, S3, a machine, Redis-less minutes or an operator may do at
a bad moment (lost answers, failed transfers, a crash, a false death, a kill, an
error inside assembly) costs one of `MaxFaults`. Every replica is up and
generating in the initial state.

`LegalCalls` states that the system's steps on the queue's variables are
ChunkQueue's. It is what makes the proofs about ChunkQueue statements about the
system: the queue's spec allows cleanup only when all is done (or already
cleaned), and completions only of chunks that were handed out, and BatchJob never
does anything else.

### Replicas

The phase table, the swap flag and the job's status are shared by the threads that launch
and then monitor a replica, handlers, the watchdog and teardown threads. The lock of
`ClusterManager` is held for one call, so an action is what one of them does between two
such calls: `Provision` is the write of phase `provisioned` after `sky.launch`, and a kill
may come before and after it. `told` are the replicas whose end was reported; the queue is
`left` (chunks) and `holds` (who has one), which is all that the watchdog and
`_is_graceful_completion` ask of it. `sky_down_with_retry` succeeds in one of its attempts,
and no replica is marked persist.

### Heartbeats

The registry maps a replica to one entry, and a thread looks its entry up by replica
before each beat: whether it finds its own depends on whoever stopped the attempt before.
`_stop_koi_launch_heartbeat` is two actions, `PopAndSet` and the `Joined` of the step that
follows, and `Joined` gives up on a thread only while it posts (one second passes). `over`
is what Koi was told is over and `late` counts the beats it is sent afterwards, up to two.
A beat is a report that goes to the outbox. An exception between the return of
`sky.launch` and the registration of the replica is left out.

### Outbox

Time is the order of `next_attempt_at` among the rows that are due. A claimed row stays in
the table, so claiming changes nothing but the publisher's `batch`; posting (`answer`) and
marking are separate actions, with a crash possible in between. The publisher thread is
stopped with a five-second wait that a long batch outlasts; it then finds the database
closed. Koi is external: it is up or down, answers late, and refuses `Poison` for ever.
`got` counts the posts of the publisher that it processed; a report after the shutdown is
posted directly and goes into `dropped`.

### Metrics

The n-th snapshot of a replica reports counters worth n, so sums of numbers are sums of
tokens. Handlers and the watchdog's exclusion touch the collector without an await and
are one action each. The sidecar keeps its buffer when a post raises and clears it when it
returns, whatever the status; a request that timed out stays in `posts` and is handled
later or never. `newest` and `jobNewest` are the newest entries of the two ring buffers,
the only ones the aggregate reads.

### JobReport

A chunk is one request of a length that is the replica's. A runner leaves its loop, reports
`replica_complete`, and only then builds and posts its summary, once; its cluster may be
gone first (`SummaryLost`). The aggregate keeps one field of each rule of
`aggregate_replica_summaries` (sum, average over working replicas, maximum, copy), and
`Derived` what `_compute_derived` writes over it.

### Engine

`mode` chooses the runner. `main` is where it is, `engine` what vLLM is doing, external
and free to hang, die, log an out-of-memory line or answer in part; `pipe`, `log` and `tee`
are what vLLM wrote and nobody read, LogCollector's buffer and the list its tee appends
to, which `drain` replaces; `forwarder` is the sidecar's thread, which pushes what it drained. The requests of a chunk hold a semaphore (`sent`) and return
in any order. A chunk's lines are numbers, one of which is not JSON. Where chunks come
from is BatchJob's.

### SingleCluster

A launch awaits nothing, so it holds the event loop from the first configuration to the
answer and shows as `launch`; reports of runners wait in `reports`. The monitor thread is
its stretches (`tailing`, `judged`, `released`, `ended`) between the places where another
thread sees something. Shutdown is `Close` (the lifespan's end: threads are joined, then
clusters torn down by force) and `Exit` (Python joins what is left); `Crash` loses memory
and threads, and `Start` adds the rows up and reconciles. All clusters count against one
quota; the tracker has one per region, market and family, which do not meet.

### Submission

One job: `submit_batch` up to its placements, then the attempts. A quota is a number of
vCPUs per region and market; a candidate is a region and a market with room, ordered by
`Before`; `Offered` cuts to five and then drops regions without an image. Solvers are
external and find one of `Solutions`. `Resolve` is the first entry of the instance tables
that fits, so a request has one meaning whoever resolves it. `DryRun` is `test_placement`, and `told` what it
answered. Prices are an order; instances are of one quota family; answers' texts are left
out.

### Orca

The executor is one thread, so its whole control state is the call it makes next
(`at`) and the locals that call will use (`queue`, `act`, `old`, `prev`, `left`). One
action is one call that changes a store, a cluster or the chunk manager; the reads
before it belong to it when nobody else writes what they read. Between calls the
planner writes plans, a user cancels, chunks end, objects are lost, and the process
may crash, which empties `locals` and `memory` (`_down_streak`, `_served_rank_ids`,
`_cancelled_chunk_jobs`) and starts again with `apply_pending`. A call may also raise:
the disjunct with `Raises` says what was done before and where the exception is caught.
`_apply_plan` catches it and goes on with the plan (`EndAction`), a pass that does not
ends (`Aborted`), and `_place` and `_launch_ranks` first undo what they can (`FailRanks`,
`RestoreJob`). The event log matters only where it raises outside a handler, after the
transition of `_place` and after the rows of `_launch_ranks`.

Jobs, ranks and plans are rows of `tandemn_system_data`, another repository: `transition`,
`fail` and `set_rank_status` compare and set, `launch_ranks` upserts, as the code's use
of their results and the fakes of `tests/test_orca_smoke.py` say. Objects and chain
associations are those of a whole rank. What a health poll can read of a rank is one of
four readings; `Verdict` maps them as `rank_health` and `batch_rank_health` do. The streak
stops at `DownPolls`, with which alone it is compared.

### Supervisor

A key is a rank of a job (tunnels) or a job (routers), its port a hash. `ReplaceJob` is what
`reconcile` does under the lock, after refusing a port that another job holds (`Refuses`,
which only PortForwardManager does). The thread tests the stop flag, takes the lock, starts
what does not run, and waits; a process binds its port or exits when the port is taken;
children of an Orca that is gone are `orphans`.

### Telemetry

A tick is four stretches: pods listed (`index`), ranks read (`known`), routers told
(`news`), rows written; pods, ranks and GPUs change in between. `Labels` are what the two
compilers put on pods, `ChainOf`, `MemberOf` and `Accepted` what the collector makes of
them. A LeaderWorkerSet pod comes back under its name. A row keeps who held its GPU while
the tick ran (`holders`), for the property to compare with. Readings, prices and the
readiness of batch pods, which nobody asks, are left out.

## Runs

Every run passes: what the code does is what the property says.

| Run | Bounds | Asks |
|---|---|---|
| `chunk_queue` | 3 chunks, 2 replicas, 3 leases per chunk, 1 interrupted pull | does a chunk have one custody, is none lost but in an interrupted pull, does a live lease stand; does the queue implement `TaskPool` |
| `batch_job` | 2 chunks, 2 replicas, 2 leases, 1 assembly, 1 fault, 1 lapse of the lock | does success mean a complete file; does the system call the queue only as `ChunkQueue` allows |
| `batch_job_live` | 2 chunks, 1 replica, 2 assemblies, 1 fault | is a completed job assembled, one assembly at a time; does every lease end |
| `orca` | 1 job of either kind, 2 ranks, a plan of two actions, 1 crash, 1 call that raises, debounce 2 | is finished final, do paused jobs hold nothing, do interrupted swaps converge, are plans applied and cancellations passed on |
| `replicas` | 1 replica of the launch and 1 of a swap or scale, 1 configuration, 1 chunk, 1 swap | does Koi hear of every replica whose monitor ends; does a swap spare what it launched |
| `replicas_live` | 1 replica, 2 configurations, 2 chunks, 2 faults, failed launches leave clusters | does a killed replica stay out, is everything given back, is a loss noticed |
| `outbox` | 3 events, one of which Koi refuses, batches of 1, 2 reports of each, 2 faults, 1 outage; heartbeats of 1 replica, 3 attempts, 2 slow posts | is every event kept until Koi has it, and twice only for a cause, and delivered; is at most one beat late, do the heartbeat threads end |
| `metrics` | 2 replicas, 2 snapshots each, 1 fault; reports of 3 workers over 3 chunks | does the aggregate count each replica once, is no snapshot lost; is a job's row that of its replicas |
| `supervisor` | 2 jobs, 3 keys of which 2 share a port, 1 exit, 1 exception, 1 crash; telemetry of 3 kinds of ranks on nodes of 2 and 1 GPUs, 1 move, 1 loss | does only what is desired run, do ports lead to their jobs, does the desired run in the end; do rows fit their pods, do routers learn |
| `single_cluster` | 2 requests, 3 clusters, quota 4, 1 stop, 1 fault | do memory and rows of the quota agree, does a shutdown leave nothing, do reservations end |
| `submission` | 4 instance types of 3 GPUs, 4 regions of which 2 have no image, 12 requests, 3 scales, 1 expiry of the cache | is what is offered launchable within the quota; does a dry run hold |
| `engine` | 3 lines one of which is not JSON, 2 chunks, 2 requests at a time (1 if unchunked), 2 log lines and one of the runner's own in a buffer of 2, drained one by one, 2 faults | does the output answer the input line by line, do log lines arrive at most once, does the runner end |

The largest, `replicas`, has 2.3 million states; the others have from 66,000 to 1.2 million.

Why the bounds are enough. Custody involves at most one chunk and two replicas; a third
chunk lets the list order, a failed and a completed chunk and a live one coexist. Three
leases (the deployed value) let a chunk come back by each reclaim path once. In `batch_job`
one fault in any place, together with the expiries, reclaims and teardowns that need none,
reaches every branch of every handler. Jobs of `Orca` share nothing but the order of a
pass, and an exception for one job is a pass that ended early, so one job suffices; two
ranks let a swap keep one and replace the other, and a plan of two actions lets the second
meet what the first left, in every state that a crash and an exception can leave it in.
One replica that a swap launches beside one that it kills is the whole of a swap;
configurations matter to `replicas_live`, where a launch may fail and be tried again.
Three events and batches of one let an event wait behind one that is refused and behind
one whose delivery was not recorded. Two quotas' worth of clusters for a quota of one make a
launch fall back. Ids are only compared for equality, so runs without liveness use symmetry.

Bounds in guards: `MaxInterrupts` (pulls cut short), `MaxFaults` (failures of whatever
kind), `MaxLapses` (expiries of the assembly lock), the set `Assemblies` (tasks alive at
once; a trigger needs a free one), `MaxPlans`, `MaxCrashes`, `MaxErrors` (calls that
raise), `MaxSwaps`, `MaxReports` (of one event), `MaxOutages`, `MaxSlow` (posts that take
over a second), `MaxSamples`, `MaxExits`, `MaxStops`, `MaxExpiries`, `MaxLogLines`,
`MaxMoves`, `MaxLosses`. Late beats are counted up to two. `MaxRetries`, `BatchSize` and
`Capacity` are the program's own. `CHECK_DEADLOCK FALSE` stands wherever the
system really stops: a finished job, a server that is down. The executor never does, and
its run checks deadlock.

Each property has a mutant in `PROJECT.json`: an operator marked "Fault:" next to the
definition it replaces, with which the run fails.

### Fairness

None is assumed of a step that is a fault, of users or of operators.

- `BatchJob`: a runner that is up takes its next step, a lease nobody renews runs out, the
  reclaim loop comes round, an awaiting task is resumed: `while True` loops and the event
  loop. Nothing is assumed of renewals, the watchdog or teardowns, so the properties hold
  even if a replica is never restarted.
- `Orca`: `main`'s loop goes on, and after `MaxErrors` exceptions calls return. If calls
  raised for ever nothing would be promised.
- `Replicas`: threads are scheduled, `tail_logs` returns once the runner is gone, a runner
  works or gives up, the watchdog's passes come.
- `Outbox`: the publisher is scheduled, a back-off ends, Koi comes back, a server that is
  down is started. `Heartbeats`: threads are scheduled, `sky.launch` returns or raises.
- `Supervisor`: the thread is scheduled, and a process that was started binds its port or
  exits. `Telemetry`: the collector's loop goes on; nothing is assumed of pods and ranks.
- `SingleCluster`: threads are scheduled, a runner gets on and ends.
- `Engine`: the runner's threads are scheduled, timeouts strike, a server that is ready
  answers or its request times out.

### Kept beside the runs

Some definitions are properties that no run lists, because a proof covers them or because
others imply more: the `TypeOK`s, `RetryBudget`, `HashAgreesWithSets`, `CleanedStaysIdle`,
`AllDoneStable`, `RunningIsCounted` (proved), `FinishedReleases`, `ObjectsFollowRanks`,
`FailedIsRequeued`, `CompletedHasOutput`, `OwnConfigsFit`, `WarningIsRight`, `MarketKept`.
They hold when put into the configuration of their module's run.

## Where the code does not do what it might be taken to do

The runs ask what holds. The following instances ask for what does not; TLC finds each
violated, and the counterexample is a run of the code. Configurations that carry a name of
their own are in this directory; the others are that of a run with its properties replaced.

| Configuration | Property | What happens |
|---|---|---|
| `ChunkQueueDoubleCount.cfg` | `AllDoneSound` | a completion that arrives after its lease was reclaimed leaves the chunk in the pending list (`chunk_manager.py:340`); it is pulled again, can exhaust its retries, and is both completed and failed: `get_progress` adds the two and reports `all_done` early |
| `BatchJobUnassembled.cfg` | `AllDoneIsAssembled` | when the last chunk fails in the reclaim of an empty pull or of a kill (`chunk_manager.py:255`, `server.py:1620`), nobody asks whether all is done, as `server.py:222` does for the reclaim loop |
| `BatchJobTwoAssemblies.cfg` | `AssembledOnce` | the assembly lock lives five minutes and is not renewed (`server.py:1043`): a longer assembly is joined by another |
| `BatchJobResumed.cfg` | `ResumedReplicaKept` | the idle signal schedules a teardown that a resumed runner does not cancel (`server.py:848`) |
| `ReplicasZombies.cfg` | `NoZombies` | what `sky.launch` created before it raised is torn down before the next configuration, but not after the last, nor by scale and swap (`launcher.py:1042`): a cluster is up that nobody will tear down, which `architecture.md:126` says is prevented |
| `SingleClusterQuota.cfg` | `WithinQuota` | the launcher does not look at the refusal of `reserve` (`launcher.py:1265`), so reservations exceed the quota that `architecture.md:124` says is enforced |
| `SingleClusterVerdict.cfg` | `VerdictStays` | a job that its monitor called succeeded or failed becomes active again: a report of a phase that waited for the event loop, or a poll of the endpoint, writes the status unconditionally |
| `OrcaRankless.cfg` | `RunningHasRanks` | a crash between `_place`'s transition and its launch leaves a running job that every pass skips (`orca.py:603`) |
| `OrcaRelaunch.cfg` | `RelaunchStartsClean` | a rank that failed and is launched again between two health passes keeps its streak and its served mark (`orca.py:351`) |
| `SupervisorRouters.cfg` | `DesiredRuns` | routers, unlike port forwards, do not refuse a port that another job has (`tunnels.py:161`): one of the two never runs, though `tunnels.py:149` says "Keep one tandemn-router process alive per active job" |
| `TelemetryMoved.cfg` | `RowsAlwaysFit` | a pod that came back on another node under its name during a tick is told of its old and of its new GPUs, under the same local ranks, though identity is "accepted only when" it matches (`gpu_metrics_collector.py:18`) |
| `TelemetryNodes.cfg` | `RowsFit` | `num_nodes_per_chain` of a batch rank is not read (`gpu_metrics_collector.py:470`), so members of its chains have wrong local ranks |
| `SubmissionScale.cfg` | `ScaleKeepsShape` | a replica's state has `tp` and `pp`, and `_infer_job_config` asks it for `tp_size` and `pp_size` (`server.py:1380`): replicas added without a shape have neither parallelism |
| `SubmissionMarket.cfg` | `PlannedIsExact` | a job that is not chunked is launched with regard to `prefer_spot` alone, although "planned_market is the exact market selected by Koi for this config" (`launcher.py:83`) |
| `SubmissionAlternatives.cfg` | `AlternativesFit` | the nodes of an alternative "for fallback retry" (`models/requests.py`) are too few for its parallelism, so it is never launched |
| `Metrics.cfg` with `CountersPreserved` | | when the last replica is excluded the aggregate is the job's newest snapshot, one replica's (`monitoring.py:531`), although counters are saved to "remain in the aggregated sum" (`monitoring.py:498`, `ROADMAP.md:33`) |
| `Metrics.cfg` with `RunCountsAll` | | a summary is posted after `replica_complete` (`vllm_batch_runner_chunked.py:1709`, `vllm_batch_runner_chunked.py:1755`); the job can be closed, and its cluster gone, before |
| `Metrics.cfg` with `CostIsOfAll` | | replicas whose summary is missing cost nothing, though "every replica burns money" (`metrics_db.py:661`) |
| `Outbox.cfg` with `ReadyIsNoticed` | | a model that is ready before the launch thread has registered the replica is not noticed (`server.py:904`, `launcher.py:1283`): job-started is never sent |
| `Engine.cfg` with `OomRecognised` | | an out-of-memory line is looked for among those that the reader thread has read, and of them the oldest 200 (`vllm_batch_runner_chunked.py:974`) |
| `Engine.cfg` with `SidecarReports` | | the unchunked runner's sidecar asks its GPU monitor for something that it has not, so no snapshot of the run arrives (`vllm_batch_runner_server.py:402`) |
| `Engine.cfg` with `AnswerIsWhole` | | a stream that vLLM ended early, or an error that the unchunked runner does not look at, is written as 200 |
| `Engine.cfg` with `DeadServerStops` | | with its server dead the runner takes chunk after chunk and completes each with errors |
| `Engine.cfg` with `NamedByInput` | | the chunked runner names lines by their place among those that parsed: behind a line that is not JSON the names are shifted |
| `Engine.cfg` with `Capacity = 4`, `RunnerIsHeard` | | the first drain replaces the list that the tee appends to: nothing that the runner prints afterwards is forwarded (`vllm_batch_runner_chunked.py:795`) |

For `RunnerIsHeard` and the other invariants of Engine the specification is `EngineSpec`.

Seen while modelling, and in no instance: the SSE thread reads `get_aggregated` while a
handler excludes a replica; a port conflict raises in `reconcile_running` before later jobs
are looked at; runners give up after a minute of idleness
(`vllm_batch_runner_chunked.py:1605`); an assembly is lost by a restart (`server.py:995`); a
teardown by the watchdog blocks the event loop (`watchdog.py:163`); two executors
(`orca.py:221`); `reconcile_finished` skips leftovers (`orca.py:467`); an exception of
`popen` ends the supervisor thread; the dedup key of `replica_failed` is the replica's id
(`watchdog.py:183`); a phase report takes a job's status back to generating
(`server.py:885`).

## Proofs

`ChunkQueueProofs` proves, for every finite set of chunks, every set of replicas,
every `MaxRetries > 0` and every number of interrupted pulls
(`ChunkQueueAssumption`):

`TypeCorrect`, `Custody`, `NothingLost`, `RetriesBounded`, `HashesTrusted`,
`CleanedIdle` (invariants), `AllDoneStays` and `LeasesRespected` (action
properties), and `QueueImplementsPool` (refinement).

They share one inductive invariant, `IInv`: the six invariants of the module (`TypeOK`,
`SingleCustody`, `NoChunkLost`, `RetryBudget`, `HashAgreesWithSets`, `CleanedStaysIdle`) and
`PulledWasLeased` (while the job lasts, a chunk that someone was ever given is
inflight or completed or has lost a lease), which the refinement needs for a late
completion: the pool never goes from ready to done without a lease. None is inductive alone. Custody needs the retry budget and
the agreement of hashes and sets to know that a reclaimed chunk was inflight and
not failed; the retry budget needs custody, because a chunk both failed and
pending could be handed out again; `NoChunkLost` counts with `Cardinality`, and
a pull lowers it by one only because the popped chunk was in no other key. The
proof has one lemma per action and one step per conjunct; a pull is proved once
for its three ways to end. The lemmas at the head of the module say what `RPUSH`
of an arbitrary ordering and `LPOP` do to a list without repetitions.

`BatchJobProofs` proves, for every finite set of chunks, all replicas and assembly tasks, any
retry budget, faults and lapses of the lock (`BatchJobAssumption`), `TypeCorrect`,
`CallsAreLegal`, `AssembliesTakeTurns`, `RunnersHoldTheirOwn`, `CompletedIsStored` and
`SuccessHoldsUp`. `CallsAreLegal` says that the system's steps are steps of the queue, and
what is proved of the queue under its most general callers is then true of the system:
`SystemKeepsCustody`, `SystemLosesNothing`, `SystemImplementsPool`. Two of the queue's
guards need an argument: a cleanup must find all done, which a task knew when it was spawned
and which stays (`AssemblyIsDue`, by `AllDoneKept` of the queue), and a report must be of a
chunk that was handed out (`HeldWasHandedOut`). While no lease of the lock has lapsed an
assembly that runs holds the lock, so there is one (`LockHeld`). What is reported has its
output or was blank (`ReportedHasOutput`), and what an assembly no longer has to collect is
in its file or has used up its retries (`NothingSkipped`); so a success is complete. That is
proved where the lock does not lapse or there is one assembly task, and is false
otherwise: two assemblies share the file. Queue and proofs are two instances of the same
module; the lemmas named `Same` say that they are equal.

`OrcaProofs` proves, for all sets of jobs and ranks, any plans over them, any debounce
and any number of plans, crashes and exceptions (`OrcaAssumption`; a rank belongs to one
job and a ladder names ranks of its job): `OrcaTypeCorrect`, `PausedIsReleased` (as long
as no call raised, a paused job holds no active rank), `FinishedStays` (no step brings
a finished job back) and `SwapsConverge` (when a plan is marked, its last swap of a running
job has left only the new ladder). Jobs and ranks need not be finite, so the proofs do not count.

Neither a job's status nor its ranks say by themselves why a pause is safe: the executor
reads the active ranks at the start of an action and stops them several calls later,
while users cancel and the process may die between any two of those calls. The
strengthening is `ControlOK`, what the next call says about the locals it will use: a call
inside an action has an action at hand; a launch is of a job that is running or was
cancelled since; the handlers run only after an exception; until a preemption stops its
ranks, every active rank of its job is one of those it read; and when it comes to the
pause there is none. `IInv` is `TypeOK`, `ControlOK` and `PausedHoldsNothing`. Two lemmas
carry the argument: only a launch makes ranks active (`OnlyLaunchesActivate`), and only
`Pause` or the undoing of a place pauses a job, the latter after an exception
(`JobSteps`). That the premise "no call raised" is needed is the code's doing: when
the event log raises after a place wrote its ranks (`orca.py:782`, before the handler that
fails them), the job goes back to paused with ranks launching.

`SwapsConverge` relates the step that marks a plan to all that happened since it was read.
`PlanOK` says what the executor is at: `act` is the end of the oldest plan of the queue,
and each swap before it that is the plan's last word on its job is settled. A crash starts the
plan anew, with nothing before `act`. While a swap runs, the active ranks of its job are
those it read or launches (`SwapOK`), so stopping the others leaves the ladder, and later only
an action on the same job could launch (`OnlyLaunchesActivate`) or start it (`JobSteps`).

`ReplicasProofs` proves, for all finite sets of replicas and any configurations, chunks,
swaps and faults, `TypeCorrect`, `MonitorGuaranteesNotice`, `SwapsSpareNewest` and
`KillsAreFinal`. Each has an invariant of its own. The count of chunks stays a number because
there are no more leases than chunks left (`LeasesOK`). Notice is guaranteed because a
dead replica was reported, and a thread that gave up failed its own (`ToldOK`). Swaps leave
somebody because some replica is on no monitor's list (`SwapOK`): a monitor
lists those known before its own launch. A killed replica stays out because nobody calls
one back that has no runner, which is what `GoneForGood` follows through every action; it is
proved for a replica whose launch was over when it was killed, and false otherwise
(`NoZombies`).

`OutboxProofs` proves `NothingIsForgotten` and `DuplicatesAreCaused` for any events, batch
size and bounds. The claimed rows are the first of those due (`BatchOK`), a due row is
pending and due once (`DueOK`), a delivered row was processed (`HeardOK`), and each event has
a budget of one delivery and one for each fault (`BudgetOK`), of which a publisher
that outlives `stop` may spend one.

`OutboxProofs` also proves `HeartbeatsTypeCorrect` and `OneBeatIsLate` for any replicas,
attempts and slow posts. A stop pops the entry, sets its event, and waits for the thread
until it ends or posts, so a thread that still looks for its entry finds its own or none
(`EntryOK`, `ThreadsOK`): only one that posts can be late, and it ends after that post
(`LateOK`). Replicas share nothing, so each lemma is about one (`OneReplica`, `OfOne`).

`MetricsProofs` proves `TotalsAddUp`, `RunningCounts` and `SnapshotsAreKept` for any
replicas, snapshots and faults: what was saved of an excluded replica are its newest counters
and of others nothing (`SavedOK`), a sidecar clears only what it sampled (`ClearedOK`), and
waits for one answer, to a post of its whole buffer (`AwaitedOK`).

Of `JobReport` it proves `JobReportTypeCorrect` and `RunsAreOfTheirReplicas` for any replicas,
lengths and chunks. What a replica served is final once its loop ended, which it did before
its summary is posted (`SummariesFinal`); sums over the rows are then those of the replicas,
and an average lies between the least and the greatest (`TotalBetween`, `QuotientBetween`).
No counter exceeds the job's chunks because those served, in work and queued add up
(`ChunksCounted`).

Of `Engine` it proves `LinesArriveOnce` and `OutputIsAnswered` for any input, buffer and
faults. Lines that arrived, that are in the buffer and that nobody has read are increasing, in
this order (`LinesOK`); dropping the oldest and draining a part keep the order, and
the runner's own line, which comes at any time, comes once. Each result answers its line
(`OutputOK`), and the runner writes when it has them.

`SingleClusterProofs` proves `TypeCorrect`, `MemoryIsThatOfRows` and `ShutdownsDrain` for
any requests, quota, stops and faults. One launch is in hand (`LaunchInHand`), and a
configuration not yet tried has neither row nor monitor (`UntriedIsBare`), so a reservation
adds a row that was not there, and memory moves with the rows. A monitor thread that released has no row,
one that ended no cluster (`MonitorsLeaveNothing`), and without a crash each row has a monitor
(`RowsAreWatched`); a process that exits has seen them end (`ExitIsClean`). The sum of a
set is a fold; that it grows by an element's vCPUs is proved from the smallest set for which it
would not (`SmallestCounterexample`), a form of induction that needs no operator.

Of `Submission` it proves `LaunchesFindImages` and `DryRunsAreKept` for any instance types,
quotas and requests. Of the five candidates that are offered at most four are in the two
regions without an image, so the first one with an image is among them
(`FirstIsOffered`). What a dry run told is that of the request and the quotas that it saw
(`ToldOK`), and resolving a request again gives the same (`ResolveIsUnique`).

`SupervisorProofs` proves `NothingStaleRuns` and `PortsLeadHome` for any jobs, keys and
ports: where conflicts are refused, desired keys with the same port are of one job
(`ClaimsOK`).

Of `Telemetry` it proves `RowsFitTheirPods` for any machines, pods that come and go, and
shapes that satisfy `ShapesAreRead`: a chain on several nodes says so by `node_count`, the
name the collector reads (the theorem is false without, `TelemetryNodes.cfg`). A listed pod
has its share of one node (`PodsOK`), so a GPU given to it by dcgm-exporter, or for want of
another pod on the node, is one it holds (`OwnedAreHeld`); numbering those in order
and counting on by members gives each a number of its own (`Numbered`, `Shares`).

With these every invariant and every action property of the runs is proved, and the
refinement. Only model-checked are the liveness properties: `EveryLeaseEnds` and its like need
fairness and ENABLED, which are beyond TLAPS here. So is induction over data by the library's
theorems: what a recursive computation yields is proved only where the smallest
counterexample can be named, as for sums over finite sets.

## Not modelled

- Dashboards, plots and the streams that feed them (some 950 lines): they read.
- Generated gRPC code (960) and tables of instance types and hardware catalogs (1000).
- The roofline model, the advisor and its use of a language model (3000): floating-point
  estimates without state. `Submission` takes whatever they might return.
- Parsing of vLLM's metrics text, quantiles, workload generators.
- `vllm_batch_runner.py`, the runner of the generation before the chunked one, and
  `sp_launch_vllm_online`, which nothing supervises after it returns.
- Storage back ends and scripts that run once: I/O whose failures are failing steps.
- The publication of router health to Redis, in which only the last write counts.
- Authentication, logging, payload texts, progress bars.
- The chunk-manager gRPC service and the stores of `tandemn_system_data`: other
  repositories, modelled by how this code uses them.

## Plan

Done: every component of the inventory that keeps state, but for what is listed above; proofs
of every invariant, action property and refinement that a run checks. Left:

1. The invariants kept beside the runs (`OwnConfigsFit`, `WarningIsRight`, `MarketKept`), for
   every instance.
2. An abstract specification of a plan whose actions take effect once, in order, and the
   executor shown to implement it where nothing crashes or raises; two executors.
3. Router health publication.
