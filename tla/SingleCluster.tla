------------------------------ MODULE SingleCluster ------------------------------
(***************************************************************************)
(* Batch jobs without chunks: submit_batch and the lifespan of the server  *)
(* (server.py), sp_launch_vllm_batch with its fallback and its monitor     *)
(* thread (orca_server/launcher.py), the quota tracker (quota/tracker.py), *)
(* the metrics poller of a job (orca_server/monitoring.py) and the runner  *)
(* (templates/vllm_batch_runner_server.py).                                *)
(*                                                                         *)
(* A request names configurations, each a job of its own with a cluster of *)
(* its own.  A launch awaits nothing: it holds the event loop from the     *)
(* first configuration to the answer, and the deadline that is set for it  *)
(* never strikes.  Reports that runners post meanwhile are handled         *)
(* afterwards, when the monitor thread of their job may have ended it.     *)
(*                                                                         *)
(* All clusters count against one quota of the tracker, which has one for  *)
(* each region, market and instance family.  No job is persistent, and     *)
(* sky_down_with_retry succeeds in one of its attempts.  What SkyPilot,    *)
(* SQLite, S3, a runner or a directory does at a bad moment is one of      *)
(* MaxFaults.                                                              *)
(***************************************************************************)
EXTENDS Naturals, Sequences, FiniteSets, FiniteSetsExt, Functions

CONSTANTS Requests,   \* sequences of jobs: the configurations in the order of trial
          Vcpus,      \* the vCPUs of a job's cluster
          Quota,      \* what AWS grants (get_baseline_quota)
          MaxStops,   \* bound: shutdowns and crashes of the server
          MaxFaults   \* bound: faults of all kinds

Jobs == UNION {Range(q) : q \in Requests}

ASSUME SingleClusterAssumption ==
    /\ \A q \in Requests : q \in Seq(Range(q)) /\ q # <<>>
    /\ \A q, p \in Requests : \A i \in DOMAIN q, k \in DOMAIN p :
         q[i] = p[k] => q = p /\ i = k
    /\ IsFiniteSet(Jobs)
    /\ Vcpus \in [Jobs -> Nat] /\ Quota \in Nat
    /\ MaxStops \in Nat /\ MaxFaults \in Nat

VARIABLES server,    \* up, closing (its lifespan ends), stopped or crashed
          launch,    \* the requests the event loop is at: none or one, with its place
          answers,   \* what submit_batch answered
          status,    \* JobTracker's status; "active" stands for launching to generating
          cluster,   \* the SkyPilot cluster of a job
          runner,    \* the runner on it
          reports,   \* jobs whose runner posted a phase that no handler took up
          poller,    \* _JobCollector's thread
          monitor,   \* the monitor_and_download thread
          rows,      \* the clusters with a row in the reservations table
          used,      \* VPCQuotaTracker.used_vcpu
          stops, crashes, faults

cloud == <<cluster, runner>>
threads == <<poller, monitor>>
quota == <<rows, used>>
bounds == <<stops, crashes, faults>>
vars == <<server, launch, answers, status, cloud, reports, threads, quota, bounds>>

Fault == faults < MaxFaults /\ faults' = faults + 1

\* A monitor thread that ClusterManager still has under its name.
Registered(j) == monitor[j] \in {"tailing", "judged"}

-----------------------------------------------------------------------------
(* The quota tracker.  Each call holds its lock from the check to the new  *)
(* total.                                                                  *)

Total(R) == MapThenSumSet(LAMBDA j : Vcpus[j], R)

\* reserve_cluster, whose answer the launch ignores.
ReserveCluster(j) ==
    IF used + Vcpus[j] > Quota
    THEN UNCHANGED quota
    ELSE rows' = rows \cup {j} /\ used' = used + Vcpus[j]

\* Fault: the row goes, the total stays.
ReleaseRowOnly(j) == rows' = rows \ {j} /\ UNCHANGED used

\* release_cluster.
ReleaseCluster(j) ==
    IF j \in rows
    THEN /\ rows' = rows \ {j}
         /\ used' = IF used < Vcpus[j] THEN 0 ELSE used - Vcpus[j]
    ELSE UNCHANGED quota

-----------------------------------------------------------------------------

Init == /\ server = "up" /\ launch = {}
        /\ answers = [q \in Requests |-> "none"]
        /\ status = [j \in Jobs |-> "none"]
        /\ cluster = [j \in Jobs |-> "none"] /\ runner = [j \in Jobs |-> "none"]
        /\ reports = {}
        /\ poller = [j \in Jobs |-> "none"] /\ monitor = [j \in Jobs |-> "none"]
        /\ rows = {} /\ used = 0
        /\ stops = 0 /\ crashes = 0 /\ faults = 0

(* The event loop: a launch, or a report.                                  *)

\* Configuration i of request q enters the tracker and sky.launch is called.
Try(q, i) ==
    /\ launch' = {[request |-> q, config |-> i, returned |-> FALSE]}
    /\ status' = [status EXCEPT ![q[i]] = "active"]

\* submit_batch reaches the launch.
Submit(q) ==
    /\ server = "up" /\ launch = {} /\ answers[q] = "none"
    /\ answers' = [answers EXCEPT ![q] = "waiting"]
    /\ Try(q, 1)
    /\ UNCHANGED <<server, cloud, reports, threads, quota, bounds>>

\* stream_and_get returns: the cluster is up and the runner's job is submitted.
LaunchReturns(l) ==
    LET j == l.request[l.config]
    IN /\ ~ l.returned
       /\ launch' = {[l EXCEPT !.returned = TRUE]}
       /\ cluster' = [cluster EXCEPT ![j] = "up"]
       /\ runner' = [runner EXCEPT ![j] = "loading"]
       /\ UNCHANGED <<server, answers, status, reports, threads, quota, bounds>>

\* The rest of sp_launch_vllm_batch: the reservation, the poller, the monitor thread.
\* The request is answered and the loop goes on.
MonitorStarts(l) ==
    LET j == l.request[l.config]
    IN /\ l.returned
       /\ ReserveCluster(j)
       /\ status' = [status EXCEPT ![j] = "active"]
       /\ poller' = [poller EXCEPT ![j] = "polling"]
       /\ monitor' = [monitor EXCEPT ![j] = "tailing"]
       /\ answers' = [answers EXCEPT ![l.request] = "launched"]
       /\ launch' = {}
       /\ UNCHANGED <<server, cloud, reports, bounds>>

\* sky.launch raises, or after it the handle or the reservation: the job has failed, its
\* cluster stays, and the next configuration is tried.
LaunchRaises(l) ==
    LET j == l.request[l.config]
        next == l.config + 1
    IN /\ IF l.returned THEN Fault ELSE UNCHANGED faults
       /\ IF next <= Len(l.request)
          THEN /\ launch' = {[request |-> l.request, config |-> next, returned |-> FALSE]}
               /\ status' = [status EXCEPT ![j] = "failed", ![l.request[next]] = "active"]
               /\ UNCHANGED answers
          ELSE /\ launch' = {}
               /\ status' = [status EXCEPT ![j] = "failed"]
               /\ answers' = [answers EXCEPT ![l.request] = "error"]
       /\ UNCHANGED <<server, cloud, reports, threads, quota, stops, crashes>>

\* update_job_phase, for a report posted at any earlier time.
UpdateJobPhase(j) ==
    /\ server = "up" /\ launch = {} /\ j \in reports
    /\ reports' = reports \ {j}
    /\ status' = [status EXCEPT ![j] = IF @ = "none" THEN @ ELSE "active"]
    /\ UNCHANGED <<server, launch, answers, cloud, threads, quota, bounds>>

-----------------------------------------------------------------------------
(* The cluster.                                                            *)

\* main: the model is loaded and the generation starts, each reported; the output is
\* written and uploaded, and the runner exits.
RunnerSteps(j) ==
    /\ cluster[j] = "up"
    /\ \/ /\ runner[j] = "loading"
          /\ runner' = [runner EXCEPT ![j] = "generating"]
          /\ reports' = IF server = "up" THEN reports \cup {j} ELSE reports
       \/ /\ runner[j] = "generating"
          /\ runner' = [runner EXCEPT ![j] = "done"]
          /\ UNCHANGED reports
    /\ UNCHANGED <<server, launch, answers, status, cluster, threads, quota, bounds>>

RunnerDies(j) ==
    /\ runner[j] \in {"loading", "generating"} /\ Fault
    /\ runner' = [runner EXCEPT ![j] = "died"]
    /\ UNCHANGED <<server, launch, answers, status, cluster, reports, threads, quota, stops,
                   crashes>>

\* sky.launch(down=True): a cluster without a running job goes down by itself.
AutoDown(j) ==
    /\ cluster[j] = "up" /\ runner[j] \in {"done", "died"}
    /\ cluster' = [cluster EXCEPT ![j] = "down"]
    /\ UNCHANGED <<server, launch, answers, status, runner, reports, threads, quota, bounds>>

\* sky_down_with_retry.
Destroy(j) ==
    /\ cluster' = [cluster EXCEPT ![j] = "down"]
    /\ runner' = [runner EXCEPT ![j] = IF @ \in {"loading", "generating"} THEN "died" ELSE @]

-----------------------------------------------------------------------------
(* The threads of a job.                                                   *)

\* _poll_loop fetches a page that has running requests ...
PollSees(j) ==
    /\ poller[j] = "polling" /\ runner[j] = "generating"
    /\ poller' = [poller EXCEPT ![j] = "seen"]
    /\ UNCHANGED <<server, launch, answers, status, cloud, reports, monitor, quota, bounds>>

\* ... and calls the job generating, once.
PollMarks(j) ==
    /\ poller[j] = "seen"
    /\ poller' = [poller EXCEPT ![j] = "marked"]
    /\ status' = [status EXCEPT ![j] = "active"]
    /\ UNCHANGED <<server, launch, answers, cloud, reports, monitor, quota, bounds>>

\* tail_logs returns when the runner is gone, and raises at any time; the verdict is what
\* was downloaded.
Judge(j) ==
    /\ monitor[j] = "tailing"
    /\ \/ /\ runner[j] \in {"done", "died"} /\ UNCHANGED faults
          /\ status' = [status EXCEPT ![j] = IF runner[j] = "done" THEN "succeeded" ELSE "failed"]
       \/ /\ Fault
          /\ status' = [status EXCEPT ![j] = "failed"]
    /\ monitor' = [monitor EXCEPT ![j] = "judged"]
    /\ UNCHANGED <<server, launch, answers, cloud, reports, poller, quota, stops, crashes>>

\* The directory of a job that succeeded cannot be renamed: it has failed after all.
RenameRaises(j) ==
    /\ monitor[j] = "judged" /\ status[j] = "succeeded" /\ Fault
    /\ status' = [status EXCEPT ![j] = "failed"]
    /\ UNCHANGED <<server, launch, answers, cloud, reports, threads, quota, stops, crashes>>

\* Fault: the reservation is left alone.
ReleaseNothing(j) ==
    /\ monitor[j] = "judged" /\ poller[j] # "seen"
    /\ monitor' = [monitor EXCEPT ![j] = "released"]
    /\ poller' = [poller EXCEPT ![j] = "stopped"]
    /\ UNCHANGED <<server, launch, answers, status, cloud, reports, quota, bounds>>

\* The finally block: stop_collecting joins the poller, the quota is released and the
\* thread leaves the registry.
Release(j) ==
    /\ monitor[j] = "judged" /\ poller[j] # "seen"
    /\ monitor' = [monitor EXCEPT ![j] = "released"]
    /\ poller' = [poller EXCEPT ![j] = "stopped"]
    /\ ReleaseCluster(j)
    /\ UNCHANGED <<server, launch, answers, status, cloud, reports, bounds>>

\* Its last line: the cluster goes down after its quota was given back.
TearDown(j) ==
    /\ monitor[j] = "released"
    /\ monitor' = [monitor EXCEPT ![j] = "ended"]
    /\ Destroy(j)
    /\ UNCHANGED <<server, launch, answers, status, reports, poller, quota, bounds>>

-----------------------------------------------------------------------------
(* The life of the server.                                                 *)

\* The lifespan ends between two handlers; what was posted and not handled is lost.
Close ==
    /\ server = "up" /\ launch = {} /\ stops < MaxStops
    /\ stops' = stops + 1 /\ server' = "closing" /\ reports' = {}
    /\ UNCHANGED <<launch, answers, status, cloud, threads, quota, crashes, faults>>

\* A registered thread did not end in time: its cluster is torn down.
ForceTeardown(j) ==
    /\ server = "closing" /\ Registered(j)
    /\ Destroy(j)
    /\ UNCHANGED <<server, launch, answers, status, reports, threads, quota, bounds>>

\* Fault: the process waits for the registered threads only.
ExitUnlessRegistered ==
    /\ server = "closing" /\ \A j \in Jobs : ~ Registered(j)
    /\ server' = "stopped"
    /\ UNCHANGED <<launch, answers, status, cloud, reports, threads, quota, bounds>>

\* The process ends with its last monitor thread; those are no daemons.
Exit ==
    /\ server = "closing" /\ \A j \in Jobs : monitor[j] \in {"none", "ended"}
    /\ server' = "stopped"
    /\ UNCHANGED <<launch, answers, status, cloud, reports, threads, quota, bounds>>

\* The process is killed, with its threads.
Crash ==
    /\ server \in {"up", "closing"} /\ stops < MaxStops
    /\ stops' = stops + 1 /\ crashes' = crashes + 1 /\ server' = "crashed"
    /\ launch' = {} /\ reports' = {}
    /\ poller' = [j \in Jobs |-> "none"] /\ monitor' = [j \in Jobs |-> "none"]
    /\ UNCHANGED <<answers, status, cloud, quota, faults>>

\* A new process: an empty tracker of jobs, the reservations replayed by _init_db, and
\* those of clusters that are gone reconciled, if sky.status answers.
Start ==
    /\ server \in {"stopped", "crashed"}
    /\ server' = "up"
    /\ status' = [j \in Jobs |-> "none"]
    /\ poller' = [j \in Jobs |-> "none"] /\ monitor' = [j \in Jobs |-> "none"]
    /\ \/ rows' = {j \in rows : cluster[j] = "up"} /\ UNCHANGED faults
       \/ rows' = rows /\ Fault
    /\ used' = Total(rows')
    /\ UNCHANGED <<launch, answers, cloud, reports, stops, crashes>>

-----------------------------------------------------------------------------

LaunchStep(l) == LaunchReturns(l) \/ MonitorStarts(l) \/ LaunchRaises(l)
MonitorThread(j) == Judge(j) \/ Release(j) \/ TearDown(j)

Next == \/ \E q \in Requests : Submit(q)
        \/ \E l \in launch : LaunchStep(l)
        \/ \E j \in Jobs :
              \/ UpdateJobPhase(j)
              \/ RunnerSteps(j) \/ RunnerDies(j) \/ AutoDown(j)
              \/ PollSees(j) \/ PollMarks(j)
              \/ MonitorThread(j) \/ RenameRaises(j)
              \/ ForceTeardown(j)
        \/ Close \/ Exit \/ Crash \/ Start

Spec == Init /\ [][Next]_vars

\* Threads are scheduled, and a runner on a cluster that is up gets on.
Fairness == \A j \in Jobs :
    /\ WF_vars(MonitorThread(j)) /\ WF_vars(PollMarks(j)) /\ WF_vars(RunnerSteps(j))

FairSpec == Spec /\ Fairness

-----------------------------------------------------------------------------
(* Properties.                                                             *)

TypeOK ==
    /\ server \in {"up", "closing", "stopped", "crashed"}
    /\ launch \subseteq [request : Requests, config : Nat \ {0}, returned : BOOLEAN]
    /\ answers \in [Requests -> {"none", "waiting", "launched", "error"}]
    /\ status \in [Jobs -> {"none", "active", "succeeded", "failed"}]
    /\ cluster \in [Jobs -> {"none", "up", "down"}]
    /\ runner \in [Jobs -> {"none", "loading", "generating", "done", "died"}]
    /\ reports \subseteq Jobs
    /\ poller \in [Jobs -> {"none", "polling", "seen", "marked", "stopped"}]
    /\ monitor \in [Jobs -> {"none", "tailing", "judged", "released", "ended"}]
    /\ rows \subseteq Jobs /\ used \in Nat
    /\ stops \in Nat /\ crashes \in Nat /\ faults \in Nat

\* The total in memory is that of the rows, whatever launches, monitor threads, crashes and
\* restarts did to either: release_cluster and the replay of _init_db never drift apart.
MemoryMatchesRows == used = Total(rows)

\* A server that was shut down and not killed leaves nothing behind that costs: no cluster
\* that one of its monitor threads watched, wherever the shutdown met the thread, and no
\* reservation, unless an earlier process was killed.
ShutdownDrains ==
    server = "stopped" =>
        /\ \A j \in Jobs : monitor[j] # "none" => cluster[j] # "up" /\ j \notin rows
        /\ crashes = 0 => rows = {}

\* The reservation of a job that is monitored ends, unless the server is killed: also when
\* its stream breaks, its runner dies or the server shuts down.
ReservationsEnd ==
    \A j \in Jobs : j \in rows /\ monitor[j] # "none" ~> j \notin rows \/ monitor[j] = "none"

\* What monitor_and_download said of a job is not taken back.
VerdictStays ==
    [][\A j \in Jobs : monitor[j] # "none" /\ status[j] \in {"succeeded", "failed"}
          => status'[j] # "active"]_vars

\* The tracker "prevents over-subscription of AWS quotas across concurrent jobs"
\* (architecture.md:124).
WithinQuota == Total({j \in Jobs : cluster[j] = "up"}) <= Quota
================================================================================
