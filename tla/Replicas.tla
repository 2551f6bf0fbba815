-------------------------------- MODULE Replicas --------------------------------
(***************************************************************************)
(* The replicas of one chunked job, from launch to teardown:               *)
(* launch_chunked_replicas, _launch_chunked_replica and monitor_replica    *)
(* (orca_server/launcher.py), the metrics, phase, scale, kill and swap     *)
(* handlers (server.py), the watchdog (orca_server/watchdog.py) and the    *)
(* tables of ClusterManager and JobTracker (orca_server/job_manager.py).   *)
(*                                                                         *)
(* A replica is written by the thread that launches it and goes on to      *)
(* monitor it, by handlers on the event loop, by the watchdog's pass and   *)
(* by teardown threads.  The tables are locked for one call at a time, so  *)
(* each action is what one of them does between two such calls that        *)
(* another can come between.                                               *)
(*                                                                         *)
(* The chunk queue is abstracted to how many chunks are left and which     *)
(* replicas hold one.  SkyPilot, the machines and the network take one of  *)
(* MaxFaults for what they do at a bad moment.  sky_down_with_retry        *)
(* destroys the cluster in one of its four attempts, and no replica is     *)
(* marked persist.                                                         *)
(***************************************************************************)
EXTENDS Naturals, FiniteSets

CONSTANTS Initial,    \* the replicas launched with the job
          Scaled,     \* the replicas that scale and swap may add
          Configs,    \* how many configurations a launch may try
          Chunks,     \* how many chunks the job has
          Leftovers,  \* a failed launch may leave a cluster behind
          MaxSwaps,   \* bound: swap requests
          MaxFaults   \* bound: faults of all kinds

ASSUME ReplicasAssumption ==
    /\ IsFiniteSet(Initial) /\ Initial # {}
    /\ IsFiniteSet(Scaled) /\ Initial \cap Scaled = {}
    /\ Configs \in Nat \ {0} /\ Chunks \in Nat \ {0}
    /\ Leftovers \in BOOLEAN
    /\ MaxSwaps \in Nat /\ MaxFaults \in Nat

VARIABLES phase,     \* ClusterManager._replica_states[job][r]["phase"]
          thread,    \* the thread that launches and then monitors a replica
          attempt,   \* the configuration it tries
          cluster,   \* the SkyPilot cluster of a replica
          runner,    \* the runner on it
          beat,      \* the newest snapshot in the replica's ring buffer
          rows,      \* replicas with a row in the quota tracker
          teardown,  \* running sky_down_with_retry threads
          dead,      \* ReplicaWatchdog._dead_replicas
          told,      \* replicas of which replica-failed was enqueued
          holds,     \* replicas that own an inflight chunk
          left,      \* chunks neither completed nor failed
          job,       \* JobTracker's status; loading_model counts as launching
          assembled, \* _assemble_output has set the status
          asked,     \* swap handlers that await their body
          swapping,  \* ClusterManager._swap_in_progress[job]
          monitors,  \* the _swap_monitor tasks
          swaps, faults

fleet == <<phase, thread, attempt, cluster, runner, beat, rows, teardown>>
chunks == <<holds, left>>
swapState == <<asked, swapping, monitors, swaps>>
vars == <<fleet, dead, told, chunks, job, assembled, swapState, faults>>

Replicas == Initial \cup Scaled
Terminal == {"completed", "failed", "dead", "killed", "swapped_out"}
Phases == Terminal \cup {"absent", "launching", "provisioned", "running"}
Threads == {"none", "trying", "waiting", "returned", "reserved", "gaveup",
            "tailing", "closing", "closed", "ended"}
Jobs == {"launching", "generating", "succeeded", "failed"}
Up == {"booting", "loading", "serving", "idle"}

Known == {r \in Replicas : phase[r] # "absent"}
Ended == job \in {"succeeded", "failed"}
Fault == faults < MaxFaults /\ faults' = faults + 1

\* All replicas are terminal and none completed: what a launch thread that gave up
\* and a monitor thread that ends look for.
AllLost == \A r \in Known : phase[r] \in Terminal \ {"completed"}

-----------------------------------------------------------------------------
(* What several operations do.                                             *)

\* launch_chunked_replicas has registered the replicas and started their threads.
Init == /\ phase = [r \in Replicas |-> IF r \in Initial THEN "launching" ELSE "absent"]
        /\ thread = [r \in Replicas |-> IF r \in Initial THEN "trying" ELSE "none"]
        /\ attempt = [r \in Replicas |-> 1]
        /\ cluster = [r \in Replicas |-> "none"]
        /\ runner = [r \in Replicas |-> "none"]
        /\ beat = [r \in Replicas |-> "none"]
        /\ rows = {} /\ teardown = {} /\ dead = {} /\ told = {} /\ holds = {}
        /\ left = Chunks
        /\ job = "launching" /\ assembled = FALSE
        /\ asked = 0 /\ swapping = FALSE /\ monitors = {} /\ swaps = 0
        /\ faults = 0

\* The cluster and what runs on it are gone.
Destroy(r) ==
    /\ cluster' = [cluster EXCEPT ![r] = IF @ = "up" THEN "down" ELSE @]
    /\ runner' = [runner EXCEPT ![r] = IF @ \in Up THEN "exited" ELSE @]

\* ChunkManager.force_reclaim and reclaim_expired_chunks: a chunk that is out of
\* retries is failed, another one goes back to the queue.
Reclaim(R) ==
    /\ holds' = holds \ R
    /\ \/ left' = left
       \/ holds \cap R # {} /\ left' = left - 1

-----------------------------------------------------------------------------
(* The launch thread.                                                      *)

\* The next configuration of _launch_replica_thread; _launch_chunked_replica calls
\* sky.launch and waits for it.
Try(r) ==
    /\ thread[r] = "trying"
    /\ phase' = [phase EXCEPT ![r] = "launching"]
    /\ thread' = [thread EXCEPT ![r] = "waiting"]
    /\ UNCHANGED <<attempt, cluster, runner, beat, rows, teardown, dead, told, chunks, job,
                   assembled, swapState, faults>>

\* The cluster is up and the runner's job is submitted; sky.launch returns.
LaunchReturns(r) ==
    /\ thread[r] = "waiting"
    /\ thread' = [thread EXCEPT ![r] = "returned"]
    /\ cluster' = [cluster EXCEPT ![r] = "up"]
    /\ runner' = [runner EXCEPT ![r] = "booting"]
    /\ UNCHANGED <<phase, attempt, beat, rows, teardown, dead, told, chunks, job, assembled,
                   swapState, faults>>

\* sky.launch raises.  What it leaves behind is torn down before the next
\* configuration, and stays after the last one and in _do_scale's thread.
LaunchFails(r) ==
    /\ thread[r] = "waiting"
    /\ \/ /\ r \in Initial /\ attempt[r] < Configs
          /\ attempt' = [attempt EXCEPT ![r] = @ + 1]
          /\ thread' = [thread EXCEPT ![r] = "trying"]
          /\ UNCHANGED <<phase, cluster>>
       \/ /\ r \in Scaled \/ attempt[r] = Configs
          /\ phase' = [phase EXCEPT ![r] = "failed"]
          /\ thread' = [thread EXCEPT ![r] = IF r \in Initial THEN "gaveup" ELSE "ended"]
          /\ \/ UNCHANGED cluster
             \/ Leftovers /\ cluster' = [cluster EXCEPT ![r] = "up"]
          /\ UNCHANGED attempt
    /\ UNCHANGED <<runner, beat, rows, teardown, dead, told, chunks, job, assembled, swapState,
                   faults>>

\* After the last configuration: with every replica lost, a job still launching
\* has failed.  The thread ends.
GiveUp(r) ==
    /\ thread[r] = "gaveup"
    /\ thread' = [thread EXCEPT ![r] = "ended"]
    /\ job' = IF AllLost /\ job = "launching" THEN "failed" ELSE job
    /\ UNCHANGED <<phase, attempt, cluster, runner, beat, rows, teardown, dead, told, chunks,
                   assembled, swapState, faults>>

\* reserve_cluster; _do_scale passes no tracker.
Reserve(r) ==
    /\ thread[r] = "returned"
    /\ thread' = [thread EXCEPT ![r] = "reserved"]
    /\ rows' = IF r \in Initial THEN rows \cup {r} ELSE rows
    /\ UNCHANGED <<phase, attempt, cluster, runner, beat, teardown, dead, told, chunks, job,
                   assembled, swapState, faults>>

\* The phase becomes provisioned, whatever it was, and the monitor thread starts.
Provision(r) ==
    /\ thread[r] = "reserved"
    /\ phase' = [phase EXCEPT ![r] = "provisioned"]
    /\ thread' = [thread EXCEPT ![r] = "tailing"]
    /\ UNCHANGED <<attempt, cluster, runner, beat, rows, teardown, dead, told, chunks, job,
                   assembled, swapState, faults>>

-----------------------------------------------------------------------------
(* The monitor thread.                                                     *)

\* sky.tail_logs returns, for the runner is gone: failed with chunks left,
\* completed without.
TailReturns(r) ==
    /\ thread[r] = "tailing" /\ runner[r] = "exited"
    /\ thread' = [thread EXCEPT ![r] = "closing"]
    /\ IF left > 0
       THEN phase' = [phase EXCEPT ![r] = "failed"] /\ told' = told \cup {r}
       ELSE phase' = [phase EXCEPT ![r] = "completed"] /\ UNCHANGED told
    /\ UNCHANGED <<attempt, cluster, runner, beat, rows, teardown, dead, chunks, job, assembled,
                   swapState, faults>>

\* It raises: because the cluster is gone, or at any moment.  A terminal phase is
\* left alone, and so is any phase when the stream was cancelled or the job is done.
TailRaises(r) ==
    /\ thread[r] = "tailing"
    /\ IF cluster[r] # "up" THEN UNCHANGED faults ELSE Fault
    /\ thread' = [thread EXCEPT ![r] = "closing"]
    /\ \/ UNCHANGED <<phase, told>>
       \/ /\ phase[r] \notin Terminal /\ ~ Ended
          /\ phase' = [phase EXCEPT ![r] = "failed"]
          /\ told' = told \cup {r}
    /\ UNCHANGED <<attempt, cluster, runner, beat, rows, teardown, dead, chunks, job, assembled,
                   swapState>>

\* Fault: the monitor thread leaves its replica's quota reserved.
CloseKeepingRow(r) ==
    /\ thread[r] = "closing"
    /\ thread' = [thread EXCEPT ![r] = "closed"]
    /\ Destroy(r)
    /\ UNCHANGED <<phase, attempt, beat, rows, teardown, dead, told, chunks, job, assembled,
                   swapState, faults>>

\* The finally block up to sky_down_with_retry.
Close(r) ==
    /\ thread[r] = "closing"
    /\ thread' = [thread EXCEPT ![r] = "closed"]
    /\ rows' = rows \ {r}
    /\ Destroy(r)
    /\ UNCHANGED <<phase, attempt, beat, teardown, dead, told, chunks, job, assembled, swapState,
                   faults>>

\* Fault: no fallback notice.
FinishSilently(r) ==
    /\ thread[r] = "closed"
    /\ thread' = [thread EXCEPT ![r] = "ended"]
    /\ job' = IF AllLost /\ job = "launching" THEN "failed" ELSE job
    /\ UNCHANGED <<phase, attempt, cluster, runner, beat, rows, teardown, dead, told, chunks,
                   assembled, swapState, faults>>

\* The rest of it: the fallback notice, and the job that lost all its replicas
\* while launching.
Finish(r) ==
    /\ thread[r] = "closed"
    /\ thread' = [thread EXCEPT ![r] = "ended"]
    /\ told' = IF phase[r] \in Terminal THEN told ELSE told \cup {r}
    /\ job' = IF AllLost /\ job = "launching" THEN "failed" ELSE job
    /\ UNCHANGED <<phase, attempt, cluster, runner, beat, rows, teardown, dead, chunks,
                   assembled, swapState, faults>>

-----------------------------------------------------------------------------
(* The runner and its reports.                                             *)

\* update_status with whatever the runner reports, also after the job has ended:
\* loading_model while it boots, then model_ready and generating.
ReportPhase(r) ==
    /\ \/ /\ runner[r] = "booting"
          /\ runner' = [runner EXCEPT ![r] = "loading"] /\ job' = "launching"
       \/ /\ runner[r] = "loading"
          /\ runner' = [runner EXCEPT ![r] = "serving"] /\ job' = "generating"
    /\ UNCHANGED <<phase, thread, attempt, cluster, beat, rows, teardown, dead, told, chunks,
                   assembled, swapState, faults>>

\* Fault: metrics bring a replica in any phase back.
IngestAlways(r) ==
    /\ runner[r] \in {"serving", "idle"}
    /\ beat' = [beat EXCEPT ![r] = "fresh"]
    /\ phase' = [phase EXCEPT ![r] = "running"]
    /\ dead' = dead \ {r}
    /\ UNCHANGED <<thread, attempt, cluster, runner, rows, teardown, told, chunks, job,
                   assembled, swapState, faults>>

\* ingest_job_metrics: the sidecar's snapshots.
IngestJobMetrics(r) ==
    /\ runner[r] \in {"serving", "idle"}
    /\ beat' = [beat EXCEPT ![r] = "fresh"]
    /\ phase' = [phase EXCEPT ![r] =
                    IF @ \in {"launching", "provisioned", "dead"} THEN "running" ELSE @]
    /\ dead' = dead \ {r}
    /\ UNCHANGED <<thread, attempt, cluster, runner, rows, teardown, told, chunks, job,
                   assembled, swapState, faults>>

\* The newest snapshot becomes older than the watchdog's threshold: the runner is
\* gone, or it is cut off from the control plane.
GoesStale(r) ==
    /\ beat[r] = "fresh"
    /\ beat' = [beat EXCEPT ![r] = "stale"]
    /\ UNCHANGED <<phase, thread, attempt, cluster, runner, rows, teardown, dead, told, chunks,
                   job, assembled, swapState>>

BeatStale(r) == runner[r] \notin Up /\ UNCHANGED faults /\ GoesStale(r)
CutOff(r) == runner[r] \in Up /\ Fault /\ GoesStale(r)

\* A pull that gets a chunk; the handler asks for no phase.
PullChunk(r) ==
    /\ runner[r] \in {"serving", "idle"} /\ r \notin holds
    /\ left > Cardinality(holds)
    /\ holds' = holds \cup {r}
    /\ runner' = [runner EXCEPT ![r] = "serving"]
    /\ UNCHANGED <<phase, thread, attempt, cluster, beat, rows, teardown, dead, told, left, job,
                   assembled, swapState, faults>>

\* A chunk that the runner still owns is reported (module BatchJob has the others).
CompleteChunk(r) ==
    /\ runner[r] = "serving" /\ r \in holds
    /\ holds' = holds \ {r} /\ left' = left - 1
    /\ UNCHANGED <<fleet, dead, told, job, assembled, swapState, faults>>

\* The runner finds the queue empty and signals replica_complete: once when it
\* starts to idle, and again when it exits.
ReplicaComplete(r) ==
    /\ runner[r] \in {"serving", "idle"} /\ r \notin holds /\ left = Cardinality(holds)
    /\ \/ runner' = [runner EXCEPT ![r] = "exited"]
       \/ runner[r] = "serving" /\ left > 0 /\ runner' = [runner EXCEPT ![r] = "idle"]
    /\ phase' = [phase EXCEPT ![r] = "completed"]
    /\ rows' = rows \ {r}
    /\ teardown' = teardown \cup {r}
    /\ UNCHANGED <<thread, attempt, cluster, beat, dead, told, chunks, job, assembled, swapState,
                   faults>>

\* A startup failure, a crash, or a preemption that takes the cluster along.
RunnerDies(r) ==
    /\ runner[r] \in Up /\ Fault
    /\ runner' = [runner EXCEPT ![r] = "exited"]
    /\ \/ UNCHANGED cluster
       \/ cluster' = [cluster EXCEPT ![r] = "down"]
    /\ UNCHANGED <<phase, thread, attempt, beat, rows, teardown, dead, told, chunks, job,
                   assembled, swapState>>

-----------------------------------------------------------------------------
(* The control plane.                                                      *)

\* The reclaim loop takes the chunk of a replica that cannot renew it.
LeaseExpires(r) ==
    /\ r \in holds
    /\ IF runner[r] \in Up THEN Fault ELSE UNCHANGED faults
    /\ Reclaim({r})
    /\ UNCHANGED <<fleet, dead, told, job, assembled, swapState>>

\* _assemble_output's last word.
Assemble ==
    /\ left = 0 /\ ~ assembled
    /\ assembled' = TRUE
    /\ job' \in {"succeeded", "failed"}
    /\ UNCHANGED <<fleet, dead, told, chunks, swapState, faults>>

\* What _check_all_jobs hands to _handle_dead_replica.
Lost(r) == \/ phase[r] = "failed" /\ r \notin dead
           \/ phase[r] = "running" /\ beat[r] = "stale" /\ r \notin dead

\* _is_graceful_completion.
Graceful(r) == phase[r] = "running" /\ r \notin holds

\* One replica in the watchdog's pass.
HandleDeadReplica(r) ==
    /\ ~ Ended /\ Lost(r)
    /\ dead' = dead \cup {r}
    /\ \/ /\ Graceful(r)
          /\ phase' = [phase EXCEPT ![r] = "completed"]
          /\ Destroy(r)
          /\ UNCHANGED <<told, chunks>>
       \/ /\ ~ Graceful(r)
          /\ phase' = [phase EXCEPT ![r] = "dead"]
          /\ told' = told \cup {r}
          /\ Reclaim({r})
          /\ UNCHANGED <<cluster, runner>>
    /\ UNCHANGED <<thread, attempt, beat, rows, teardown, job, assembled, swapState, faults>>

\* A thread of _do_kill or of update_job_phase.
Teardown(r) ==
    /\ r \in teardown
    /\ teardown' = teardown \ {r}
    /\ Destroy(r)
    /\ UNCHANGED <<phase, thread, attempt, beat, rows, dead, told, chunks, job, assembled,
                   swapState, faults>>

\* _do_scale: the replicas are registered and their threads call
\* _launch_chunked_replica.
DoScale(R) ==
    /\ phase' = [r \in Replicas |-> IF r \in R THEN "launching" ELSE phase[r]]
    /\ thread' = [r \in Replicas |-> IF r \in R THEN "waiting" ELSE thread[r]]

Scale(r) ==
    /\ ~ Ended /\ r \in Scaled /\ phase[r] = "absent"
    /\ DoScale({r})
    /\ UNCHANGED <<attempt, cluster, runner, beat, rows, teardown, dead, told, chunks, job,
                   assembled, swapState, faults>>

\* _do_kill: the replicas of R that are not terminal.
DoKill(R, how) ==
    LET toKill == {r \in R : phase[r] \notin Terminal \cup {"absent"}}
    IN /\ IF toKill = {} THEN UNCHANGED chunks ELSE Reclaim(toKill)
       /\ phase' = [r \in Replicas |-> IF r \in toKill THEN how ELSE phase[r]]
       /\ rows' = rows \ toKill
       /\ teardown' = teardown \cup toKill

Kill(r) ==
    /\ phase[r] \notin Terminal \cup {"absent"}
    /\ DoKill({r}, "killed")
    /\ UNCHANGED <<thread, attempt, cluster, runner, beat, dead, told, job, assembled, swapState,
                   faults>>

\* swap_replicas up to the await of its body.
AskSwap ==
    /\ swaps < MaxSwaps /\ swaps' = swaps + 1
    /\ ~ Ended /\ ~ swapping
    /\ asked' = asked + 1
    /\ UNCHANGED <<fleet, dead, told, chunks, job, assembled, swapping, monitors, faults>>

\* Fault: the replicas to replace are listed after the new ones are registered.
StartSwapListingLate ==
    /\ asked > 0 /\ asked' = asked - 1
    /\ \E R \in (SUBSET {r \in Scaled : phase[r] = "absent"}) \ {{}} :
         /\ DoScale(R)
         /\ \E k \in 1 .. Cardinality(R) :
              monitors' = monitors \cup
                {[old |-> {r \in Replicas : phase'[r] \notin Terminal \cup {"absent"}},
                  new |-> R, ready |-> {}, threshold |-> k]}
    /\ swapping' = TRUE
    /\ UNCHANGED <<attempt, cluster, runner, beat, rows, teardown, dead, told, chunks, job,
                   assembled, swaps, faults>>

\* The rest of it: the replicas to replace, the flag, _do_scale, the monitor.
StartSwap ==
    /\ asked > 0 /\ asked' = asked - 1
    /\ \E R \in (SUBSET {r \in Scaled : phase[r] = "absent"}) \ {{}} :
         /\ DoScale(R)
         /\ \E k \in 1 .. Cardinality(R) :
              monitors' = monitors \cup
                {[old |-> {r \in Known : phase[r] \notin Terminal},
                  new |-> R, ready |-> {}, threshold |-> k]}
    /\ swapping' = TRUE
    /\ UNCHANGED <<attempt, cluster, runner, beat, rows, teardown, dead, told, chunks, job,
                   assembled, swaps, faults>>

\* One turn of _swap_monitor: a new replica counts from its first snapshot on.
\* The loop ends when enough are ready, when the job has ended and when the time
\* has run out.
SwapMonitor(m) ==
    LET ready == m.ready \cup {r \in m.new : beat[r] # "none"}
        enough == Cardinality(ready) >= m.threshold
    IN /\ \/ /\ ~ Ended /\ enough
             /\ DoKill(m.old, "swapped_out")
             /\ monitors' = monitors \ {m} /\ swapping' = FALSE
          \/ /\ Ended \/ ~ enough
             /\ monitors' = monitors \ {m} /\ swapping' = FALSE
             /\ UNCHANGED <<phase, rows, teardown, chunks>>
          \/ /\ ~ Ended /\ ~ enough /\ ready # m.ready
             /\ monitors' = (monitors \ {m}) \cup {[m EXCEPT !.ready = ready]}
             /\ UNCHANGED <<phase, rows, teardown, chunks, swapping>>
       /\ UNCHANGED <<thread, attempt, cluster, runner, beat, dead, told, job, assembled, asked,
                      swaps, faults>>

-----------------------------------------------------------------------------

LaunchThread(r) == Try(r) \/ LaunchReturns(r) \/ LaunchFails(r) \/ GiveUp(r) \/ Reserve(r)
                   \/ Provision(r)
MonitorThread(r) == TailReturns(r) \/ Close(r) \/ Finish(r)
Runner(r) == ReportPhase(r) \/ CompleteChunk(r) \/ ReplicaComplete(r)

Next == \/ \E r \in Replicas :
              \/ LaunchThread(r) \/ MonitorThread(r) \/ TailRaises(r)
              \/ Runner(r) \/ IngestJobMetrics(r) \/ PullChunk(r) \/ BeatStale(r) \/ CutOff(r)
              \/ RunnerDies(r)
              \/ LeaseExpires(r) \/ HandleDeadReplica(r) \/ Teardown(r)
              \/ Scale(r) \/ Kill(r)
        \/ AskSwap \/ StartSwap \/ Assemble
        \/ \E m \in monitors : SwapMonitor(m)

Spec == Init /\ [][Next]_vars

\* Threads are scheduled, tail_logs returns some time after the runner is gone, a
\* runner works or gives up, and the watchdog makes its passes.
Fairness == \A r \in Replicas :
    /\ WF_vars(LaunchThread(r)) /\ WF_vars(MonitorThread(r)) /\ WF_vars(Teardown(r))
    /\ WF_vars(Runner(r)) /\ WF_vars(PullChunk(r))
    /\ WF_vars(HandleDeadReplica(r)) /\ WF_vars(BeatStale(r))

FairSpec == Spec /\ Fairness

-----------------------------------------------------------------------------
(* Properties.                                                             *)

TypeOK ==
    /\ phase \in [Replicas -> Phases] /\ thread \in [Replicas -> Threads]
    /\ attempt \in [Replicas -> 1 .. Configs]
    /\ cluster \in [Replicas -> {"none", "up", "down"}]
    /\ runner \in [Replicas -> Up \cup {"none", "exited"}]
    /\ beat \in [Replicas -> {"none", "fresh", "stale"}]
    /\ rows \subseteq Replicas /\ teardown \subseteq Replicas /\ dead \subseteq Replicas
    /\ told \subseteq Replicas /\ holds \subseteq Replicas
    /\ left \in Nat
    /\ job \in Jobs /\ assembled \in BOOLEAN
    /\ asked \in Nat /\ swapping \in BOOLEAN /\ swaps \in Nat /\ faults \in Nat
    /\ monitors \subseteq [old : SUBSET Replicas, new : SUBSET Scaled, ready : SUBSET Scaled,
                           threshold : Nat]

\* A monitor thread never ends with Koi in the dark: its replica is in a terminal phase or
\* its failure was enqueued, whatever the handlers, the watchdog and a recovery wrote
\* meanwhile (the guarantee monitor_replica's docstring gives).
GuaranteedFire ==
    \A r \in Replicas : thread[r] = "ended" => phase[r] \in Terminal \/ r \in told

\* Swaps that overlap never swap out every replica of the job: the replicas that the
\* latest of them launched are on no list of replicas to kill.
SwapSparesNewest == \E r \in Known : phase[r] # "swapped_out"

StaysOut(r) == []( /\ phase[r] \in {"killed", "swapped_out"}
                   /\ thread[r] \in {"tailing", "closing", "closed", "ended"}
                   => [](phase[r] \in Terminal))

\* A replica that was killed or swapped out after its launch is in a terminal phase for
\* ever, although its runner may report, pull and send metrics until its cluster is down.
KilledStaysOut == \A r \in Replicas : StaysOut(r)

\* When no chunk is left, every cluster goes down and every quota row is given back for
\* good, also those of replicas that were still launching.
EverythingReleased ==
    left = 0 ~> [](rows = {} /\ \A r \in Replicas : cluster[r] # "up")

\* The control plane notices every loss: a replica that failed is reported to Koi unless
\* its job has ended, and one whose runner is gone becomes terminal or is reported.
LossNoticed ==
    \A r \in Replicas :
        /\ phase[r] = "failed" ~> r \in told \/ Ended
        /\ runner[r] = "exited" ~> phase[r] \in Terminal \/ r \in told

\* ClusterManager is to prevent zombies: a cluster that is up has a thread that will tear
\* it down (architecture.md:126).  The last configuration of a launch, and a launch by
\* scale or swap, leave behind what sky.launch had created when it raised.
NoZombies ==
    \A r \in Replicas : cluster[r] = "up" =>
        r \in teardown \/ thread[r] \in {"returned", "reserved", "tailing", "closing"}
================================================================================
