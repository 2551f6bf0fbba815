-------------------------------- MODULE BatchJob --------------------------------
(***************************************************************************)
(* One chunked batch job, end to end: the replicas' runners                *)
(* (templates/vllm_batch_runner_chunked.py), the chunk endpoints, the      *)
(* reclaim loop and _assemble_output of the control plane (server.py), the *)
(* watchdog's and the kill endpoint's forced reclaims, all acting on the   *)
(* queue of module ChunkQueue.                                             *)
(*                                                                         *)
(* Handlers and the reclaim and watchdog passes run on one event loop and  *)
(* are atomic between awaits, so each is one action; _assemble_output      *)
(* awaits its downloads and its upload and is a task of several steps.     *)
(* Runners are concurrent with all of it.  What the network, S3, a machine *)
(* or an operator does at a bad moment takes one of MaxFaults.  The job is *)
(* launched: phases before "running" and the monitor threads are left out. *)
(***************************************************************************)
EXTENDS Naturals, FiniteSets, SequencesExt

CONSTANTS Chunks, Replicas, NoReplica, MaxRetries,
          Assemblies,   \* ids for the _assemble_output tasks alive at once
          MaxFaults,    \* bound: faults of all kinds in a behaviour
          MaxLapses     \* bound: how often the assembly lock's TTL runs out

ASSUME BatchJobAssumption ==
    /\ IsFiniteSet(Chunks) /\ Chunks # {}
    /\ Chunks \cap {"none", "pulling", "empty"} = {}
    /\ NoReplica \notin Replicas
    /\ MaxRetries \in Nat \ {0}
    /\ MaxFaults \in Nat /\ MaxLapses \in Nat

VARIABLES pending, inflight, completed, failed, status, replica_id, lease_until,
          retry_count, meta, pulled, interrupts,   \* the queue
          runner,      \* the runner process of each replica
          phase,       \* ClusterManager's phase of each replica
          outputs,     \* chunk outputs in S3
          combined,    \* the chunks written to /tmp/assembly_{job}.jsonl
          onDisk,      \* that file exists
          final,       \* the chunks of output.jsonl in S3
          blank,       \* chunks whose input some runner could not download
          asm,         \* the _assemble_output tasks
          lock,        \* chunk:job:{id}:assembling is set
          job,         \* JobTracker's status of the job
          faults, lapses

queue == <<pending, inflight, completed, failed, status, replica_id, lease_until,
           retry_count, meta, pulled, interrupts>>
files == <<outputs, combined, onDisk, final, blank>>
vars == <<queue, runner, phase, files, asm, lock, job, faults, lapses>>

Q == INSTANCE ChunkQueue WITH MaxInterrupts <- 0

Terminal == {"succeeded", "failed"}
Slots == {"prefetch", "work"}

Fresh == [up |-> TRUE, prefetch |-> "pulling", work |-> "none", stage |-> "none", stolen |-> {}]
NoTask == [pc |-> "none", todo |-> {}, missed |-> {}]

\* Every replica has loaded its model and reported "generating".

Init == /\ Q!Init
        /\ runner = [r \in Replicas |-> Fresh]
        /\ phase = [r \in Replicas |-> "running"]
        /\ outputs = {} /\ combined = {} /\ onDisk = FALSE /\ final = {} /\ blank = {}
        /\ asm = [i \in Assemblies |-> NoTask]
        /\ lock = FALSE
        /\ job = "active"
        /\ faults = 0 /\ lapses = 0

Fault == faults < MaxFaults /\ faults' = faults + 1
Up(r) == runner[r].up

\* The chunk in a slot of a runner whose renewal thread still runs.
Renewing(r, slot, c) ==
    /\ Up(r) /\ runner[r][slot] = c /\ slot \notin runner[r].stolen
    /\ slot = "work" => runner[r].stage = "run"

\* create_task(_assemble_output(job_id)).
Spawn == \E i \in Assemblies : /\ asm[i].pc = "none"
                               /\ asm' = [asm EXCEPT ![i].pc = "spawned"]

\* Fault: an assembly is started by every report.
AssembleAlways == Spawn

\* What follows get_progress where all_done is tested.
AssembleIfDone == IF Q!AllDone' THEN Spawn ELSE UNCHANGED asm

-----------------------------------------------------------------------------
(* A runner.  Its main loop processes one chunk while a worker thread       *)
(* pulls and downloads the next; each held chunk has a renewal thread.      *)

\* The prefetch thread asks for a chunk.  A lost answer leaves the chunk leased to
\* this replica and the request is made again.
PullChunk(r) ==
    LET S == Q!PassiveReclaim
    IN /\ Up(r) /\ runner[r].prefetch = "pulling"
       /\ \E back \in SetToSeqs(S \ Q!Exhausted(S)) :
            /\ Q!Hand(r, "HSET", S, pending \o back)
            /\ \/ /\ runner' = [runner EXCEPT ![r].prefetch = Head(pending \o back),
                                              ![r].stolen = @ \ {"prefetch"}]
                  /\ UNCHANGED faults
               \/ Fault /\ UNCHANGED runner
       /\ UNCHANGED <<interrupts, phase, files, asm, lock, job, lapses>>

\* The queue has nothing to hand out (204).
PullEmpty(r) ==
    /\ Up(r) /\ runner[r].prefetch = "pulling"
    /\ \/ Q!PullNothing
       \/ pending = <<>> /\ Q!Expired = {} /\ UNCHANGED queue
    /\ runner' = [runner EXCEPT ![r].prefetch = "empty"]
    /\ UNCHANGED <<phase, files, asm, lock, job, faults, lapses>>

\* The main loop is between chunks and its prefetch came back empty.
AtEmpty(r) == Up(r) /\ runner[r].work = "none" /\ runner[r].prefetch = "empty"

\* check_chunk_progress shows work left on other replicas.
OthersBusy == meta /\ ~Q!AllDone /\ inflight # {}

\* Wait and ask again, once vLLM is seen idle after telling the control plane
\* replica_complete.
Wait(r) ==
    /\ AtEmpty(r) /\ OthersBusy
    /\ runner' = [runner EXCEPT ![r].prefetch = "pulling"]
    /\ phase' \in {phase, [phase EXCEPT ![r] = "completed"]}
    /\ UNCHANGED <<queue, files, asm, lock, job, faults, lapses>>

Gone(r) == runner' = [runner EXCEPT ![r] = [Fresh EXCEPT !.up = FALSE]]

\* The loop ends and replica_complete is reported: nothing is left, the replica has been
\* idle for a minute, or the control plane cannot be reached.
Exit(r) ==
    /\ \/ AtEmpty(r) /\ UNCHANGED faults
       \/ Up(r) /\ runner[r].work = "none" /\ runner[r].prefetch \notin Chunks /\ Fault
    /\ Gone(r)
    /\ phase' = [phase EXCEPT ![r] = "completed"]
    /\ UNCHANGED <<queue, files, asm, lock, job, lapses>>

\* The renewal thread of the prefetched chunk was told that its lease is gone.
Stolen(r) == "prefetch" \in runner[r].stolen

\* The main loop takes the prefetched chunk, or skips it when its lease is known to be
\* lost; either way the next prefetch starts.
TakePrefetched(r) ==
    /\ Up(r) /\ runner[r].work = "none" /\ runner[r].prefetch \in Chunks
    /\ runner' = [runner EXCEPT ![r] =
                    [@ EXCEPT !.prefetch = "pulling", !.stolen = {},
                              !.work = IF Stolen(r) THEN "none" ELSE runner[r].prefetch,
                              !.stage = IF Stolen(r) THEN "none" ELSE "run"]]
    /\ UNCHANGED <<queue, phase, files, asm, lock, job, faults, lapses>>

\* The input could not be downloaded: there is nothing to run or to upload, and the
\* chunk goes on to be reported complete.
TakeBlank(r) ==
    /\ Up(r) /\ runner[r].work = "none" /\ runner[r].prefetch \in Chunks
    /\ ~Stolen(r) /\ Fault
    /\ blank' = blank \cup {runner[r].prefetch}
    /\ runner' = [runner EXCEPT ![r].work = runner[r].prefetch, ![r].stage = "report",
                                ![r].prefetch = "pulling"]
    /\ UNCHANGED <<queue, phase, outputs, combined, onDisk, final, asm, lock, job, lapses>>

DropWork(r) == runner' = [runner EXCEPT ![r].work = "none", ![r].stage = "none",
                                        ![r].stolen = @ \ {"work"}]

\* Inference is over and the output is uploaded, whoever owns the chunk by now.  Then
\* renewal stops, and a chunk whose lease is known to be lost is not reported.
Upload(r) ==
    /\ Up(r) /\ runner[r].stage = "run"
    /\ outputs' = outputs \cup {runner[r].work}
    /\ IF "work" \in runner[r].stolen THEN DropWork(r)
       ELSE runner' = [runner EXCEPT ![r].stage = "report"]
    /\ UNCHANGED <<queue, phase, combined, onDisk, final, blank, asm, lock, job, faults, lapses>>

\* The upload fails: renewal stops and the chunk is not reported.
UploadFails(r) ==
    /\ Up(r) /\ runner[r].stage = "run"
    /\ Fault /\ DropWork(r)
    /\ UNCHANGED <<queue, phase, files, asm, lock, job, lapses>>

\* Fault: the handler does not test all_done.
CompleteChunkUntested(r) ==
    LET c == runner[r].work
    IN /\ Up(r) /\ runner[r].stage = "report"
       /\ IF c \in completed THEN UNCHANGED queue ELSE Q!CompleteChunk(r, c)
       /\ DropWork(r)
       /\ UNCHANGED <<phase, files, asm, lock, job, faults, lapses>>

\* POST /chunks/complete.  A chunk completed already only has its progress read.  The
\* answer may be lost and the request repeated; after cleanup_job there is no progress
\* to read and the handler fails, after it has changed the queue.
CompleteChunk(r) ==
    LET c == runner[r].work
    IN /\ Up(r) /\ runner[r].stage = "report"
       /\ IF c \in completed THEN UNCHANGED queue ELSE Q!CompleteChunk(r, c)
       /\ AssembleIfDone
       /\ \/ DropWork(r) /\ UNCHANGED faults
          \/ Fault /\ UNCHANGED runner
       /\ UNCHANGED <<phase, files, lock, job, lapses>>

\* No attempt to report gets through.
ReportFails(r) ==
    /\ Up(r) /\ runner[r].stage = "report"
    /\ Fault /\ DropWork(r)
    /\ UNCHANGED <<queue, phase, files, asm, lock, job, lapses>>

\* A renewal thread learns that its lease is gone, or extends it.
Renew(r, slot) ==
    /\ \E c \in Chunks :
         /\ Renewing(r, slot, c)
         /\ IF status[c] = "inflight" /\ replica_id[c] = r
            THEN Q!RenewLease(r, c) /\ UNCHANGED runner
            ELSE UNCHANGED queue /\ runner' = [runner EXCEPT ![r].stolen = @ \cup {slot}]
    /\ UNCHANGED <<phase, files, asm, lock, job, faults, lapses>>

\* The machine is gone: a spot preemption, a crash, or the teardown that follows
\* replica_complete, a kill or the watchdog's "completed".
Goes(r) == /\ Up(r) /\ Gone(r)
           /\ UNCHANGED <<queue, phase, files, asm, lock, job, lapses>>
Crash(r) == Goes(r) /\ Fault
TearDown(r) == phase[r] \in {"completed", "killed"} /\ Goes(r) /\ UNCHANGED faults

-----------------------------------------------------------------------------
(* The control plane.                                                      *)

\* A lease runs out: that of a chunk nobody renews, or, when renewals cannot get
\* through for CHUNK_LEASE_TTL_SEC, any.
LeaseExpires(c) ==
    /\ Q!LeaseExpires(c)
    /\ IF Renewing(replica_id[c], "work", c) \/ Renewing(replica_id[c], "prefetch", c)
       THEN Fault ELSE UNCHANGED faults
    /\ UNCHANGED <<runner, phase, files, asm, lock, job, lapses>>

\* Fault: the pass acts only when a chunk has no retry left.
ReclaimLoopExhausted ==
    /\ Q!Exhausted(Q!Expired) # {}
    /\ Q!ReclaimExpiredChunks
    /\ AssembleIfDone
    /\ UNCHANGED <<runner, phase, files, lock, job, faults, lapses>>

\* One job of a pass of _reclaim_loop.
ReclaimLoop ==
    /\ Q!ReclaimExpiredChunks
    /\ IF Q!Exhausted(Q!Expired) # {} THEN AssembleIfDone ELSE UNCHANGED asm
    /\ UNCHANGED <<runner, phase, files, lock, job, faults, lapses>>

\* _handle_dead_replica: no heartbeat for REPLICA_DEAD_THRESHOLD_SEC from a replica that
\* is gone, or, by a fault, from one that is not.
DeclareDead(r) ==
    /\ job \notin Terminal /\ phase[r] = "running"
    /\ IF Up(r) THEN Fault ELSE UNCHANGED faults
    /\ IF Q!OwnedBy({r}) = {}
       THEN /\ phase' = [phase EXCEPT ![r] = "completed"]
            /\ UNCHANGED <<queue, asm>>
       ELSE /\ phase' = [phase EXCEPT ![r] = "dead"]
            /\ Q!ForceReclaim({r})
            /\ AssembleIfDone
    /\ UNCHANGED <<runner, files, lock, job, lapses>>

\* The sidecar of a replica declared dead is heard from again.
Heartbeat(r) ==
    /\ Up(r) /\ phase[r] = "dead"
    /\ phase' = [phase EXCEPT ![r] = "running"]
    /\ UNCHANGED <<queue, runner, files, asm, lock, job, faults, lapses>>

\* _do_kill, for an operator or Koi: nothing asks afterwards whether all is done.
Kill(r) ==
    /\ phase[r] = "running" /\ Fault
    /\ phase' = [phase EXCEPT ![r] = "killed"]
    /\ IF Q!OwnedBy({r}) = {} THEN UNCHANGED queue ELSE Q!ForceReclaim({r})
    /\ UNCHANGED <<runner, files, asm, lock, job, lapses>>

-----------------------------------------------------------------------------
(* _assemble_output.                                                       *)

\* Fault: SET without NX.
LockFreeAlways == TRUE
LockFree == ~lock

\* Up to the first download, the task does not await.  A job whose metadata is gone
\* leaves the lock behind.
AssemblyStarts(i) ==
    /\ asm[i].pc = "spawned"
    /\ IF LockFree
       THEN /\ lock' = TRUE
            /\ IF meta
               THEN /\ asm' = [asm EXCEPT ![i] = [pc |-> "collect", todo |-> Chunks \ failed,
                                                  missed |-> {}]]
                    /\ combined' = {} /\ onDisk' = TRUE
               ELSE asm' = [asm EXCEPT ![i] = NoTask] /\ UNCHANGED <<combined, onDisk>>
       ELSE asm' = [asm EXCEPT ![i] = NoTask] /\ UNCHANGED <<lock, combined, onDisk>>
    /\ UNCHANGED <<queue, runner, phase, outputs, final, blank, job, faults, lapses>>

\* The awaited downloads, appended to the file; one that fails is noted.
Collect(i) ==
    /\ asm[i].pc = "collect"
    /\ \E found \in SUBSET (asm[i].todo \cap outputs) :
         /\ IF found = asm[i].todo \cap outputs THEN UNCHANGED faults ELSE Fault
         /\ combined' = combined \cup found
         /\ asm' = [asm EXCEPT ![i] = [pc |-> "upload", todo |-> {}, missed |-> @.todo \ found]]
    /\ UNCHANGED <<queue, runner, phase, outputs, onDisk, final, blank, lock, job, lapses>>

\* Fault: missing chunks do not count.
VerdictBlind(i) == "succeeded"
Verdict(i) == IF asm[i].missed = {} THEN "succeeded" ELSE "failed"

\* The combined file is uploaded and removed, the job gets its verdict and its keys
\* are deleted, the lock with them.  An error after that (metrics, webhook, the rename
\* of the job's directory) turns the verdict into "failed".
AssemblyEnds(i) ==
    /\ asm[i].pc = "upload" /\ onDisk
    /\ final' = combined /\ onDisk' = FALSE /\ combined' = {}
    /\ \/ job' = Verdict(i) /\ UNCHANGED faults
       \/ job' = "failed" /\ Fault
    /\ Q!DeleteKeys
    /\ lock' = FALSE
    /\ asm' = [asm EXCEPT ![i] = NoTask]
    /\ UNCHANGED <<runner, phase, outputs, blank, lapses>>

\* Anything raised before the verdict, by or after the upload, or by a file that another
\* assembly removed.  The job is failed, the lock released, and the queue stays.
AssemblyRaises(i) ==
    /\ asm[i].pc \in {"collect", "upload"}
    /\ IF asm[i].pc = "upload" /\ ~onDisk THEN UNCHANGED faults ELSE Fault
    /\ \/ UNCHANGED final
       \/ asm[i].pc = "upload" /\ onDisk /\ final' = combined
    /\ job' = "failed" /\ lock' = FALSE /\ onDisk' = FALSE /\ combined' = {}
    /\ asm' = [asm EXCEPT ![i] = NoTask]
    /\ UNCHANGED <<queue, runner, phase, outputs, blank, lapses>>

\* The five minutes of the lock are over.
LockLapses ==
    /\ lock /\ lapses < MaxLapses
    /\ lock' = FALSE /\ lapses' = lapses + 1
    /\ UNCHANGED <<queue, runner, phase, files, asm, job, faults>>

RunnerStep(r) == \/ PullChunk(r) \/ PullEmpty(r) \/ Wait(r) \/ Exit(r)
                 \/ TakePrefetched(r) \/ TakeBlank(r)
                 \/ Upload(r) \/ UploadFails(r)
                 \/ CompleteChunk(r) \/ ReportFails(r)

AssemblyStep(i) == AssemblyStarts(i) \/ Collect(i) \/ AssemblyEnds(i) \/ AssemblyRaises(i)

Next == \/ \E r \in Replicas : \/ RunnerStep(r) \/ Crash(r) \/ TearDown(r)
                               \/ DeclareDead(r) \/ Heartbeat(r) \/ Kill(r)
        \/ \E r \in Replicas, slot \in Slots : Renew(r, slot)
        \/ \E c \in Chunks : LeaseExpires(c)
        \/ \E i \in Assemblies : AssemblyStep(i)
        \/ ReclaimLoop
        \/ LockLapses

Spec == Init /\ [][Next]_vars

\* What goes on without a fault goes on: a runner that is up takes its next step, time
\* passes, the reclaim loop comes round and a task is resumed after an await.  Nothing is
\* assumed of renewals, machines, operators or the watchdog.
Fairness == /\ \A r \in Replicas : WF_vars(RunnerStep(r) /\ UNCHANGED faults)
            /\ \A c \in Chunks : WF_vars(LeaseExpires(c) /\ UNCHANGED faults)
            /\ \A i \in Assemblies : WF_vars(AssemblyStep(i) /\ UNCHANGED faults)
            /\ WF_vars(ReclaimLoop)

FairSpec == Spec /\ Fairness

-----------------------------------------------------------------------------
(* Properties.                                                             *)

TypeOK ==
    /\ Q!TypeOK
    /\ runner \in [Replicas -> [up : BOOLEAN, prefetch : Chunks \cup {"pulling", "empty"},
                                work : Chunks \cup {"none"}, stage : {"none", "run", "report"},
                                stolen : SUBSET Slots]]
    /\ \A r \in Replicas : (runner[r].work = "none") <=> (runner[r].stage = "none")
    /\ phase \in [Replicas -> {"running", "completed", "dead", "killed"}]
    /\ outputs \cup combined \cup final \cup blank \subseteq Chunks
    /\ asm \in [Assemblies -> [pc : {"none", "spawned", "collect", "upload"},
                              todo : SUBSET Chunks, missed : SUBSET Chunks]]
    /\ onDisk \in BOOLEAN /\ lock \in BOOLEAN
    /\ job \in {"active"} \cup Terminal
    /\ faults \in 0..MaxFaults /\ lapses \in 0..MaxLapses

\* Whatever runners, handlers, loops and assemblies do together is something the
\* queue's most general callers may do: only chunks that were handed out are reported,
\* and cleanup_job is only reached when all is done or the keys are gone already.  What
\* is proved of ChunkQueue therefore holds of the system.
LegalCalls == Q!Spec

Assembling == {i \in Assemblies : asm[i].pc \in {"collect", "upload"}}

\* The comment on the lock (server.py:1041): "Assembly-once guard: prevent two concurrent
\* triggers ... from both running assembly".
AssembledOnce == Cardinality(Assembling) <= 1

\* However many reports, reclaims and declared deaths find the job all done, one
\* assembly at a time reads outputs and writes the combined file, as long as no lock's
\* five minutes ran out on a running one.
OneAssembly == lapses = 0 => AssembledOnce

\* A job is only called succeeded with an output.jsonl that has every chunk but those
\* whose retries were exhausted.
SuccessIsComplete ==
    [][job' = "succeeded" /\ job # "succeeded" =>
         \A c \in Chunks : c \in final' \/ retry_count[c] >= MaxRetries]_vars

\* A completed chunk has its output in S3, through lost answers, stolen leases, failed
\* uploads and crashes, unless its input could not be downloaded.
CompletedHasOutput == completed \subseteq outputs \cup blank

\* When the last chunk is completed the job is assembled, and gets a verdict.
CompletedIsAssembled == (meta /\ completed = Chunks) ~> (job \in Terminal)

\* No chunk stays leased for ever: not one whose answer was lost, whose replica is gone,
\* that was dropped after a failed upload, or that was completed before it was pulled
\* again.
EveryLeaseEnds == \A c \in Chunks : (c \in inflight) ~> (c \notin inflight)

\* _reclaim_loop's comment (server.py:222): "If reclaim pushed a job to all_done, trigger
\* assembly".  A pull on an empty queue reclaims too, and so does a kill; neither asks.
AllDoneIsAssembled == Q!AllDone ~> (job \in Terminal)

\* The runner's loop says of a replica that signalled replica_complete while it waited,
\* and then was given a chunk: "Got reclaimed chunk after idle - resuming".  The control
\* plane has meanwhile scheduled its teardown.
ResumedReplicaKept ==
    [][\A r \in Replicas : phase[r] = "completed" /\ runner[r].work \in Chunks
          => runner'[r].up \/ faults' # faults]_vars
===============================================================================
