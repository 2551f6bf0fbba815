--------------------------------- MODULE Orca ---------------------------------
(***************************************************************************)
(* The plan executor (src/tandemn_orca/orca.py) over the stores it shares  *)
(* with the planner, the Kubernetes objects of its jobs and the chunk      *)
(* manager.                                                                *)
(*                                                                         *)
(* The executor is one thread that repeats five passes.  `at` says which   *)
(* call it makes next: between any two calls the planner may write a plan, *)
(* a user may cancel a job, a chunk job may end and the process may crash, *)
(* which forgets everything but the stores and the cluster.  A call may    *)
(* raise; what catches the exception decides what is skipped.              *)
(*                                                                         *)
(* Stores are modelled by what orca.py relies on: `transition` and         *)
(* set_rank_status compare and set, launch_ranks upserts rows.  The event  *)
(* log, error texts and the size of a rank are left out: objects and chain *)
(* associations are those of a whole rank.                                 *)
(***************************************************************************)
EXTENDS Naturals, FiniteSets, Sequences

CONSTANTS Jobs, Ranks,
          JobOf,        \* the job that each rank id belongs to
          PlanShapes,   \* the plans the planner may write, sequences of actions
          DownPolls,    \* down_polls_before_failed
          MaxPlans, MaxCrashes, MaxErrors   \* bounds

RanksOf(j) == {r \in Ranks : JobOf[r] = j}

\* Rank ids are minted for a job, and a ladder names those of its job: the entries that
\* ladder_to_ranks keeps.  One that keeps none, or raises, is the empty ladder.
Actions == {a \in [type : {"place", "swap", "preempt"}, job : Jobs, ladder : SUBSET Ranks] :
               a.ladder \subseteq RanksOf(a.job)}

ASSUME OrcaAssumption ==
    /\ JobOf \in [Ranks -> Jobs]
    /\ PlanShapes \subseteq Seq(Actions)
    /\ DownPolls \in Nat \ {0}
    /\ MaxPlans \in Nat /\ MaxCrashes \in Nat /\ MaxErrors \in Nat

VARIABLES kind,      \* kind of each job row, never written
          job,       \* its status
          cancelled, \* jobs finished with reason CANCELLED
          rank,      \* status of each rank row, "none" without one
          plans,     \* the plans written so far
          applied,   \* indices of the plans with applied set
          ended,     \* batch jobs the chunk manager reports terminal
          objects,   \* ranks with objects in a cluster
          assoc,     \* ranks with chain associations in the chunk manager
          at,        \* the executor's next call
          queue,     \* indices of the unapplied plans this pass has still to apply
          act,       \* remaining actions of the plan being applied
          old,       \* active ranks read before the action changed any
          prev,      \* the job's status before a place
          left,      \* jobs this pass has still to visit, as it read them
          told,      \* _cancelled_chunk_jobs
          polled,    \* ranks this health pass counts as active
          streak,    \* _down_streak
          served,    \* _served_rank_ids
          crashes, errors

stores == <<kind, job, cancelled, rank, plans, applied>>
cluster == <<ended, objects, assoc>>
memory == <<told, streak, served, polled>>
locals == <<queue, act, old, prev, left>>
vars == <<stores, cluster, at, locals, memory, crashes, errors>>

JobStatus == {"waiting", "running", "paused", "finished"}
RankStatus == {"none", "launching", "running", "failed", "stopped"}
ActiveStatuses == {"launching", "running"}
ActiveRanks(j) == {r \in RanksOf(j) : rank[r] \in ActiveStatuses}
FailedRanks(j) == {r \in RanksOf(j) : rank[r] = "failed"}

Batch == {j \in Jobs : kind[j] = "batch"}

Init == /\ kind \in [Jobs -> {"batch", "online"}] /\ cancelled = {}
        /\ job = [j \in Jobs |-> "waiting"]
        /\ rank = [r \in Ranks |-> "none"]
        /\ plans = <<>> /\ applied = {}
        /\ ended = {} /\ objects = {} /\ assoc = {}
        /\ at = "apply_pending"
        /\ queue = {} /\ act = <<>> /\ old = {} /\ prev = "none" /\ left = {}
        /\ told = {} /\ polled = {} /\ streak = [r \in Ranks |-> 0] /\ served = {}
        /\ crashes = 0 /\ errors = 0

\* Fault: a status is written without comparing it first.
TransitionAlways(j, to, expected) == job' = [job EXCEPT ![j] = to]
\* JobStore.transition: a compare-and-set.
Transition(j, to, expected) ==
    job' = IF job[j] \in expected THEN [job EXCEPT ![j] = to] ELSE job

\* JobStore.set_rank_status for the ranks in S.
SetRanks(S, to, expected) ==
    rank' = [r \in Ranks |-> IF r \in S /\ rank[r] \in expected THEN to ELSE rank[r]]

Raises == errors < MaxErrors /\ errors' = errors + 1
Returns == UNCHANGED errors
Goto(label) == at' = label

-----------------------------------------------------------------------------
(* Everybody else.                                                         *)

\* Koi writes a plan from what it last read, which the jobs may have left behind.
WritePlan == /\ Len(plans) < MaxPlans
             /\ \E p \in PlanShapes : plans' = Append(plans, p)
             /\ UNCHANGED <<kind, job, cancelled, rank, applied, cluster, at, locals, memory, crashes, errors>>

\* A user cancels the job in the store.
Cancel(j) == /\ job[j] # "finished"
             /\ job' = [job EXCEPT ![j] = "finished"] /\ cancelled' = cancelled \cup {j}
             /\ UNCHANGED <<kind, rank, plans, applied, cluster, at, locals, memory, crashes, errors>>

\* The last chunk of a batch job is done.
ChunksEnd(j) == /\ j \in Batch \ ended
                /\ ended' = ended \cup {j}
                /\ UNCHANGED <<stores, objects, assoc, at, locals, memory, crashes, errors>>

\* A node is lost, or somebody deletes what the executor applied.
LoseObjects(r) == /\ r \in objects
                  /\ objects' = objects \ {r}
                  /\ UNCHANGED <<stores, ended, assoc, at, locals, memory, crashes, errors>>

\* The process dies and is started again: main begins with apply_pending.
Crash == /\ crashes < MaxCrashes /\ crashes' = crashes + 1
         /\ Goto("apply_pending")
         /\ queue' = {} /\ act' = <<>> /\ old' = {} /\ prev' = "none" /\ left' = {}
         /\ told' = {} /\ polled' = {} /\ streak' = [r \in Ranks |-> 0] /\ served' = {}
         /\ UNCHANGED <<stores, cluster, errors>>

-----------------------------------------------------------------------------
(* apply_pending and _apply_plan.                                          *)

ApplyPending ==
    /\ at = "apply_pending"
    /\ \/ /\ Returns
          /\ queue' = (1..Len(plans)) \ applied
          /\ Goto("plan")
       \/ Raises /\ Goto("reconcile_chunk_jobs") /\ UNCHANGED queue
    /\ UNCHANGED <<stores, cluster, act, old, prev, left, memory, crashes>>

\* The plan at hand, the oldest of the queue.
IsNext(i) == i \in queue /\ \A k \in queue : i <= k

NextPlan ==
    /\ at = "plan"
    /\ \/ queue = {} /\ Goto("reconcile_chunk_jobs") /\ UNCHANGED act
       \/ Goto("action") /\ \E i \in queue : IsNext(i) /\ act' = plans[i]
    /\ UNCHANGED <<stores, cluster, queue, old, prev, left, memory, crashes, errors>>

\* The action at hand.
A == Head(act)

\* The end of an action, or of one that raised: _apply_plan goes on to the next.
EndAction == /\ Goto("action") /\ act' = Tail(act) /\ old' = {} /\ prev' = "none"
             /\ UNCHANGED <<queue, left>>
InAction(label) == Goto(label) /\ UNCHANGED locals

\* Every action was tried; mark_applied decides whether this executor applied the plan.
\* An exception ends the pass and leaves the plan to the next one.
MarkApplied ==
    /\ at = "action" /\ act = <<>>
    /\ \/ /\ Returns /\ Goto("plan")
          /\ \E i \in queue : IsNext(i) /\ applied' = applied \cup {i} /\ queue' = queue \ {i}
       \/ Raises /\ Goto("reconcile_chunk_jobs") /\ queue' = {} /\ UNCHANGED applied
    /\ UNCHANGED <<kind, job, cancelled, rank, plans, cluster, act, old, prev, left, memory, crashes>>

\* Fault: a job in the wrong status ends the pass, not just the action.
PlaceWedges ==
    /\ at = "action" /\ act # <<>> /\ A.type = "place" /\ Returns
    /\ IF A.ladder # {} /\ job[A.job] \in {"waiting", "paused"}
       THEN /\ Transition(A.job, "running", {"waiting", "paused"})
            /\ prev' = job[A.job] /\ Goto("launch_ranks") /\ UNCHANGED <<queue, act, old, left>>
       ELSE /\ Goto("reconcile_chunk_jobs") /\ queue' = {} /\ act' = <<>>
            /\ UNCHANGED <<job, old, prev, left>>
    /\ UNCHANGED <<kind, cancelled, rank, plans, applied, cluster, memory, crashes>>

\* _place up to the transition.  Ranks are materialized first: a ladder with nothing to
\* launch raises before anything is changed, and so does a job in the wrong status.  The
\* event log is written after the transition, outside the handler that undoes it.
Place ==
    /\ at = "action" /\ act # <<>> /\ A.type = "place"
    /\ \/ /\ A.ladder # {} /\ job[A.job] \in {"waiting", "paused"} /\ Returns
          /\ Transition(A.job, "running", {"waiting", "paused"})
          /\ prev' = job[A.job] /\ Goto("launch_ranks")
          /\ UNCHANGED <<queue, act, old, left>>
       \/ /\ IF A.ladder = {} \/ job[A.job] \notin {"waiting", "paused"} THEN Returns ELSE Raises
          /\ EndAction /\ UNCHANGED job
       \/ /\ A.ladder # {} /\ job[A.job] \in {"waiting", "paused"} /\ Raises
          /\ Transition(A.job, "running", {"waiting", "paused"}) /\ EndAction
    /\ UNCHANGED <<kind, cancelled, rank, plans, applied, cluster, memory, crashes>>

\* Fault: a ladder that is already launching is taken for one that was swapped in.
SwapOnce ==
    /\ at = "action" /\ act # <<>> /\ A.type = "swap" /\ Returns
    /\ IF A.ladder # {} /\ job[A.job] = "running" /\ ~(A.ladder \subseteq ActiveRanks(A.job))
       THEN /\ old' = ActiveRanks(A.job) /\ Goto("launch_ranks")
            /\ UNCHANGED <<queue, act, prev, left>>
       ELSE EndAction
    /\ UNCHANGED <<stores, cluster, memory, crashes>>

\* _swap reads the active ranks and the job.
Swap ==
    /\ at = "action" /\ act # <<>> /\ A.type = "swap"
    /\ \/ /\ A.ladder # {} /\ job[A.job] = "running" /\ Returns
          /\ old' = ActiveRanks(A.job) /\ Goto("launch_ranks")
          /\ UNCHANGED <<queue, act, prev, left>>
       \/ /\ IF A.ladder = {} \/ job[A.job] # "running" THEN Returns ELSE Raises
          /\ EndAction
    /\ UNCHANGED <<stores, cluster, memory, crashes>>

\* _preempt reads the active ranks, whatever the job's status.
Preempt ==
    /\ at = "action" /\ act # <<>> /\ A.type = "preempt"
    /\ \/ Returns /\ old' = ActiveRanks(A.job) /\ Goto("drain")
          /\ UNCHANGED <<queue, act, prev, left>>
       \/ Raises /\ EndAction
    /\ UNCHANGED <<stores, cluster, memory, crashes>>

\* _launch_ranks: the rows are written, then the associations, then the objects.  A
\* rank that a swap keeps keeps its status.  The rows may be there when the event log
\* raises, outside the handler that fails them.
Launched == [r \in Ranks |-> IF r \in A.ladder \ old THEN "launching" ELSE rank[r]]
LaunchRanks ==
    /\ at = "launch_ranks"
    /\ \/ Returns /\ InAction("associate") /\ rank' = Launched
       \/ Raises /\ InAction("restore_job") /\ rank' \in {rank, Launched}
    /\ UNCHANGED <<kind, job, cancelled, plans, applied, cluster, memory, crashes>>

AddAssociations ==
    /\ at = "associate"
    /\ \/ /\ Returns /\ InAction("reconcile")
          /\ assoc' = IF A.job \in Batch THEN assoc \cup A.ladder ELSE assoc
       \/ /\ A.job \in Batch /\ Raises /\ InAction("fail_ranks")
          /\ \E S \in SUBSET A.ladder : assoc' = assoc \cup S
    /\ UNCHANGED <<stores, ended, objects, memory, crashes>>

\* What the launcher leaves behind: in each cluster the desired objects are applied, then
\* the stale ones deleted.  An error leaves some of either undone.
Reconciled(j, S) == (objects \ RanksOf(j)) \cup S
HalfReconciled(j, S) ==
    {(objects \cup T) \ U : T \in SUBSET S, U \in SUBSET (RanksOf(j) \ S)}

Reconcile ==
    /\ at = "reconcile"
    /\ \/ /\ Returns
          /\ objects' = Reconciled(A.job, A.ladder)
          /\ IF A.type = "swap" THEN InAction("drain") ELSE EndAction
       \/ /\ Raises /\ InAction("fail_ranks")
          /\ objects' \in HalfReconciled(A.job, A.ladder)
    /\ UNCHANGED <<stores, ended, assoc, memory, crashes>>

\* The model catalog is found invalid, before any object is applied.  A place fails the
\* job for good.
CatalogInvalid ==
    /\ at = "reconcile" /\ A.job \notin Batch /\ Raises
    /\ SetRanks(A.ladder \ old, "failed", {"launching"})
    /\ IF A.type = "place" THEN InAction("fail_job") ELSE EndAction
    /\ UNCHANGED <<kind, job, cancelled, plans, applied, cluster, memory, crashes>>

FailJob ==
    /\ at = "fail_job"
    /\ \/ Returns /\ Transition(A.job, "finished", {"running"})
       \/ Raises /\ UNCHANGED job
    /\ EndAction
    /\ UNCHANGED <<kind, cancelled, rank, plans, applied, cluster, memory, crashes>>

\* The exception handler of _launch_ranks: kept ranks get their old rows back, new ones
\* are failed one by one.
FailRanks ==
    /\ at = "fail_ranks"
    /\ InAction("restore_job")
    /\ \/ Returns /\ SetRanks(A.ladder \ old, "failed", {"launching"})
       \/ /\ Raises
          /\ \E S \in SUBSET (A.ladder \ old) : SetRanks(S, "failed", {"launching"})
    /\ UNCHANGED <<kind, job, cancelled, plans, applied, cluster, memory, crashes>>

\* The exception handler of _place puts the job back; that of _swap has nothing to do.
RestoreJob ==
    /\ at = "restore_job"
    /\ \/ /\ Returns
          /\ IF A.type = "place" THEN Transition(A.job, prev, {"running"}) ELSE UNCHANGED job
       \/ A.type = "place" /\ Raises /\ UNCHANGED job
    /\ EndAction
    /\ UNCHANGED <<kind, cancelled, rank, plans, applied, cluster, memory, crashes>>

\* Ranks that the action at hand removes.
Removed == IF A.type = "swap" THEN old \ A.ladder ELSE old

Drain ==
    /\ at = "drain"
    /\ \/ /\ Returns /\ assoc' = assoc \ Removed
          /\ InAction(IF A.type = "swap" THEN "stop_ranks" ELSE "teardown")
       \/ Raises /\ EndAction /\ \E S \in SUBSET Removed : assoc' = assoc \ S
    /\ UNCHANGED <<stores, ended, objects, memory, crashes>>

Teardown ==
    /\ at = "teardown"
    /\ \/ Returns /\ objects' = objects \ RanksOf(A.job) /\ InAction("stop_ranks")
       \/ Raises /\ EndAction
          /\ \E S \in SUBSET RanksOf(A.job) : objects' = objects \ S
    /\ UNCHANGED <<stores, ended, assoc, memory, crashes>>

\* Fault: after a swap nothing is stopped.
StopRanksNot ==
    /\ at = "stop_ranks"
    /\ Returns /\ UNCHANGED rank
    /\ IF A.type = "swap" THEN EndAction ELSE InAction("pause")
    /\ UNCHANGED <<kind, job, cancelled, plans, applied, cluster, memory, crashes>>

StopRanks ==
    /\ at = "stop_ranks"
    /\ \/ /\ Returns /\ SetRanks(Removed, "stopped", ActiveStatuses)
          /\ IF A.type = "swap" THEN EndAction ELSE InAction("pause")
       \/ /\ Raises /\ EndAction
          /\ \E S \in SUBSET Removed : SetRanks(S, "stopped", ActiveStatuses)
    /\ UNCHANGED <<kind, job, cancelled, plans, applied, cluster, memory, crashes>>

Pause ==
    /\ at = "pause"
    /\ \/ Returns /\ Transition(A.job, "paused", {"running"})
       \/ Raises /\ UNCHANGED job
    /\ EndAction
    /\ UNCHANGED <<kind, cancelled, rank, plans, applied, cluster, memory, crashes>>

-----------------------------------------------------------------------------
(* The reconcile passes.  Each reads its jobs once, with their active ranks, *)
(* and visits them in any order.                                            *)

AsRead(S) == {[job |-> j, ranks |-> ActiveRanks(j)] : j \in S}
Running == {j \in Jobs : job[j] = "running"}

\* A pass begins, or its first read raises and main goes on to the next pass.
Begin(pass, visit, S, after) ==
    /\ at = pass
    /\ \/ Returns /\ left' = AsRead(S) /\ Goto(visit)
       \/ Raises /\ left' = {} /\ Goto(after)
    /\ old' = {}
    /\ UNCHANGED <<stores, cluster, queue, act, prev, told, streak, served, crashes>>

Visited(v) == left' = left \ {v} /\ UNCHANGED <<queue, act, old, prev>>
Aborted(after) == /\ left' = {} /\ old' = {} /\ Goto(after)
                  /\ UNCHANGED <<queue, act, prev>>
EndPass(visit, after) ==
    /\ at = visit /\ left = {}
    /\ Goto(after)
    /\ UNCHANGED <<stores, cluster, locals, crashes, errors>>

\* reconcile_chunk_jobs: one get_job and one transition per running batch job.
BeginChunkJobs == /\ Begin("reconcile_chunk_jobs", "chunk_job", Running \cap Batch,
                           "reconcile_finished")
                  /\ UNCHANGED polled
ChunkJob ==
    \/ /\ at = "chunk_job"
       /\ \E v \in left :
            /\ Visited(v) /\ Goto("chunk_job")
            /\ \/ /\ Returns
                  /\ IF v.job \in ended THEN Transition(v.job, "finished", {"running"})
                     ELSE UNCHANGED job
               \/ Raises /\ UNCHANGED job
       /\ UNCHANGED <<kind, cancelled, rank, plans, applied, cluster, memory, crashes>>
    \/ EndPass("chunk_job", "reconcile_finished") /\ UNCHANGED memory

\* reconcile_finished: active ranks of finished jobs lose their objects, then their
\* status.  Any exception ends the pass.
BeginFinished == /\ Begin("reconcile_finished", "finished_job",
                          {j \in Jobs : job[j] = "finished"}, "reconcile_running")
                 /\ UNCHANGED polled

\* The chunk manager is told once per process of a job that was cancelled.
MustTell(j) == j \in (Batch \cap cancelled) \ told

\* Fault: the job is remembered before the call.
CancelChunksEarly ==
    /\ at = "finished_job"
    /\ \E v \in left :
         /\ MustTell(v.job) /\ told' = told \cup {v.job}
         /\ \/ Returns /\ ended' = ended \cup {v.job} /\ UNCHANGED <<at, locals>>
            \/ Raises /\ Aborted("reconcile_running") /\ UNCHANGED ended
    /\ UNCHANGED <<stores, objects, assoc, streak, served, polled, crashes>>

CancelChunks ==
    /\ at = "finished_job"
    /\ \E v \in left :
         /\ MustTell(v.job)
         /\ \/ /\ Returns /\ ended' = ended \cup {v.job} /\ told' = told \cup {v.job}
               /\ UNCHANGED <<at, locals>>
            \/ Raises /\ Aborted("reconcile_running") /\ UNCHANGED <<ended, told>>
    /\ UNCHANGED <<stores, objects, assoc, streak, served, polled, crashes>>

FinishedJob ==
    \/ /\ at = "finished_job"
       /\ \E v \in {w \in left : ~MustTell(w.job)} :
            LET active == ActiveRanks(v.job)
            IN \/ /\ active = {} /\ Returns /\ Visited(v) /\ Goto("finished_job")
                  /\ UNCHANGED objects
               \/ /\ active # {} /\ Returns
                  /\ objects' = objects \ RanksOf(v.job)
                  /\ left' = left \ {v} /\ old' = active /\ Goto("finished_ranks")
                  /\ UNCHANGED <<queue, act, prev>>
               \/ /\ Raises /\ Aborted("reconcile_running")
                  /\ \E S \in SUBSET RanksOf(v.job) :
                        objects' = IF active = {} THEN objects ELSE objects \ S
       /\ UNCHANGED <<stores, ended, assoc, memory, crashes>>
    \/ EndPass("finished_job", "reconcile_running") /\ UNCHANGED memory

FinishedRanks ==
    /\ at = "finished_ranks"
    /\ \/ /\ Returns /\ SetRanks(old, "stopped", ActiveStatuses)
          /\ old' = {} /\ Goto("finished_job") /\ UNCHANGED <<queue, act, prev, left>>
       \/ /\ Raises /\ Aborted("reconcile_running")
          /\ \E S \in SUBSET old : SetRanks(S, "stopped", ActiveStatuses)
    /\ UNCHANGED <<kind, job, cancelled, plans, applied, cluster, memory, crashes>>

\* reconcile_running: the objects of active ranks are restored, from the ranks as read
\* when the pass began; an exception ends the pass.
BeginRunning == /\ Begin("reconcile_running", "running_job", Running, "reconcile_rank_health")
                /\ UNCHANGED polled
RestoreRunning ==
    /\ at = "running_job"
    /\ \E v \in left :
         /\ v.ranks # {}
         /\ \/ /\ Returns /\ Visited(v) /\ Goto("running_job")
               /\ assoc' = IF v.job \in Batch THEN assoc \cup v.ranks ELSE assoc
               /\ objects' = Reconciled(v.job, v.ranks)
            \/ /\ Raises /\ Aborted("reconcile_rank_health")
               /\ \E S \in SUBSET v.ranks :
                     assoc' = IF v.job \in Batch THEN assoc \cup S ELSE assoc
               /\ objects' \in HalfReconciled(v.job, v.ranks)
    /\ UNCHANGED <<stores, ended, memory, crashes>>

\* A job without active ranks, of which some failed, is torn down and requeued.  A
\* teardown that raises is caught, and the job is left for the next pass.
TearDownFailed ==
    \/ /\ at = "running_job"
       /\ \E v \in left :
            /\ v.ranks = {}
            /\ \/ /\ FailedRanks(v.job) = {} /\ Returns /\ Visited(v) /\ Goto("running_job")
                  /\ UNCHANGED <<objects, assoc>>
               \/ /\ FailedRanks(v.job) # {} /\ Returns /\ Goto("requeue")
                  /\ old' = FailedRanks(v.job) /\ UNCHANGED <<queue, act, prev, left>>
                  /\ assoc' = assoc \ FailedRanks(v.job)
                  /\ objects' = objects \ RanksOf(v.job)
               \/ /\ FailedRanks(v.job) # {} /\ Raises /\ Visited(v) /\ Goto("running_job")
                  /\ \E S \in SUBSET FailedRanks(v.job) : assoc' = assoc \ S
                  /\ \E S \in SUBSET RanksOf(v.job) : objects' = objects \ S
       /\ UNCHANGED <<stores, ended, memory, crashes>>
    \/ EndPass("running_job", "reconcile_rank_health") /\ UNCHANGED memory

Requeue ==
    /\ at = "requeue"
    /\ \E v \in left :
         /\ old \subseteq RanksOf(v.job)
         /\ \/ /\ Returns /\ Transition(v.job, "waiting", {"running"})
               /\ left' = left \ {v} /\ old' = {} /\ Goto("running_job")
               /\ UNCHANGED <<queue, act, prev>>
            \/ /\ Raises /\ Aborted("reconcile_rank_health")
               /\ UNCHANGED job \/ Transition(v.job, "waiting", {"running"})
    /\ UNCHANGED <<kind, cancelled, rank, plans, applied, cluster, memory, crashes>>

-----------------------------------------------------------------------------
(* reconcile_rank_health.                                                  *)

BeginHealth ==
    /\ at = "reconcile_rank_health"
    /\ \/ /\ Returns /\ Goto("poll")
          /\ left' = {[job |-> JobOf[r], ranks |-> {r}] : r \in UNION {ActiveRanks(j) : j \in Running}}
       \/ Raises /\ Goto("apply_pending") /\ left' = {}
    /\ polled' = {}
    /\ UNCHANGED <<stores, cluster, queue, act, old, prev, told, streak, served, crashes>>

\* What a poll can read of a rank: workers ready, none ready, a failure stated by the
\* operator or by the pods, or a specification the operator has not looked at yet.
Readings(r) ==
    LET batch == JobOf[r] \in Batch
    IN IF r \in objects THEN {"ready", "silent", "broken"} \cup (IF batch THEN {} ELSE {"pending"})
       ELSE IF batch THEN {"silent"} ELSE {"broken"}

EverServed(r) == rank[r] = "running" \/ r \in served

\* rank_health and batch_rank_health.
Verdict(r, reading) ==
    CASE reading = "ready" -> "serving"
      [] reading = "broken" \/ (reading = "silent" /\ EverServed(r)) -> "down"
      [] OTHER -> "unknown"

\* The counter is only compared with DownPolls, so it stops there.
StreakAfter(r, verdict) ==
    IF verdict # "down" THEN 0 ELSE IF streak[r] < DownPolls THEN streak[r] + 1 ELSE streak[r]

\* The status that a conclusive verdict gives a rank.
Record(r, verdict) == IF verdict = "serving" THEN SetRanks({r}, "running", {"launching"})
                      ELSE SetRanks({r}, "failed", ActiveStatuses)

\* One rank of the pass.  A write that raises, or the event after it, ends the pass and
\* with it the clearing of memory at its end.  A read that raises is caught: it is one of
\* a batch rank, or one of a cluster with some ranks of an online job, which then do not
\* count as active.
Poll ==
    /\ at = "poll"
    /\ \E v \in left : \E r \in v.ranks :
         \/ \E reading \in Readings(r) :
              LET verdict == Verdict(r, reading)
                  writes == \/ verdict = "serving" /\ rank[r] = "launching"
                            \/ verdict = "down" /\ streak'[r] = DownPolls
              IN /\ streak' = [streak EXCEPT ![r] = StreakAfter(r, verdict)]
                 /\ served' = IF verdict = "serving" THEN served \cup {r} ELSE served
                 /\ \/ /\ Returns /\ Visited(v) /\ Goto("poll") /\ polled' = polled \cup {r}
                       /\ IF writes THEN Record(r, verdict) ELSE UNCHANGED rank
                    \/ /\ writes /\ Raises /\ Aborted("apply_pending") /\ polled' = {}
                       /\ UNCHANGED rank \/ Record(r, verdict)
         \/ /\ v.job \in Batch /\ Raises /\ Visited(v) /\ Goto("poll")
            /\ polled' \in {polled, polled \cup {r}}
            /\ UNCHANGED <<rank, streak, served>>
         \/ /\ v.job \notin Batch /\ Raises /\ Goto("poll")
            /\ \E S \in SUBSET {w \in left : w.job = v.job} : left' = left \ (S \cup {v})
            /\ UNCHANGED <<queue, act, old, prev, polled, rank, streak, served>>
    /\ UNCHANGED <<kind, job, cancelled, plans, applied, cluster, told, crashes>>

\* What is remembered of ranks that this pass did not visit is forgotten.
EndHealth ==
    /\ EndPass("poll", "apply_pending")
    /\ streak' = [r \in Ranks |-> IF r \in polled THEN streak[r] ELSE 0]
    /\ served' = served \cap polled /\ polled' = {} /\ UNCHANGED told

-----------------------------------------------------------------------------
Executor == \/ ApplyPending \/ NextPlan \/ MarkApplied
            \/ Place \/ Swap \/ Preempt
            \/ LaunchRanks \/ AddAssociations \/ Reconcile \/ CatalogInvalid
            \/ FailJob \/ FailRanks \/ RestoreJob
            \/ Drain \/ Teardown \/ StopRanks \/ Pause
            \/ BeginChunkJobs \/ ChunkJob \/ BeginFinished \/ CancelChunks \/ FinishedJob \/ FinishedRanks
            \/ BeginRunning \/ RestoreRunning \/ TearDownFailed \/ Requeue
            \/ BeginHealth \/ Poll \/ EndHealth

Next == \/ Executor
        \/ Crash
        \/ WritePlan
        \/ \E j \in Jobs : Cancel(j) \/ ChunksEnd(j)
        \/ \E r \in Ranks : LoseObjects(r)

Spec == Init /\ [][Next]_vars

\* main loops for ever; its calls return, but for the bounded errors.
FairSpec == Spec /\ WF_vars(Executor /\ UNCHANGED errors)

-----------------------------------------------------------------------------
(* Properties.                                                             *)

StoresOK == /\ kind \in [Jobs -> {"batch", "online"}] /\ cancelled \subseteq Jobs
            /\ job \in [Jobs -> JobStatus] /\ rank \in [Ranks -> RankStatus]
            /\ plans \in Seq(PlanShapes) /\ applied \subseteq 1..Len(plans)
ClusterOK == ended \subseteq Batch /\ objects \subseteq Ranks /\ assoc \subseteq Ranks
LocalsOK == /\ queue \subseteq 1..Len(plans) /\ act \in Seq(Actions) /\ old \subseteq Ranks
            /\ prev \in {"none", "waiting", "paused"}
            /\ \A v \in left : v.job \in Jobs /\ v.ranks \subseteq Ranks
MemoryOK == /\ told \subseteq cancelled /\ polled \subseteq Ranks /\ served \subseteq Ranks
            /\ streak \in [Ranks -> 0..DownPolls]
BoundsOK == crashes \in 0..MaxCrashes /\ errors \in 0..MaxErrors

TypeOK == StoresOK /\ ClusterOK /\ LocalsOK /\ MemoryOK /\ BoundsOK

\* A finished job stays finished, whoever finished it and wherever the executor was: a
\* cancellation between a handler's read and its write is not undone by the restored
\* status of a failed place, a pause or a requeue.
FinishedIsFinal == [][\A j \in Jobs : job[j] = "finished" => job'[j] = "finished"]_vars

\* A paused job holds no rank, whatever was cancelled, requeued or crashed while the
\* executor was busy with it.
PausedHoldsNothing ==
    errors = 0 => \A j \in Jobs : job[j] = "paused" => ActiveRanks(j) = {}

\* However often the executor crashed inside a swap, once the plan is marked applied the
\* job has no active rank outside the new ladder.
SwapSurvivesCrashes ==
    [][\A i \in applied' \ applied : \A k \in 1..Len(plans[i]) :
          LET a == plans[i][k]
          IN a.type = "swap" /\ job'[a.job] = "running" /\ errors' = 0
                /\ (\A m \in (k + 1)..Len(plans[i]) : plans[i][m].job # a.job)
                /\ ActiveRanks(a.job)' \cap a.ladder # {}
             => ActiveRanks(a.job)' \subseteq a.ladder]_vars

\* "One bad action must not wedge the plan": every plan is applied in the end, whatever
\* its actions meet.
PlansGetApplied == \A i \in 1..MaxPlans : (Len(plans) >= i) ~> (i \in applied)

\* A finished job gives its ranks back.
FinishedReleases ==
    \A j \in Jobs : (job[j] = "finished") ~> (ActiveRanks(j) = {})

\* A cancelled batch job is cancelled in the chunk manager too, though the call may raise
\* and the process that made it may crash.
CancelReachesChunks ==
    \A j \in Jobs : (j \in Batch \cap cancelled) ~> (j \in ended)

\* The objects of a running job come to be those of its active ranks, whatever was lost in
\* the cluster and whatever a launch that raised left there.
ObjectsFollowRanks ==
    \A j \in Jobs : (job[j] = "running" /\ ActiveRanks(j) # {})
        ~> (job[j] # "running" \/ ActiveRanks(j) \in {{}, objects \cap RanksOf(j)})

\* A running job whose ranks all failed is requeued, or gets other ranks.
FailedIsRequeued ==
    \A j \in Jobs : (job[j] = "running" /\ ActiveRanks(j) = {} /\ FailedRanks(j) # {})
                        ~> (job[j] # "running" \/ ActiveRanks(j) # {})

\* _place's docstring: "waiting|paused -> running: record the ladder's ranks and apply
\* DGDs".  A job does not stay running without a rank.
RunningHasRanks ==
    \A j \in Jobs : (job[j] = "running" /\ ActiveRanks(j) = {})
                        ~> (job[j] # "running" \/ ActiveRanks(j) # {})

\* The comment at the end of reconcile_rank_health: "a relaunched rank_id starts clean
\* rather than inheriting a stale streak".
RelaunchStartsClean ==
    [][\A r \in Ranks : rank[r] = "failed" /\ rank'[r] = "launching"
          => streak[r] = 0]_vars
===============================================================================
