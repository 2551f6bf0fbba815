----------------------------- MODULE OrcaProofs -----------------------------
(***************************************************************************)
(* Proofs about Orca, for any jobs, ranks and plans, any debounce and any  *)
(* number of plans, crashes and calls that raise.                          *)
(***************************************************************************)
EXTENDS Orca, SequenceTheorems, TLAPS

\* The calls an action of a plan consists of.
Placing == {"launch_ranks", "associate", "reconcile", "fail_ranks", "restore_job"}
Removing == {"drain", "teardown", "stop_ranks"}

\* What the executor's next call says about its locals.
ControlOK ==
    /\ at \in Placing \cup Removing \cup {"fail_job", "pause"} => act # <<>>
    /\ at \in Placing /\ A.type = "place" => prev # "none"
    /\ at = "launch_ranks" => job[A.job] \in {"running", "finished"}
    /\ at \in {"fail_ranks", "restore_job", "fail_job"} => errors > 0
    /\ at \in Removing /\ A.type # "swap" => ActiveRanks(A.job) \subseteq old
    /\ at = "pause" /\ errors = 0 => ActiveRanks(A.job) = {}

IInv == TypeOK /\ ControlOK /\ PausedHoldsNothing

-----------------------------------------------------------------------------
\* The action at hand is one of those a plan may hold.
LEMMA ActionAtHand ==
  ASSUME TypeOK, act # <<>>
  PROVE  /\ A \in Actions /\ Tail(act) \in Seq(Actions)
         /\ A.job \in Jobs /\ A.ladder \subseteq RanksOf(A.job) /\ RanksOf(A.job) \subseteq Ranks
         /\ A.type \in {"place", "swap", "preempt"}
<1>1. act \in Seq(Actions)
  BY DEF TypeOK, LocalsOK
<1>2. A \in Actions /\ Tail(act) \in Seq(Actions)
  BY <1>1, HeadTailProperties DEF A
<1> QED
  BY <1>2 DEF Actions, RanksOf

\* What a compare-and-set does to the jobs.
LEMMA Transitions ==
  ASSUME TypeOK, NEW j \in Jobs, NEW to, NEW expected, Transition(j, to, expected)
  PROVE  /\ \A k \in Jobs : job'[k] = IF k = j /\ job[j] \in expected THEN to ELSE job[k]
         /\ to \in JobStatus => job' \in [Jobs -> JobStatus]
BY DEF TypeOK, StoresOK, Transition

\* What it does to the ranks: none becomes active that was not.
LEMMA RankWrites ==
  ASSUME TypeOK, NEW S, NEW to \in RankStatus, NEW expected,
         SetRanks(S, to, expected), expected \subseteq ActiveStatuses
  PROVE  /\ rank' \in [Ranks -> RankStatus]
         /\ \A j \in Jobs : ActiveRanks(j)' \subseteq ActiveRanks(j)
BY DEF TypeOK, StoresOK, SetRanks, ActiveRanks, RanksOf

-----------------------------------------------------------------------------
(* Types.                                                                  *)

\* Every write to the stores writes a status they may hold, and marks a plan that exists.

LEMMA StoresKept ==
  ASSUME TypeOK, ControlOK, [Next]_vars
  PROVE  StoresOK'
<1> USE OrcaAssumption
<1>1. CASE WritePlan
  BY <1>1 DEF WritePlan, TypeOK, StoresOK
<1>2. ASSUME NEW j \in Jobs, Cancel(j)
      PROVE  StoresOK'
  BY <1>2 DEF Cancel, TypeOK, StoresOK, JobStatus
<1>3. CASE MarkApplied
  BY <1>3 DEF MarkApplied, TypeOK, StoresOK, LocalsOK
<1>4. CASE Place
  <2>1. A.job \in Jobs
    BY <1>4, ActionAtHand DEF Place
  <2>2. job' \in [Jobs -> JobStatus]
    BY <1>4, <2>1, Transitions DEF Place, JobStatus, TypeOK, StoresOK
  <2> QED
    BY <1>4, <2>2 DEF Place, TypeOK, StoresOK
<1>5. CASE FailJob
  <2>1. A.job \in Jobs
    BY <1>5, ActionAtHand DEF FailJob, ControlOK
  <2>2. job' \in [Jobs -> JobStatus]
    BY <1>5, <2>1, Transitions DEF FailJob, JobStatus, TypeOK, StoresOK
  <2> QED
    BY <1>5, <2>2 DEF FailJob, TypeOK, StoresOK
<1>6. CASE Pause
  <2>1. A.job \in Jobs
    BY <1>6, ActionAtHand DEF Pause, ControlOK
  <2>2. job' \in [Jobs -> JobStatus]
    BY <1>6, <2>1, Transitions DEF Pause, JobStatus, TypeOK, StoresOK
  <2> QED
    BY <1>6, <2>2 DEF Pause, TypeOK, StoresOK
<1>7. CASE RestoreJob
  <2>1. A.job \in Jobs
    BY <1>7, ActionAtHand DEF RestoreJob, ControlOK, Placing
  <2>2. job' \in [Jobs -> JobStatus]
    <3>1. A.type = "place" => prev \in {"waiting", "paused"}
      BY <1>7 DEF RestoreJob, ControlOK, Placing, TypeOK, LocalsOK
    <3> QED
      BY <1>7, <2>1, <3>1, Transitions DEF RestoreJob, JobStatus, TypeOK, StoresOK
  <2> QED
    BY <1>7, <2>2 DEF RestoreJob, TypeOK, StoresOK
<1>8. CASE LaunchRanks
  BY <1>8 DEF LaunchRanks, Launched, RankStatus, TypeOK, StoresOK
<1>9. CASE CatalogInvalid
  <2>1. rank' \in [Ranks -> RankStatus]
    BY <1>9, RankWrites DEF CatalogInvalid, RankStatus, ActiveStatuses, TypeOK, StoresOK
  <2> QED
    BY <1>9, <2>1 DEF CatalogInvalid, TypeOK, StoresOK
<1>10. CASE FailRanks
  <2>1. rank' \in [Ranks -> RankStatus]
    BY <1>10, RankWrites DEF FailRanks, RankStatus, ActiveStatuses, TypeOK, StoresOK
  <2> QED
    BY <1>10, <2>1 DEF FailRanks, TypeOK, StoresOK
<1>11. CASE StopRanks
  <2>1. rank' \in [Ranks -> RankStatus]
    BY <1>11, RankWrites DEF StopRanks, RankStatus, ActiveStatuses, TypeOK, StoresOK
  <2> QED
    BY <1>11, <2>1 DEF StopRanks, TypeOK, StoresOK
<1>12. CASE FinishedRanks
  <2>1. rank' \in [Ranks -> RankStatus]
    BY <1>12, RankWrites DEF FinishedRanks, RankStatus, ActiveStatuses, TypeOK, StoresOK
  <2> QED
    BY <1>12, <2>1 DEF FinishedRanks, TypeOK, StoresOK
<1>13. CASE Poll
  <2>1. rank' \in [Ranks -> RankStatus]
    <3>1. UNCHANGED rank \/ \E r, verdict : Record(r, verdict)
      BY <1>13 DEF Poll
    <3>2. ASSUME NEW r, NEW verdict, Record(r, verdict)
          PROVE  rank' \in [Ranks -> RankStatus]
      BY <3>2, RankWrites DEF Record, RankStatus, ActiveStatuses
    <3>3. UNCHANGED rank => rank' \in [Ranks -> RankStatus]
      BY DEF TypeOK, StoresOK
    <3> QED
      BY <3>1, <3>2, <3>3
  <2> QED
    BY <1>13, <2>1 DEF Poll, TypeOK, StoresOK
<1>14. CASE ChunkJob
  <2>1. job' \in [Jobs -> JobStatus]
    BY <1>14, Transitions DEF ChunkJob, JobStatus, TypeOK, StoresOK, LocalsOK, EndPass, stores
  <2> QED
    BY <1>14, <2>1 DEF ChunkJob, TypeOK, StoresOK, EndPass, stores
<1>15. CASE Requeue
  <2>1. job' \in [Jobs -> JobStatus]
    BY <1>15, Transitions DEF Requeue, JobStatus, TypeOK, StoresOK, LocalsOK
  <2> QED
    BY <1>15, <2>1 DEF Requeue, TypeOK, StoresOK
<1>16. ASSUME Crash \/ ApplyPending \/ NextPlan \/ Swap \/ Preempt \/ AddAssociations \/
             Reconcile \/ Drain \/ Teardown \/ BeginChunkJobs \/ BeginFinished \/
             CancelChunks \/ FinishedJob \/ BeginRunning \/ RestoreRunning \/ TearDownFailed \/
             BeginHealth \/ EndHealth
      PROVE  UNCHANGED stores
  BY <1>16 DEF Crash, ApplyPending, NextPlan, Swap, Preempt, AddAssociations, Reconcile, Drain,
       Teardown, BeginChunkJobs, BeginFinished, CancelChunks, FinishedJob, BeginRunning,
       RestoreRunning, TearDownFailed, BeginHealth, EndHealth, Begin, EndPass, stores
<1>17. ASSUME NEW j \in Jobs, ChunksEnd(j)
      PROVE  UNCHANGED stores
  BY <1>17 DEF ChunksEnd, stores
<1>18. ASSUME NEW r \in Ranks, LoseObjects(r)
      PROVE  UNCHANGED stores
  BY <1>18 DEF LoseObjects, stores
<1>19. ASSUME UNCHANGED vars
      PROVE  UNCHANGED stores
  BY <1>19 DEF vars, stores
<1>20. ASSUME UNCHANGED stores
      PROVE  StoresOK'
  BY <1>20 DEF stores, TypeOK, StoresOK
<1> HIDE OrcaAssumption
<1> QED
  BY <1>1, <1>2, <1>3, <1>4, <1>5, <1>6, <1>7, <1>8, <1>9, <1>10, <1>11, <1>12, <1>13, <1>14,
     <1>15, <1>16, <1>17, <1>18, <1>19, <1>20 DEF Next, Executor

\* No step changes the kind of a job.

LEMMA KindKept ==
  ASSUME [Next]_vars
  PROVE  Batch' = Batch
<1>1. ASSUME Crash \/ WritePlan \/ ApplyPending \/ NextPlan \/ MarkApplied \/ Place \/ Swap \/
             Preempt \/ LaunchRanks \/ AddAssociations \/ Reconcile \/ CatalogInvalid \/
             FailJob \/ FailRanks \/ RestoreJob \/ Drain \/ Teardown \/ StopRanks \/ Pause
      PROVE  UNCHANGED kind
  BY <1>1 DEF Crash, WritePlan, ApplyPending, NextPlan, MarkApplied, Place, Swap, Preempt,
       LaunchRanks, AddAssociations, Reconcile, CatalogInvalid, FailJob, FailRanks, RestoreJob,
       Drain, Teardown, StopRanks, Pause, stores
<1>2. ASSUME BeginChunkJobs \/ ChunkJob \/ BeginFinished \/ CancelChunks \/ FinishedJob \/
             FinishedRanks \/ BeginRunning \/ RestoreRunning \/ TearDownFailed \/ Requeue \/
             BeginHealth \/ Poll \/ EndHealth
      PROVE  UNCHANGED kind
  BY <1>2 DEF BeginChunkJobs, ChunkJob, BeginFinished, CancelChunks, FinishedJob, FinishedRanks,
       BeginRunning, RestoreRunning, TearDownFailed, Requeue, BeginHealth, Poll, EndHealth,
       Begin, EndPass, stores
<1>3. ASSUME NEW j \in Jobs, Cancel(j) \/ ChunksEnd(j)
      PROVE  UNCHANGED kind
  BY <1>3 DEF Cancel, ChunksEnd, stores
<1>4. ASSUME NEW r \in Ranks, LoseObjects(r)
      PROVE  UNCHANGED kind
  BY <1>4 DEF LoseObjects, stores
<1>5. ASSUME UNCHANGED vars
      PROVE  UNCHANGED kind
  BY <1>5 DEF vars, stores
<1>6. UNCHANGED kind
  BY <1>1, <1>2, <1>3, <1>4, <1>5 DEF Next, Executor
<1> QED
  BY <1>6 DEF Batch

\* Objects and associations are those of ranks, and only batch jobs end.

LEMMA ClusterKept ==
  ASSUME TypeOK, ControlOK, [Next]_vars
  PROVE  ClusterOK'
<1>1. Batch' = Batch
  BY KindKept
<1>2. ASSUME NEW j \in Jobs, ChunksEnd(j)
      PROVE  ClusterOK'
  BY <1>1, <1>2 DEF ChunksEnd, TypeOK, ClusterOK
<1>3. ASSUME NEW r \in Ranks, LoseObjects(r)
      PROVE  ClusterOK'
  BY <1>1, <1>3 DEF LoseObjects, TypeOK, ClusterOK
<1>4. ASSUME AddAssociations \/ Reconcile
      PROVE  ClusterOK'
  <2>1. A.ladder \subseteq Ranks
    BY <1>4, ActionAtHand DEF AddAssociations, Reconcile, ControlOK, Placing
  <2> QED
    BY <1>1, <1>4, <2>1 DEF AddAssociations, Reconcile, Reconciled, HalfReconciled, TypeOK, ClusterOK
<1>5. ASSUME Drain \/ Teardown \/ CancelChunks \/ FinishedJob \/ TearDownFailed
      PROVE  ClusterOK'
  BY <1>1, <1>5 DEF Drain, Teardown, CancelChunks, MustTell, FinishedJob, TearDownFailed, EndPass,
       cluster, TypeOK, ClusterOK
<1>6. CASE RestoreRunning
  BY <1>1, <1>6 DEF RestoreRunning, Reconciled, HalfReconciled, TypeOK, ClusterOK, LocalsOK
<1>7. ASSUME Crash \/ WritePlan \/ ApplyPending \/ NextPlan \/ MarkApplied \/ Place \/ Swap \/
             Preempt \/ LaunchRanks \/ CatalogInvalid \/ FailJob \/ FailRanks \/ RestoreJob \/
             StopRanks \/ Pause \/ BeginChunkJobs \/ ChunkJob \/ BeginFinished \/
             FinishedRanks \/ BeginRunning \/ Requeue \/ BeginHealth \/ Poll \/ EndHealth
      PROVE  UNCHANGED cluster
  BY <1>7 DEF Crash, WritePlan, ApplyPending, NextPlan, MarkApplied, Place, Swap, Preempt,
       LaunchRanks, CatalogInvalid, FailJob, FailRanks, RestoreJob, StopRanks, Pause,
       BeginChunkJobs, ChunkJob, BeginFinished, FinishedRanks, BeginRunning, Requeue,
       BeginHealth, Poll, EndHealth, Begin, EndPass, cluster
<1>8. ASSUME NEW j \in Jobs, Cancel(j)
      PROVE  UNCHANGED cluster
  BY <1>8 DEF Cancel, cluster
<1>9. ASSUME UNCHANGED vars
      PROVE  UNCHANGED cluster
  BY <1>9 DEF vars, cluster
<1>10. ASSUME UNCHANGED cluster
       PROVE  ClusterOK'
  BY <1>1, <1>10 DEF cluster, TypeOK, ClusterOK
<1> QED
  BY <1>2, <1>3, <1>4, <1>5, <1>6, <1>7, <1>8, <1>9, <1>10 DEF Next, Executor

\* Crashes and exceptions stay within their bounds, and an exception is never forgotten.

LEMMA BoundsKept ==
  ASSUME TypeOK, [Next]_vars
  PROVE  BoundsOK' /\ errors' >= errors
<1> USE OrcaAssumption
<1>1. ASSUME Returns \/ Raises, crashes' = crashes
      PROVE  BoundsOK' /\ errors' >= errors
  BY <1>1 DEF Returns, Raises, TypeOK, BoundsOK
<1>2. CASE Crash
  BY <1>2 DEF Crash, TypeOK, BoundsOK
<1>3. ASSUME WritePlan \/ ApplyPending \/ NextPlan \/ MarkApplied \/ Place \/ Swap \/
             Preempt \/ LaunchRanks \/ AddAssociations \/ Reconcile \/ CatalogInvalid \/
             FailJob \/ FailRanks \/ RestoreJob \/ Drain \/ Teardown \/ StopRanks \/ Pause
      PROVE  (Returns \/ Raises) /\ crashes' = crashes
  BY <1>3 DEF WritePlan, ApplyPending, NextPlan, MarkApplied, Place, Swap, Preempt,
       LaunchRanks, AddAssociations, Reconcile, CatalogInvalid, FailJob, FailRanks, RestoreJob,
       Drain, Teardown, StopRanks, Pause, Returns
<1>4. ASSUME BeginChunkJobs \/ ChunkJob \/ BeginFinished \/ CancelChunks \/ FinishedJob \/
             FinishedRanks \/ BeginRunning \/ RestoreRunning \/ TearDownFailed \/ Requeue \/
             BeginHealth \/ Poll \/ EndHealth
      PROVE  (Returns \/ Raises) /\ crashes' = crashes
  BY <1>4 DEF BeginChunkJobs, ChunkJob, BeginFinished, CancelChunks, FinishedJob, FinishedRanks,
       BeginRunning, RestoreRunning, TearDownFailed, Requeue, BeginHealth, Poll, EndHealth,
       Begin, EndPass, Returns
<1>5. ASSUME NEW j \in Jobs, Cancel(j) \/ ChunksEnd(j)
      PROVE  Returns /\ crashes' = crashes
  BY <1>5 DEF Cancel, ChunksEnd, Returns
<1>6. ASSUME NEW r \in Ranks, LoseObjects(r)
      PROVE  Returns /\ crashes' = crashes
  BY <1>6 DEF LoseObjects, Returns
<1>7. ASSUME UNCHANGED vars
      PROVE  Returns /\ crashes' = crashes
  BY <1>7 DEF vars, Returns
<1> HIDE OrcaAssumption
<1> QED
  BY <1>1, <1>2, <1>3, <1>4, <1>5, <1>6, <1>7 DEF Next, Executor

\* What the process remembers between passes keeps its type; a streak never runs past
\* DownPolls.

LEMMA MemoryKept ==
  ASSUME TypeOK, [Next]_vars
  PROVE  MemoryOK'
<1>1. CASE Crash
  <2>1. 0 \in 0..DownPolls
    BY OrcaAssumption
  <2> QED
    BY <1>1, <2>1 DEF Crash, TypeOK, MemoryOK
<1>2. ASSUME NEW j \in Jobs, Cancel(j)
      PROVE  MemoryOK'
  BY <1>2 DEF Cancel, memory, TypeOK, MemoryOK
<1>3. CASE CancelChunks
  BY <1>3 DEF CancelChunks, MustTell, stores, TypeOK, MemoryOK
<1>4. CASE BeginHealth
  BY <1>4 DEF BeginHealth, stores, TypeOK, MemoryOK
<1>5. CASE Poll
  <2> DEFINE Polled(r) ==
           /\ \/ \E reading : streak' = [streak EXCEPT ![r] = StreakAfter(r, Verdict(r, reading))]
              \/ UNCHANGED streak
           /\ served' \subseteq served \cup {r}
           /\ polled' \subseteq polled \cup {r}
           /\ UNCHANGED <<told, cancelled>>
  <2>1. PICK v \in left : \E r \in v.ranks : Polled(r)
    BY <1>5 DEF Poll
  <2>2. PICK r \in v.ranks : Polled(r)
    BY <2>1
  <2>3. r \in Ranks
    BY DEF TypeOK, LocalsOK
  <2>4. \A verdict : StreakAfter(r, verdict) \in 0..DownPolls
    BY <2>3, OrcaAssumption DEF StreakAfter, TypeOK, MemoryOK
  <2> QED
    BY <2>2, <2>3, <2>4 DEF TypeOK, MemoryOK
<1>6. CASE EndHealth
  <2>1. 0 \in 0..DownPolls
    BY OrcaAssumption
  <2> QED
    BY <1>6, <2>1 DEF EndHealth, EndPass, stores, TypeOK, MemoryOK
<1>7. ASSUME WritePlan \/ ApplyPending \/ NextPlan \/ MarkApplied \/ Place \/ Swap \/
             Preempt \/ LaunchRanks \/ AddAssociations \/ Reconcile \/ CatalogInvalid \/
             FailJob \/ FailRanks \/ RestoreJob \/ Drain \/ Teardown \/ StopRanks \/ Pause
      PROVE  UNCHANGED <<memory, cancelled>>
  BY <1>7 DEF WritePlan, ApplyPending, NextPlan, MarkApplied, Place, Swap, Preempt,
       LaunchRanks, AddAssociations, Reconcile, CatalogInvalid, FailJob, FailRanks, RestoreJob,
       Drain, Teardown, StopRanks, Pause, stores
<1>8. ASSUME BeginChunkJobs \/ ChunkJob \/ BeginFinished \/ FinishedJob \/
             FinishedRanks \/ BeginRunning \/ RestoreRunning \/ TearDownFailed \/ Requeue
      PROVE  UNCHANGED <<memory, cancelled>>
  BY <1>8 DEF BeginChunkJobs, ChunkJob, BeginFinished, FinishedJob, FinishedRanks,
       BeginRunning, RestoreRunning, TearDownFailed, Requeue, Begin, EndPass, stores, memory
<1>9. ASSUME NEW j \in Jobs, ChunksEnd(j)
      PROVE  UNCHANGED <<memory, cancelled>>
  BY <1>9 DEF ChunksEnd, stores
<1>10. ASSUME NEW r \in Ranks, LoseObjects(r)
       PROVE  UNCHANGED <<memory, cancelled>>
  BY <1>10 DEF LoseObjects, stores
<1>11. ASSUME UNCHANGED vars
       PROVE  UNCHANGED <<memory, cancelled>>
  BY <1>11 DEF vars, stores
<1>12. ASSUME UNCHANGED <<memory, cancelled>>
       PROVE  MemoryOK'
  BY <1>12 DEF memory, TypeOK, MemoryOK
<1> QED
  BY <1>1, <1>2, <1>3, <1>4, <1>5, <1>6, <1>7, <1>8, <1>9, <1>10, <1>11, <1>12
     DEF Next, Executor

\* What a pass or an action hands from one call to the next keeps its type.

LEMMA LocalsKept ==
  ASSUME TypeOK, ControlOK, [Next]_vars
  PROVE  LocalsOK'
<1> DEFINE Rest == /\ act' \in Seq(Actions) /\ old' \subseteq Ranks
                   /\ prev' \in {"none", "waiting", "paused"}
                   /\ \A v \in left' : v.job \in Jobs /\ v.ranks \subseteq Ranks
\* What one action hands to the next.
<1>1. ASSUME EndAction, act # <<>>
      PROVE  Rest /\ queue' = queue
  <2>1. act' \in Seq(Actions)
    BY <1>1, ActionAtHand DEF EndAction
  <2> QED
    BY <1>1, <2>1 DEF EndAction, TypeOK, LocalsOK
<1>2. ASSUME UNCHANGED locals
      PROVE  Rest /\ queue' = queue
  BY <1>2 DEF locals, TypeOK, LocalsOK
<1>3. \A S \in SUBSET Jobs : \A v \in AsRead(S) : v.job \in Jobs /\ v.ranks \subseteq Ranks
  BY DEF AsRead, ActiveRanks, RanksOf
\* Plans.
<1>4. CASE WritePlan
  <2>1. 1..Len(plans) \subseteq 1..Len(plans')
    BY <1>4 DEF WritePlan, TypeOK, StoresOK
  <2> QED
    BY <1>2, <1>4, <2>1 DEF WritePlan, TypeOK, LocalsOK, locals
<1>5. CASE Crash
  BY <1>5, EmptySeq DEF Crash, TypeOK, LocalsOK
<1>6. CASE ApplyPending
  BY <1>6 DEF ApplyPending, stores, TypeOK, LocalsOK
<1>7. CASE NextPlan
  <2>1. \A i \in queue : plans[i] \in Seq(Actions)
    BY OrcaAssumption DEF TypeOK, StoresOK, LocalsOK
  <2> QED
    BY <1>7, <2>1 DEF NextPlan, stores, TypeOK, LocalsOK
<1>8. CASE MarkApplied
  BY <1>8 DEF MarkApplied, TypeOK, LocalsOK
\* Actions of a plan.
<1>9. ASSUME Place \/ Swap \/ Preempt
      PROVE  Rest /\ queue' = queue
  BY <1>1, <1>9 DEF Place, Swap, Preempt, ActiveRanks, RanksOf, TypeOK, LocalsOK, EndAction
<1>10. ASSUME LaunchRanks \/ AddAssociations \/ Reconcile \/ CatalogInvalid \/ FailJob \/
              FailRanks \/ RestoreJob \/ Drain \/ Teardown \/ StopRanks \/ Pause
       PROVE  Rest /\ queue' = queue
  <2>1. EndAction \/ UNCHANGED locals
    BY <1>10 DEF LaunchRanks, AddAssociations, Reconcile, CatalogInvalid, FailJob,
              FailRanks, RestoreJob, Drain, Teardown, StopRanks, Pause, InAction
  <2>2. act # <<>>
    BY <1>10 DEF LaunchRanks, AddAssociations, Reconcile, CatalogInvalid, FailJob,
              FailRanks, RestoreJob, Drain, Teardown, StopRanks, Pause, ControlOK,
              Placing, Removing
  <2> QED
    BY <1>1, <1>2, <2>1, <2>2
\* Passes.
<1>11. ASSUME BeginChunkJobs \/ BeginFinished \/ BeginRunning
       PROVE  Rest /\ queue' = queue
  <2>1. \E S \in SUBSET Jobs : left' = AsRead(S) \/ left' = {}
    BY <1>11 DEF BeginChunkJobs, BeginFinished, BeginRunning, Begin, Running
  <2> QED
    BY <1>3, <1>11, <2>1 DEF BeginChunkJobs, BeginFinished, BeginRunning, Begin, TypeOK, LocalsOK
<1>12. ASSUME ChunkJob \/ CancelChunks \/ FinishedJob \/ FinishedRanks \/ RestoreRunning \/
              TearDownFailed \/ Requeue \/ Poll \/ EndHealth
       PROVE  Rest /\ queue' = queue
  <2>1. left' \subseteq left /\ UNCHANGED <<queue, act, prev>>
    BY <1>12 DEF ChunkJob, CancelChunks, FinishedJob, FinishedRanks, RestoreRunning,
              TearDownFailed, Requeue, Poll, EndHealth, Visited, Aborted, EndPass, locals
  <2>2. old' \subseteq Ranks
    BY <1>12 DEF ChunkJob, CancelChunks, FinishedJob, FinishedRanks, RestoreRunning,
              TearDownFailed, Requeue, Poll, EndHealth, Visited, Aborted, EndPass, locals,
              ActiveRanks, FailedRanks, RanksOf, TypeOK, LocalsOK
  <2> QED
    BY <2>1, <2>2 DEF TypeOK, LocalsOK
<1>13. CASE BeginHealth
  <2>1. \A v \in left' : v.job \in Jobs /\ v.ranks \subseteq Ranks
    BY <1>13, OrcaAssumption DEF BeginHealth, ActiveRanks, RanksOf, Running
  <2> QED
    BY <1>13, <2>1 DEF BeginHealth, stores, TypeOK, LocalsOK
\* Everybody else.
<1>14. ASSUME NEW j \in Jobs, Cancel(j) \/ ChunksEnd(j)
       PROVE  UNCHANGED <<locals, plans>>
  BY <1>14 DEF Cancel, ChunksEnd, stores
<1>15. ASSUME NEW r \in Ranks, LoseObjects(r)
       PROVE  UNCHANGED <<locals, plans>>
  BY <1>15 DEF LoseObjects, stores
<1>16. ASSUME UNCHANGED vars
       PROVE  UNCHANGED <<locals, plans>>
  BY <1>16 DEF vars, stores
<1>17. ASSUME UNCHANGED <<locals, plans>>
       PROVE  LocalsOK'
  BY <1>17 DEF locals, TypeOK, LocalsOK
<1>18. ASSUME Rest, queue' = queue, plans' = plans
       PROVE  LocalsOK'
  BY <1>18 DEF TypeOK, LocalsOK
<1>19. ASSUME Place \/ Swap \/ Preempt \/ LaunchRanks \/ AddAssociations \/ Reconcile \/
              CatalogInvalid \/ FailJob \/ FailRanks \/ RestoreJob \/ Drain \/ Teardown \/
              StopRanks \/ Pause \/ BeginChunkJobs \/ BeginFinished \/ BeginRunning \/ ChunkJob \/
              CancelChunks \/ FinishedJob \/ FinishedRanks \/ RestoreRunning \/
              TearDownFailed \/ Requeue \/ Poll \/ EndHealth
       PROVE  plans' = plans
  BY <1>19 DEF Place, Swap, Preempt, LaunchRanks, AddAssociations, Reconcile,
       CatalogInvalid, FailJob, FailRanks, RestoreJob, Drain, Teardown, StopRanks, Pause,
       BeginChunkJobs, BeginFinished, BeginRunning, ChunkJob, CancelChunks, FinishedJob,
       FinishedRanks, RestoreRunning, TearDownFailed, Requeue, Poll, EndHealth,
       Begin, EndPass, stores
<1> HIDE DEF Rest
<1> QED
  BY <1>4, <1>5, <1>6, <1>7, <1>8, <1>9, <1>10, <1>11, <1>12, <1>13, <1>14, <1>15, <1>16,
     <1>17, <1>18, <1>19 DEF Next, Executor

\* The parts together.

LEMMA TypesKept ==
  ASSUME TypeOK, ControlOK, [Next]_vars
  PROVE  TypeOK'
BY StoresKept, ClusterKept, LocalsKept, MemoryKept, BoundsKept DEF TypeOK

-----------------------------------------------------------------------------
(* Ranks, jobs and control.                                                *)

\* Only a launch makes ranks active.
LEMMA OnlyLaunchesActivate ==
  ASSUME TypeOK, [Next]_vars, ~LaunchRanks
  PROVE  \A j \in Jobs : ActiveRanks(j)' \subseteq ActiveRanks(j)
<1> DEFINE Shrinks == \A j \in Jobs : ActiveRanks(j)' \subseteq ActiveRanks(j)
<1>1. ASSUME CatalogInvalid \/ FailRanks \/ StopRanks \/ FinishedRanks
      PROVE  Shrinks
  BY <1>1, RankWrites DEF CatalogInvalid, FailRanks, StopRanks, FinishedRanks, RankStatus,
     ActiveStatuses
<1>2. ASSUME UNCHANGED rank
      PROVE  Shrinks
  BY <1>2 DEF ActiveRanks
<1>3. ASSUME Poll
      PROVE  Shrinks
  <2>1. UNCHANGED rank \/ \E r, verdict : Record(r, verdict)
    BY <1>3 DEF Poll
  <2>2. ASSUME NEW r, NEW verdict, Record(r, verdict)
        PROVE  Shrinks
    BY <2>2, RankWrites DEF Record, RankStatus, ActiveStatuses
  <2> QED
    BY <1>2, <2>1, <2>2
<1>4. ASSUME Crash \/ WritePlan \/ ApplyPending \/ NextPlan \/ MarkApplied \/ Place \/ Swap \/
             Preempt \/ AddAssociations \/ Reconcile \/ FailJob \/ RestoreJob \/ Drain \/
             Teardown \/ Pause \/ BeginChunkJobs \/ ChunkJob \/ BeginFinished \/ CancelChunks \/
             FinishedJob \/ BeginRunning \/ RestoreRunning \/ TearDownFailed \/ Requeue \/
             BeginHealth \/ EndHealth
      PROVE  UNCHANGED rank
  BY <1>4 DEF Crash, WritePlan, ApplyPending, NextPlan, MarkApplied, Place, Swap, Preempt,
     AddAssociations, Reconcile, FailJob, RestoreJob, Drain, Teardown, Pause, BeginChunkJobs,
     ChunkJob, BeginFinished, CancelChunks, FinishedJob, BeginRunning, RestoreRunning,
     TearDownFailed, Requeue, BeginHealth, EndHealth, Begin, EndPass, stores
<1>5. ASSUME NEW j \in Jobs, Cancel(j) \/ ChunksEnd(j)
      PROVE  UNCHANGED rank
  BY <1>5 DEF Cancel, ChunksEnd, stores
<1>6. ASSUME NEW r \in Ranks, LoseObjects(r)
      PROVE  UNCHANGED rank
  BY <1>6 DEF LoseObjects, stores
<1>7. ASSUME UNCHANGED vars
      PROVE  UNCHANGED rank
  BY <1>7 DEF vars, stores
<1> HIDE DEF Shrinks
<1>8. Shrinks
  BY <1>1, <1>2, <1>3, <1>4, <1>5, <1>6, <1>7 DEF Next, Executor
<1> QED
  BY <1>8 DEF Shrinks

\* A finished job stays finished, only a preemption or the undoing of a place pauses one,
\* and only a place starts one.
LEMMA JobSteps ==
  ASSUME TypeOK, ControlOK, [Next]_vars, NEW j \in Jobs
  PROVE  /\ job[j] = "finished" => job'[j] = "finished"
         /\ job'[j] = "paused" => job[j] = "paused" \/ RestoreJob \/ (Pause /\ j = A.job)
         /\ job'[j] = "running" => job[j] = "running" \/ (Place /\ j = A.job)
<1> DEFINE Goal == /\ job[j] = "finished" => job'[j] = "finished"
                   /\ job'[j] = "paused" => job[j] = "paused" \/ RestoreJob \/ (Pause /\ j = A.job)
                   /\ job'[j] = "running" => job[j] = "running" \/ (Place /\ j = A.job)
<1>1. CASE Place
  <2>1. A.job \in Jobs
    BY <1>1, ActionAtHand DEF Place
  <2> QED
    BY <1>1, <2>1, Transitions DEF Place
<1>2. ASSUME FailJob \/ Pause \/ RestoreJob
      PROVE  Goal
  <2>1. A.job \in Jobs
    BY <1>2, ActionAtHand DEF FailJob, Pause, RestoreJob, ControlOK, Placing
  <2>2. prev # "running"
    BY DEF TypeOK, LocalsOK
  <2> QED
    BY <1>2, <2>1, <2>2, Transitions DEF FailJob, Pause, RestoreJob
<1>3. ASSUME ChunkJob \/ Requeue
      PROVE  Goal
  <2>1. UNCHANGED job \/ \E v \in left : \/ Transition(v.job, "finished", {"running"})
                                        \/ Transition(v.job, "waiting", {"running"})
    BY <1>3 DEF ChunkJob, Requeue, EndPass, stores
  <2> QED
    BY <2>1, Transitions DEF TypeOK, LocalsOK
<1>4. ASSUME NEW k \in Jobs, Cancel(k)
      PROVE  Goal
  BY <1>4 DEF Cancel, TypeOK, StoresOK
<1>5. ASSUME Crash \/ WritePlan \/ ApplyPending \/ NextPlan \/ MarkApplied \/ Swap \/ Preempt \/
             LaunchRanks \/ AddAssociations \/ Reconcile \/ CatalogInvalid \/ FailRanks \/
             Drain \/ Teardown \/ StopRanks \/ BeginChunkJobs \/ BeginFinished \/ CancelChunks \/
             FinishedJob \/ FinishedRanks \/ BeginRunning \/ RestoreRunning \/ TearDownFailed \/
             BeginHealth \/ Poll \/ EndHealth
      PROVE  UNCHANGED job
  BY <1>5 DEF Crash, WritePlan, ApplyPending, NextPlan, MarkApplied, Swap, Preempt, LaunchRanks,
     AddAssociations, Reconcile, CatalogInvalid, FailRanks, Drain, Teardown, StopRanks,
     BeginChunkJobs, BeginFinished, CancelChunks, FinishedJob, FinishedRanks, BeginRunning,
     RestoreRunning, TearDownFailed, BeginHealth, Poll, EndHealth, Begin, EndPass, stores
<1>6. ASSUME NEW k \in Jobs, ChunksEnd(k)
      PROVE  UNCHANGED job
  BY <1>6 DEF ChunksEnd, stores
<1>7. ASSUME NEW r \in Ranks, LoseObjects(r)
      PROVE  UNCHANGED job
  BY <1>7 DEF LoseObjects, stores
<1>8. ASSUME UNCHANGED vars
      PROVE  UNCHANGED job
  BY <1>8 DEF vars, stores
<1>9. ASSUME UNCHANGED job
      PROVE  Goal
  BY <1>9
<1> HIDE DEF Goal
<1>10. Goal
  BY <1>1, <1>2, <1>3, <1>4, <1>5, <1>6, <1>7, <1>8, <1>9 DEF Next, Executor, Goal
<1> QED
  BY <1>10 DEF Goal

\* What the executor was about to do stays true whatever happens, until it does it.
LEMMA ControlKept ==
  ASSUME TypeOK, ControlOK, [Next]_vars
  PROVE  ControlOK'
<1> DEFINE InAct == Placing \cup Removing \cup {"fail_job", "pause"}
<1>1. BoundsOK' /\ errors' >= errors /\ errors \in Nat
  BY BoundsKept, OrcaAssumption DEF TypeOK, BoundsOK
<1>2. ASSUME at' \notin InAct
      PROVE  ControlOK'
  BY <1>2 DEF ControlOK, Placing, Removing
<1>3. ASSUME UNCHANGED <<at, act, prev, old, rank, errors>>,
             \A j \in Jobs : job'[j] \in {job[j], "finished"}
      PROVE  ControlOK'
  <2>1. A' = A /\ (act # <<>> => A.job \in Jobs)
    BY <1>3, ActionAtHand DEF A
  <2> QED
    BY <1>3, <2>1 DEF ControlOK, ActiveRanks, Placing
<1>4. ASSUME WritePlan \/ (\E j \in Jobs : Cancel(j) \/ ChunksEnd(j)) \/
             (\E r \in Ranks : LoseObjects(r)) \/ UNCHANGED vars
      PROVE  /\ UNCHANGED <<at, act, prev, old, rank, errors>>
             /\ \A j \in Jobs : job'[j] \in {job[j], "finished"}
  BY <1>4 DEF WritePlan, Cancel, ChunksEnd, LoseObjects, vars, stores, locals, TypeOK, StoresOK
<1>5. ASSUME Crash \/ ApplyPending \/ NextPlan \/ MarkApplied \/ FailJob \/ RestoreJob \/ Pause \/
             BeginChunkJobs \/ ChunkJob \/ BeginFinished \/ CancelChunks \/ FinishedJob \/
             FinishedRanks \/ BeginRunning \/ RestoreRunning \/ TearDownFailed \/ Requeue \/
             BeginHealth \/ Poll \/ EndHealth
      PROVE  at' \notin InAct
  BY <1>5 DEF Crash, ApplyPending, NextPlan, MarkApplied, FailJob, RestoreJob, Pause,
     BeginChunkJobs, ChunkJob, BeginFinished, CancelChunks, FinishedJob, FinishedRanks,
     BeginRunning, RestoreRunning, TearDownFailed, Requeue, BeginHealth, Poll, EndHealth,
     Begin, EndPass, EndAction, Visited, Aborted, Goto, Placing, Removing
\* An action goes on, or ends.
<1>6. ASSUME act' = act, act # <<>>
      PROVE  A' = A /\ A.job \in Jobs
  BY <1>6, ActionAtHand DEF A
<1>7. CASE Place
  BY <1>2, <1>7, ActionAtHand, Transitions
     DEF Place, EndAction, Goto, ControlOK, Placing, Removing, A, TypeOK, LocalsOK
<1>8. ASSUME Swap \/ Preempt
      PROVE  ControlOK'
  <2>1. CASE at' \notin InAct
    BY <1>2, <2>1
  <2>2. CASE at' \in InAct
    <3>1. act' = act /\ act # <<>> /\ rank' = rank /\ old' = ActiveRanks(A.job)
      BY <1>8, <2>2 DEF Swap, Preempt, EndAction, Goto, Placing, Removing, stores
    <3>2. \/ at' = "launch_ranks" /\ A.type = "swap" /\ job'[A.job] = "running"
          \/ at' = "drain"
      BY <1>8, <2>2 DEF Swap, Preempt, EndAction, Goto, Placing, Removing, stores
    <3> QED
      BY <1>6, <3>1, <3>2 DEF ControlOK, Placing, Removing, ActiveRanks
  <2> QED
    BY <2>1, <2>2
<1>9. ASSUME LaunchRanks \/ AddAssociations \/ Reconcile \/ CatalogInvalid \/ FailRanks
      PROVE  ControlOK'
  <2>1. CASE at' \notin InAct
    BY <1>2, <2>1
  <2>2. CASE at' \in InAct
    <3>1. act' = act /\ act # <<>> /\ prev' = prev /\ at \in Placing
      BY <1>9, <2>2 DEF LaunchRanks, AddAssociations, Reconcile, CatalogInvalid, FailRanks,
         EndAction, InAction, Goto, locals, ControlOK, Placing, Removing
    <3>2. \/ at' \in {"associate", "reconcile"}
          \/ at' = "drain" /\ A.type = "swap"
          \/ at' \in {"restore_job", "fail_ranks", "fail_job"} /\ errors' > 0
      BY <1>1, <1>9, <2>2 DEF LaunchRanks, AddAssociations, Reconcile, CatalogInvalid, FailRanks,
         EndAction, InAction, Goto, Returns, Raises, ControlOK, Placing, Removing
    <3> QED
      BY <1>6, <3>1, <3>2 DEF ControlOK, Placing, Removing
  <2> QED
    BY <2>1, <2>2
<1>10. ASSUME Drain \/ Teardown
       PROVE  ControlOK'
  <2>1. CASE at' \notin InAct
    BY <1>2, <2>1
  <2>2. CASE at' \in InAct
    <3>1. act' = act /\ act # <<>> /\ old' = old /\ rank' = rank /\ at \in Removing
      BY <1>10, <2>2 DEF Drain, Teardown, EndAction, InAction, Goto, locals, stores, ControlOK,
         Placing, Removing
    <3>2. at' \in {"teardown", "stop_ranks"}
      BY <1>10, <2>2 DEF Drain, Teardown, EndAction, InAction, Goto, Placing, Removing
    <3> QED
      BY <1>6, <3>1, <3>2 DEF ControlOK, Placing, Removing, ActiveRanks
  <2> QED
    BY <2>1, <2>2
<1>11. CASE StopRanks
  <2>1. CASE at' \notin InAct
    BY <1>2, <2>1
  <2>2. CASE at' \in InAct
    <3>1. /\ act' = act /\ act # <<>> /\ at = "stop_ranks" /\ at' = "pause" /\ A.type # "swap"
          /\ SetRanks(Removed, "stopped", ActiveStatuses)
      BY <1>11, <2>2 DEF StopRanks, EndAction, InAction, Goto, locals, ControlOK, Placing, Removing
    <3>2. ActiveRanks(A.job) \subseteq old /\ Removed = old
      BY <3>1 DEF ControlOK, Removing, Removed
    <3>3. ActiveRanks(A.job)' = {}
      BY <1>6, <3>1, <3>2 DEF ActiveRanks, ActiveStatuses, SetRanks, RanksOf
    <3> QED
      BY <1>6, <3>1, <3>3 DEF ControlOK, Placing, Removing
  <2> QED
    BY <2>1, <2>2
<1> HIDE DEF InAct
<1> QED
  BY <1>2, <1>3, <1>4, <1>5, <1>7, <1>8, <1>9, <1>10, <1>11 DEF Next, Executor

\* A launch is of a job that is not paused, and a pause comes after all was stopped.
LEMMA PausedKept ==
  ASSUME TypeOK, ControlOK, PausedHoldsNothing, [Next]_vars
  PROVE  PausedHoldsNothing'
<1> SUFFICES ASSUME errors' = 0, NEW j \in Jobs, job'[j] = "paused"
             PROVE  ActiveRanks(j)' = {}
  BY DEF PausedHoldsNothing
<1>1. errors = 0
  BY BoundsKept, OrcaAssumption DEF TypeOK, BoundsOK
<1>2. CASE LaunchRanks
  <2>1. job' = job /\ act # <<>> /\ job[A.job] \in {"running", "finished"}
    BY <1>2 DEF LaunchRanks, ControlOK, Placing
  <2>2. ActiveRanks(j) = {} /\ j # A.job /\ A.ladder \subseteq RanksOf(A.job)
    BY <1>1, <2>1, ActionAtHand DEF PausedHoldsNothing
  <2>3. \A r \in RanksOf(j) : rank'[r] = rank[r]
    BY <1>2, <2>2 DEF LaunchRanks, Launched, RanksOf
  <2> QED
    BY <2>2, <2>3 DEF ActiveRanks
<1>3. CASE ~LaunchRanks
  <2>1. ActiveRanks(j)' \subseteq ActiveRanks(j)
    BY <1>3, OnlyLaunchesActivate
  <2>2. job[j] = "paused" \/ RestoreJob \/ (Pause /\ j = A.job)
    BY JobSteps
  <2>3. ~RestoreJob
    BY <1>1 DEF RestoreJob, ControlOK
  <2>4. Pause => ActiveRanks(A.job) = {}
    BY <1>1 DEF Pause, ControlOK
  <2> QED
    BY <1>1, <2>1, <2>2, <2>3, <2>4 DEF PausedHoldsNothing
<1> QED
  BY <1>2, <1>3

-----------------------------------------------------------------------------
(* Theorems.                                                               *)

\* The executor starts in a state that satisfies the invariant.

THEOREM Initially == Init => IInv
<1> SUFFICES ASSUME Init
             PROVE  IInv
  OBVIOUS
<1>1. TypeOK
  BY OrcaAssumption, EmptySeq DEF Init, TypeOK, StoresOK, ClusterOK, LocalsOK, MemoryOK, BoundsOK,
     Batch, JobStatus, RankStatus
<1>2. ControlOK /\ PausedHoldsNothing
  BY DEF Init, ControlOK, Placing, Removing, PausedHoldsNothing
<1> QED
  BY <1>1, <1>2 DEF IInv

\* Every step of the executor or of its surroundings keeps the invariant.

THEOREM Inductive == IInv /\ [Next]_vars => IInv'
BY TypesKept, ControlKept, PausedKept DEF IInv

\* Every variable of the executor and its surroundings keeps its type, whatever crashes
\* and raises.
THEOREM OrcaTypeCorrect == Spec => []TypeOK
BY Initially, Inductive, PTL DEF Spec, IInv

\* As long as no call raised, a paused job holds no active rank (orca.py, _preempt and
\* _place), however often the process crashed.
THEOREM PausedIsReleased == Spec => []PausedHoldsNothing
BY Initially, Inductive, PTL DEF Spec, IInv

\* No step of the executor brings a finished job back.
THEOREM FinishedStays == Spec => FinishedIsFinal
<1>1. IInv /\ [Next]_vars =>
        [\A j \in Jobs : job[j] = "finished" => job'[j] = "finished"]_vars
  BY JobSteps DEF IInv
<1> QED
  BY <1>1, Initially, Inductive, PTL DEF Spec, FinishedIsFinal

-----------------------------------------------------------------------------
(* A swap and its plan.                                                    *)

\* Between NextPlan and MarkApplied the executor is busy with one plan.
InPlan == at \in {"action", "fail_job", "pause"} \cup Placing \cup Removing

\* How many actions of plan p are behind it.
Behind(p) == Len(p) - Len(act)

\* The k-th action of plan p, if a swap and the plan's last word on its job, has left no
\* rank active outside its ladder, unless there was nothing to swap.
Settled(p, k) ==
    LET a == p[k]
    IN a.type = "swap" /\ errors = 0 /\ job[a.job] = "running"
          /\ (\A m \in (k + 1)..Len(p) : p[m].job # a.job)
          /\ ActiveRanks(a.job) \cap a.ladder # {}
       => ActiveRanks(a.job) \subseteq a.ladder

\* What is left to do is the rest of the oldest plan, and what was done is settled.
Follows(p) == /\ Len(act) <= Len(p)
              /\ \A m \in 1..Len(act) : act[m] = p[Behind(p) + m]
              /\ \A k \in 1..Behind(p) : Settled(p, k)
PlanOK == InPlan => \E i \in queue : IsNext(i) /\ Follows(plans[i])

\* While a swap is under way, the active ranks of its job are those it read or launches.
SwapOK == /\ at \in Placing \cup Removing /\ A.type = "swap"
                => ActiveRanks(A.job) \subseteq old \cup A.ladder
          /\ at = "pause" => A.type # "swap"

\* The executor comes to an action of a plan by taking up the plan or from the action
\* before, and nobody changes a plan.
LEMMA PlanSteps ==
  ASSUME TypeOK, ControlOK, [Next]_vars, InPlan', ~NextPlan
  PROVE  /\ InPlan /\ queue' = queue
         /\ \A i \in queue : plans'[i] = plans[i]
         /\ act' = act \/ (act # <<>> /\ act' = Tail(act))
<1> DEFINE Goal == /\ InPlan /\ queue' = queue
                   /\ \A i \in queue : plans'[i] = plans[i]
                   /\ act' = act \/ (act # <<>> /\ act' = Tail(act))
<1>1. ASSUME Crash \/ ApplyPending \/ MarkApplied \/
             BeginChunkJobs \/ ChunkJob \/ BeginFinished \/ CancelChunks \/ FinishedJob \/
             FinishedRanks \/ BeginRunning \/ RestoreRunning \/ TearDownFailed \/ Requeue \/
             BeginHealth \/ Poll \/ EndHealth
      PROVE  FALSE
  BY <1>1 DEF Crash, ApplyPending, MarkApplied, BeginChunkJobs, ChunkJob, BeginFinished,
     CancelChunks, FinishedJob, FinishedRanks, BeginRunning, RestoreRunning, TearDownFailed,
     Requeue, BeginHealth, Poll, EndHealth, Begin, EndPass, Visited, Aborted, Goto, InPlan,
     Placing, Removing
<1>2. ASSUME WritePlan
      PROVE  Goal
  <2>1. PICK p \in PlanShapes : plans' = Append(plans, p)
    BY <1>2 DEF WritePlan
  <2>2. plans \in Seq(PlanShapes) /\ queue \subseteq 1..Len(plans)
    BY DEF TypeOK, StoresOK, LocalsOK
  <2>3. \A i \in queue : plans'[i] = plans[i]
    BY <2>1, <2>2, AppendProperties
  <2> QED
    BY <1>2, <2>3 DEF WritePlan, locals, InPlan
<1>3. ASSUME Place \/ Swap \/ Preempt \/ LaunchRanks \/ AddAssociations \/ Reconcile \/
             CatalogInvalid \/ FailJob \/ FailRanks \/ RestoreJob \/ Drain \/ Teardown \/
             StopRanks \/ Pause
      PROVE  Goal
  <2>1. UNCHANGED <<queue, plans>> /\ act' \in {act, Tail(act)}
    BY <1>3 DEF Place, Swap, Preempt, LaunchRanks, AddAssociations, Reconcile, CatalogInvalid,
       FailJob, FailRanks, RestoreJob, Drain, Teardown, StopRanks, Pause, EndAction, InAction,
       locals, stores
  <2>2. InPlan
    BY <1>3 DEF Place, Swap, Preempt, LaunchRanks, AddAssociations, Reconcile, CatalogInvalid,
       FailJob, FailRanks, RestoreJob, Drain, Teardown, StopRanks, Pause, InPlan, Placing, Removing
  <2>3. act # <<>>
    BY <1>3 DEF Place, Swap, Preempt, LaunchRanks, AddAssociations, Reconcile, CatalogInvalid,
       FailJob, FailRanks, RestoreJob, Drain, Teardown, StopRanks, Pause, ControlOK, Placing, Removing
  <2> QED
    BY <2>1, <2>2, <2>3
<1>4. ASSUME NEW j \in Jobs, Cancel(j) \/ ChunksEnd(j)
      PROVE  UNCHANGED <<at, queue, plans, act>>
  BY <1>4 DEF Cancel, ChunksEnd, stores, locals
<1>5. ASSUME NEW r \in Ranks, LoseObjects(r)
      PROVE  UNCHANGED <<at, queue, plans, act>>
  BY <1>5 DEF LoseObjects, stores, locals
<1>6. ASSUME UNCHANGED vars
      PROVE  UNCHANGED <<at, queue, plans, act>>
  BY <1>6 DEF vars, stores, locals
<1>7. ASSUME UNCHANGED <<at, queue, plans, act>>
      PROVE  Goal
  BY <1>7 DEF InPlan
<1> HIDE DEF Goal
<1>8. Goal
  BY <1>1, <1>2, <1>3, <1>4, <1>5, <1>6, <1>7 DEF Next, Executor
<1> QED
  BY <1>8 DEF Goal

\* The ranks of a swap: it reads them, launches its ladder, and stops the others.
LEMMA SwapKept ==
  ASSUME TypeOK, ControlOK, SwapOK, [Next]_vars
  PROVE  SwapOK'
<1> DEFINE InSwap == Placing \cup Removing \cup {"pause"}
<1>1. ASSUME at' \notin InSwap
      PROVE  SwapOK'
  BY <1>1 DEF SwapOK
<1>3. act # <<>> => A.job \in Jobs
  BY ActionAtHand
<1>5. ASSUME WritePlan \/ (\E j \in Jobs : Cancel(j) \/ ChunksEnd(j)) \/
             (\E r \in Ranks : LoseObjects(r)) \/ UNCHANGED vars
      PROVE  UNCHANGED <<at, act, old, rank>>
  BY <1>5 DEF WritePlan, Cancel, ChunksEnd, LoseObjects, vars, stores, locals
<1>6. ASSUME UNCHANGED <<at, act, old, rank>>
      PROVE  SwapOK'
  BY <1>6 DEF SwapOK, A, ActiveRanks
<1>7. ASSUME Crash \/ ApplyPending \/ NextPlan \/ MarkApplied \/ FailJob \/ RestoreJob \/ Pause \/
             BeginChunkJobs \/ ChunkJob \/ BeginFinished \/ CancelChunks \/ FinishedJob \/
             FinishedRanks \/ BeginRunning \/ RestoreRunning \/ TearDownFailed \/ Requeue \/
             BeginHealth \/ Poll \/ EndHealth
      PROVE  at' \notin InSwap
  BY <1>7 DEF Crash, ApplyPending, NextPlan, MarkApplied, FailJob, RestoreJob, Pause,
     BeginChunkJobs, ChunkJob, BeginFinished, CancelChunks, FinishedJob, FinishedRanks,
     BeginRunning, RestoreRunning, TearDownFailed, Requeue, BeginHealth, Poll, EndHealth,
     Begin, EndPass, EndAction, Visited, Aborted, Goto, Placing, Removing
<1>8. ASSUME Place \/ Swap \/ Preempt, at' \in InSwap
      PROVE  SwapOK'
  <2>1. act' = act /\ rank' = rank /\ at' # "pause"
    BY <1>8 DEF Place, Swap, Preempt, EndAction, Goto, Placing, Removing, stores
  <2>2. Swap \/ A.type # "swap"
    BY <1>8 DEF Place, Preempt
  <2>3. Swap => old' = ActiveRanks(A.job)
    BY <1>8 DEF Swap, EndAction, Goto, Placing, Removing
  <2> QED
    BY <2>1, <2>2, <2>3 DEF SwapOK, A, ActiveRanks
<1>9. CASE LaunchRanks
  <2>1. act' = act /\ old' = old /\ at' # "pause" /\ at \in Placing /\ rank' \in {rank, Launched}
    BY <1>9 DEF LaunchRanks, InAction, locals, Placing, Goto
  <2>2. ActiveRanks(A.job)' \subseteq ActiveRanks(A.job) \cup A.ladder /\ A' = A
    BY <2>1 DEF A, Launched, ActiveRanks, RanksOf
  <2> QED
    BY <2>1, <2>2 DEF SwapOK, Placing
<1>10. ASSUME AddAssociations \/ Reconcile \/ CatalogInvalid \/ FailRanks \/ Drain \/ Teardown,
              at' \in InSwap, ~LaunchRanks
       PROVE  SwapOK'
  <2>1. UNCHANGED <<act, old>> /\ act # <<>> /\ at \in Placing \cup Removing /\ at' # "pause"
    BY <1>10 DEF AddAssociations, Reconcile, CatalogInvalid, FailRanks, Drain, Teardown,
       EndAction, InAction, Goto, locals, ControlOK, Placing, Removing
  <2>2. A' = A /\ ActiveRanks(A.job)' \subseteq ActiveRanks(A.job)
    <3>1. \A j \in Jobs : ActiveRanks(j)' \subseteq ActiveRanks(j)
      BY <1>10, OnlyLaunchesActivate
    <3>2. A' = A
      BY <2>1 DEF A
    <3> QED
      BY <1>3, <2>1, <3>1, <3>2
  <2> QED
    BY <2>1, <2>2 DEF SwapOK, Placing, Removing
<1>11. ASSUME StopRanks, at' \in InSwap
       PROVE  SwapOK'
  <2>1. act' = act /\ at' = "pause" /\ A.type # "swap"
    BY <1>11 DEF StopRanks, EndAction, InAction, Goto, locals, Placing, Removing
  <2> QED
    BY <2>1 DEF SwapOK, A, Placing, Removing
<1> HIDE DEF InSwap
<1> QED
  BY <1>1, <1>5, <1>6, <1>7, <1>8, <1>9, <1>10, <1>11 DEF Next, Executor

\* A swap that ends without an exception, and had something to do, leaves its ladder.
LEMMA SwapEnds ==
  ASSUME TypeOK, ControlOK, SwapOK, [Next]_vars, InPlan, InPlan', act # <<>>, act' = Tail(act),
         NEW a, A = a, a.type = "swap", errors' = 0, job'[a.job] = "running",
         ActiveRanks(a.job)' \cap a.ladder # {}
  PROVE  ActiveRanks(a.job)' \subseteq a.ladder
<1>1. act' # act
  <2>1. act \in Seq(Actions)
    BY DEF TypeOK, LocalsOK
  <2> QED
    BY <2>1, HeadTailProperties
<1>2. errors = 0
  BY BoundsKept, OrcaAssumption DEF TypeOK, BoundsOK
<1>3. Swap \/ StopRanks
  <2>1. ~(at \in {"fail_ranks", "restore_job", "fail_job"}) /\ (at = "pause" => A.type # "swap")
    BY <1>2 DEF ControlOK, SwapOK
  <2>2. ASSUME Crash \/ ApplyPending \/ NextPlan \/ MarkApplied \/
             BeginChunkJobs \/ ChunkJob \/ BeginFinished \/ CancelChunks \/ FinishedJob \/
             FinishedRanks \/ BeginRunning \/ RestoreRunning \/ TearDownFailed \/ Requeue \/
             BeginHealth \/ Poll \/ EndHealth
        PROVE  FALSE
    BY <2>2 DEF Crash, ApplyPending, NextPlan, MarkApplied, BeginChunkJobs, ChunkJob,
       BeginFinished, CancelChunks, FinishedJob, FinishedRanks, BeginRunning, RestoreRunning,
       TearDownFailed, Requeue, BeginHealth, Poll, EndHealth, Begin, EndPass, Visited, Aborted,
       Goto, InPlan, Placing, Removing
  <2>3. ASSUME Place \/ Preempt \/ LaunchRanks \/ AddAssociations \/ Reconcile \/ CatalogInvalid \/
             FailJob \/ FailRanks \/ RestoreJob \/ Drain \/ Teardown \/ Pause
        PROVE  FALSE
    BY <1>1, <1>2, <2>1, <2>3 DEF Place, Preempt, LaunchRanks, AddAssociations, Reconcile,
       CatalogInvalid, FailJob, FailRanks, RestoreJob, Drain, Teardown, Pause, EndAction,
       InAction, Raises, Returns, locals
  <2>4. ASSUME WritePlan \/ (\E j \in Jobs : Cancel(j) \/ ChunksEnd(j)) \/
             (\E r \in Ranks : LoseObjects(r)) \/ UNCHANGED vars
        PROVE  FALSE
    BY <1>1, <2>4 DEF WritePlan, Cancel, ChunksEnd, LoseObjects, vars, locals
  <2> QED
    BY <2>2, <2>3, <2>4 DEF Next, Executor
<1>4. CASE Swap
  <2>1. a.ladder = {} \/ job[a.job] # "running"
    BY <1>1, <1>2, <1>4 DEF Swap, Raises, Returns
  <2> QED
    BY <1>4, <2>1 DEF Swap, stores
<1>5. CASE StopRanks
  <2>1. at \in Removing /\ SetRanks(Removed, "stopped", ActiveStatuses) /\ Removed = old \ A.ladder
    BY <1>1, <1>2, <1>5 DEF StopRanks, Raises, Returns, Removing, Removed
  <2>2. ActiveRanks(A.job) \subseteq old \cup A.ladder
    BY <2>1 DEF SwapOK
  <2> QED
    BY <1>5, <2>1, <2>2 DEF SetRanks, ActiveRanks, ActiveStatuses, RanksOf
<1> QED
  BY <1>3, <1>4, <1>5

\* What was settled stays settled until an action on the same job.
LEMMA SettledStays ==
  ASSUME TypeOK, ControlOK, [Next]_vars, InPlan', ~NextPlan,
         NEW p \in Seq(Actions), Follows(p), NEW k \in 1..Behind(p)
  PROVE  Settled(p, k)'
<1>1. Settled(p, k) /\ k \in 1..Len(p) /\ Len(act) <= Len(p)
  <2>1. act \in Seq(Actions) /\ Len(act) \in Nat /\ Len(p) \in Nat
    BY DEF TypeOK, LocalsOK
  <2> QED
    BY <2>1 DEF Follows, Behind
<1> DEFINE a == p[k]
<1> SUFFICES ASSUME a.type = "swap", errors' = 0, job'[a.job] = "running",
                    \A m \in (k + 1)..Len(p) : p[m].job # a.job,
                    ActiveRanks(a.job)' \cap a.ladder # {}
             PROVE  ActiveRanks(a.job)' \subseteq a.ladder
  BY DEF Settled
<1>2. a \in Actions /\ a.job \in Jobs
  BY <1>1 DEF Actions
<1>3. errors = 0
  BY BoundsKept, OrcaAssumption DEF TypeOK, BoundsOK
<1>4. act # <<>> => A.job # a.job
  <2> HAVE act # <<>>
  <2>1. act \in Seq(Actions) /\ Len(act) \in Nat /\ Len(act) > 0 /\ A = act[1] /\ Len(p) \in Nat
    BY DEF TypeOK, LocalsOK, A
  <2>2. A = p[Behind(p) + 1] /\ Behind(p) + 1 \in (k + 1)..Len(p)
    BY <1>1, <2>1 DEF Follows, Behind
  <2> QED
    BY <2>2
<1>5. job[a.job] = "running"
  BY <1>2, <1>4, JobSteps DEF Place
<1>6. ActiveRanks(a.job)' \subseteq ActiveRanks(a.job)
  <2>1. CASE LaunchRanks
    <3>1. act # <<>> /\ rank' \in {rank, Launched}
      BY <2>1 DEF LaunchRanks, ControlOK, Placing
    <3>2. A.ladder \subseteq RanksOf(A.job) /\ A.job # a.job
      BY <1>4, <3>1, ActionAtHand
    <3> QED
      BY <3>1, <3>2 DEF Launched, ActiveRanks, RanksOf
  <2> QED
    BY <1>2, <2>1, OnlyLaunchesActivate
<1> HIDE DEF a
<1>7. ActiveRanks(a.job) \subseteq a.ladder
  BY <1>1, <1>3, <1>5, <1>6 DEF Settled, a
<1> QED
  BY <1>6, <1>7

\* One step of a plan: either the action at hand goes on, or it joins those behind.
LEMMA PlanKept ==
  ASSUME TypeOK, TypeOK', ControlOK, SwapOK, PlanOK, [Next]_vars
  PROVE  PlanOK'
<1> SUFFICES ASSUME InPlan'
             PROVE  \E i \in queue' : IsNext(i)' /\ Follows(plans[i])'
  BY DEF PlanOK
<1>1. /\ act \in Seq(Actions) /\ Len(act) \in Nat /\ act' \in Seq(Actions) /\ Len(act') \in Nat
      /\ \A i \in queue : plans[i] \in Seq(Actions) /\ Len(plans[i]) \in Nat
  BY OrcaAssumption DEF TypeOK, LocalsOK, StoresOK
<1>2. CASE NextPlan
  <2>1. PICK i \in queue : IsNext(i) /\ act' = plans[i]
    BY <1>2 DEF NextPlan, Goto, InPlan, Placing, Removing
  <2>2. plans' = plans /\ queue' = queue /\ Len(plans'[i]) - Len(act') = 0
    BY <1>1, <1>2, <2>1 DEF NextPlan, stores
  <2>3. Follows(plans[i])'
    BY <1>1, <2>1, <2>2 DEF Follows, Behind
  <2> QED
    BY <2>1, <2>2, <2>3 DEF IsNext
<1>3. CASE ~NextPlan
  <2>1. /\ InPlan /\ queue' = queue
        /\ \A i \in queue : plans'[i] = plans[i]
        /\ act' = act \/ (act # <<>> /\ act' = Tail(act))
    BY <1>3, PlanSteps
  <2>2. PICK i \in queue : IsNext(i) /\ Follows(plans[i])
    BY <2>1 DEF PlanOK
  <2>3. PICK p \in Seq(Actions) : p = plans[i] /\ Len(p) \in Nat /\ plans'[i] = p /\ Follows(p)
    BY <1>1, <2>1, <2>2
  <2>4. IsNext(i)'
    BY <2>1, <2>2 DEF IsNext
  <2>5. \A k \in 1..Behind(p) : Settled(p, k)'
    BY <1>3, <2>3, SettledStays
  <2>6. CASE act' = act
    <3>1. /\ Len(act') <= Len(p)
          /\ \A m \in 1..Len(act') : act'[m] = p[Len(p) - Len(act') + m]
          /\ \A k \in 1..(Len(p) - Len(act')) : Settled(p, k)'
      BY <2>3, <2>5, <2>6 DEF Follows, Behind
    <3>2. Follows(plans[i])'
      BY <2>3, <3>1 DEF Follows, Behind, Settled
    <3> QED
      BY <2>1, <2>4, <3>2
  <2>7. CASE act # <<>> /\ act' = Tail(act)
    <3>1. /\ Len(act) > 0 /\ Len(act') = Len(act) - 1
          /\ \A m \in 1..Len(act') : act'[m] = act[m + 1]
      BY <1>1, <2>7, HeadTailProperties
    <3>2. /\ Len(p) \in Nat /\ Len(act) \in Nat /\ Len(act') \in Nat
          /\ Len(act') = Len(act) - 1 /\ Behind(p) = Len(p) - Len(act)
      BY <1>1, <2>3, <3>1 DEF Behind
    <3>3. PICK n \in 1..Len(p) : n = Behind(p) + 1 /\ A = p[n]
      BY <1>1, <2>3, <3>1 DEF Follows, Behind, A
    <3>4. ASSUME NEW m \in 1..Len(act')
          PROVE  act'[m] = p[Len(p) - Len(act') + m]
      <4>1. m + 1 \in 1..Len(act) /\ Behind(p) + (m + 1) = Len(p) - Len(act') + m
        BY <3>2
      <4> QED
        BY <2>3, <3>1, <4>1 DEF Follows
    <3>5. Settled(p, n)'
      <4>1. PICK a : a = p[n] /\ A = a
        BY <3>3
      <4> QED
        BY <2>1, <2>7, <4>1, SwapEnds DEF Settled
    <3>6. \A k \in 1..(Len(p) - Len(act')) : Settled(p, k)'
      <4> TAKE k \in 1..(Len(p) - Len(act'))
      <4>1. k = n \/ k \in 1..Behind(p)
        BY <3>2, <3>3
      <4> QED
        BY <2>5, <3>5, <4>1
    <3>7. Len(act') <= Len(p)
      BY <1>1, <2>3, <3>1 DEF Follows
    <3>8. Follows(plans[i])'
      BY <2>3, <3>4, <3>6, <3>7 DEF Follows, Behind, Settled
    <3> QED
      BY <2>1, <2>4, <3>8
  <2> QED
    BY <2>1, <2>6, <2>7
<1> QED
  BY <1>2, <1>3

\* Only MarkApplied marks a plan, the one at hand, when all of it is behind.
LEMMA OnlyMarkApplied ==
  ASSUME TypeOK, [Next]_vars, applied' # applied
  PROVE  MarkApplied
<1>1. ASSUME Crash \/ WritePlan \/ ApplyPending \/ NextPlan \/ Place \/ Swap \/
             Preempt \/ LaunchRanks \/ AddAssociations \/ Reconcile \/ CatalogInvalid \/
             FailJob \/ FailRanks \/ RestoreJob \/ Drain \/ Teardown \/ StopRanks \/ Pause
      PROVE  FALSE
  BY <1>1 DEF Crash, WritePlan, ApplyPending, NextPlan, Place, Swap, Preempt,
     LaunchRanks, AddAssociations, Reconcile, CatalogInvalid, FailJob, FailRanks, RestoreJob,
     Drain, Teardown, StopRanks, Pause, stores
<1>2. ASSUME BeginChunkJobs \/ ChunkJob \/ BeginFinished \/ CancelChunks \/ FinishedJob \/
             FinishedRanks \/ BeginRunning \/ RestoreRunning \/ TearDownFailed \/ Requeue \/
             BeginHealth \/ Poll \/ EndHealth
      PROVE  FALSE
  BY <1>2 DEF BeginChunkJobs, ChunkJob, BeginFinished, CancelChunks, FinishedJob, FinishedRanks,
     BeginRunning, RestoreRunning, TearDownFailed, Requeue, BeginHealth, Poll, EndHealth,
     Begin, EndPass, stores
<1>3. ASSUME NEW j \in Jobs, Cancel(j) \/ ChunksEnd(j)
      PROVE  FALSE
  BY <1>3 DEF Cancel, ChunksEnd, stores
<1>4. ASSUME NEW r \in Ranks, LoseObjects(r)
      PROVE  FALSE
  BY <1>4 DEF LoseObjects, stores
<1>5. ASSUME UNCHANGED vars
      PROVE  FALSE
  BY <1>5 DEF vars, stores
<1> QED
  BY <1>1, <1>2, <1>3, <1>4, <1>5 DEF Next, Executor

\* What SwapSurvivesCrashes asks of a step.
Converges ==
    \A i \in applied' \ applied : \A k \in 1..Len(plans[i]) :
        LET a == plans[i][k]
        IN a.type = "swap" /\ job'[a.job] = "running" /\ errors' = 0
              /\ (\A m \in (k + 1)..Len(plans[i]) : plans[i][m].job # a.job)
              /\ ActiveRanks(a.job)' \cap a.ladder # {}
           => ActiveRanks(a.job)' \subseteq a.ladder

LEMMA AppliedIsSettled ==
  ASSUME TypeOK, PlanOK, [Next]_vars
  PROVE  Converges
<1>0. applied' # applied => plans' = plans
  BY OnlyMarkApplied DEF MarkApplied
<1> SUFFICES ASSUME NEW i \in applied' \ applied, NEW k \in 1..Len(plans[i]),
                    NEW a, a = plans[i][k], a.type = "swap", job'[a.job] = "running", errors' = 0,
                    \A m \in (k + 1)..Len(plans[i]) : plans[i][m].job # a.job,
                    ActiveRanks(a.job)' \cap a.ladder # {}
             PROVE  ActiveRanks(a.job)' \subseteq a.ladder
  BY <1>0 DEF Converges
<1>1. MarkApplied
  BY OnlyMarkApplied
<1>2. /\ at = "action" /\ act = <<>> /\ i \in queue /\ IsNext(i)
      /\ UNCHANGED <<job, rank, errors>>
  BY <1>1 DEF MarkApplied, Returns
<1>3. Follows(plans[i])
  <2>1. PICK h \in queue : IsNext(h) /\ Follows(plans[h])
    BY <1>2 DEF PlanOK, InPlan
  <2>2. h = i
    <3>1. h \in Nat /\ i \in Nat
      BY <1>2 DEF TypeOK, LocalsOK
    <3> QED
      BY <1>2, <2>1, <3>1 DEF IsNext
  <2> QED
    BY <2>1, <2>2
<1>4. Settled(plans[i], k)
  <2>1. plans[i] \in Seq(Actions)
    BY <1>2, OrcaAssumption DEF TypeOK, StoresOK, LocalsOK
  <2> QED
    BY <1>2, <1>3, <2>1 DEF Follows, Behind
<1> QED
  BY <1>2, <1>4 DEF Settled, ActiveRanks

\* Between the stages of a swap and between its plan's actions the process may crash, users
\* may cancel and plans arrive: an applied plan's last swap of a running job has left only
\* its ladder (orca.py, _apply_plan and _swap).
THEOREM SwapsConverge == Spec => SwapSurvivesCrashes
<1>1. Init => SwapOK /\ PlanOK
  BY DEF Init, SwapOK, PlanOK, InPlan, Placing, Removing
<1>2. IInv /\ SwapOK /\ PlanOK /\ [Next]_vars => (SwapOK /\ PlanOK)'
  BY SwapKept, PlanKept, Inductive DEF IInv
<1>3. IInv /\ PlanOK /\ [Next]_vars => [Converges]_vars
  BY AppliedIsSettled DEF IInv, Converges
<1> QED
  BY <1>1, <1>2, <1>3, Initially, Inductive, PTL DEF Spec, SwapSurvivesCrashes, Converges
===============================================================================
