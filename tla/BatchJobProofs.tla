---------------------------- MODULE BatchJobProofs ----------------------------
(***************************************************************************)
(* Proofs about BatchJob, for any set of chunks, replicas and assembly     *)
(* tasks, any retry budget and any number of faults.                       *)
(*                                                                         *)
(* The system is first shown to make legal calls of its queue only.  What  *)
(* ChunkQueueProofs proves of the queue under its most general callers     *)
(* then holds of the system, and is used to prove more about it.           *)
(***************************************************************************)
EXTENDS BatchJob, FiniteSetTheorems, TLAPS

QP == INSTANCE ChunkQueueProofs WITH MaxInterrupts <- 0

-----------------------------------------------------------------------------
(* The queue that BatchJob instantiates as Q is the queue whose theorems    *)
(* are instantiated as QP.                                                  *)

LEMMA SameEnumerations ==
  ASSUME NEW S
  PROVE  /\ Q!Cardinality(S) = QP!Cardinality(S)
         /\ Q!SetToSeqs(S) = QP!SetToSeqs(S)
         /\ Q!Range(S) = QP!Range(S)
         /\ Q!IsInjective(S) <=> QP!IsInjective(S)
<1>1. Q!Cardinality(S) = QP!Cardinality(S)
  BY DEF Q!Cardinality, QP!Cardinality
<1>2. Q!SetToSeqs(S) = QP!SetToSeqs(S)
  BY <1>1 DEF Q!SetToSeqs, QP!SetToSeqs
<1>3. Q!Range(S) = QP!Range(S)
  BY DEF Q!Range, QP!Range
<1>4. Q!IsInjective(S) <=> QP!IsInjective(S)
  BY DEF Q!IsInjective, QP!IsInjective
<1> QED
  BY <1>1, <1>2, <1>3, <1>4

LEMMA SameReading ==
  /\ Q!AllDone <=> QP!AllDone
  /\ Q!Expired = QP!Expired
  /\ Q!PassiveReclaim = QP!PassiveReclaim
  /\ \A R : Q!OwnedBy(R) = QP!OwnedBy(R)
  /\ \A S : Q!Exhausted(S) = QP!Exhausted(S)
  /\ \A S : Q!FailedAfter(S) = QP!FailedAfter(S)
  /\ \A S : Q!StatusAfter(S) = QP!StatusAfter(S)
  /\ \A S : Q!LeaseAfter(S) = QP!LeaseAfter(S)
  /\ \A S : Q!RetriesAfter(S) = QP!RetriesAfter(S)
<1>1. Q!AllDone <=> QP!AllDone
  BY SameEnumerations DEF Q!AllDone, QP!AllDone
<1>2. Q!Expired = QP!Expired /\ Q!PassiveReclaim = QP!PassiveReclaim
  BY DEF Q!Expired, QP!Expired, Q!PassiveReclaim, QP!PassiveReclaim
<1>3. \A R : Q!OwnedBy(R) = QP!OwnedBy(R)
  BY DEF Q!OwnedBy, QP!OwnedBy
<1>4. \A S : Q!Exhausted(S) = QP!Exhausted(S)
  BY DEF Q!Exhausted, QP!Exhausted
<1>5. ASSUME NEW S
      PROVE  /\ Q!FailedAfter(S) = QP!FailedAfter(S)
             /\ Q!StatusAfter(S) = QP!StatusAfter(S)
             /\ Q!LeaseAfter(S) = QP!LeaseAfter(S)
             /\ Q!RetriesAfter(S) = QP!RetriesAfter(S)
  BY <1>4 DEF Q!FailedAfter, QP!FailedAfter, Q!StatusAfter, QP!StatusAfter,
              Q!LeaseAfter, QP!LeaseAfter, Q!RetriesAfter, QP!RetriesAfter
<1> QED
  BY <1>1, <1>2, <1>3, <1>4, <1>5

LEMMA SameCalls ==
  /\ \A S : Q!Reclaim(S) <=> QP!Reclaim(S)
  /\ \A r : Q!PullChunk(r) <=> QP!PullChunk(r)
  /\ \A r : Q!PullInterrupted(r) <=> QP!PullInterrupted(r)
  /\ \A r, c : Q!RenewLease(r, c) <=> QP!RenewLease(r, c)
  /\ \A r, c : Q!CompleteChunk(r, c) <=> QP!CompleteChunk(r, c)
  /\ \A R : Q!ForceReclaim(R) <=> QP!ForceReclaim(R)
  /\ \A c : Q!LeaseExpires(c) <=> QP!LeaseExpires(c)
  /\ Q!ReclaimExpiredChunks <=> QP!ReclaimExpiredChunks
  /\ Q!CleanupJob <=> QP!CleanupJob
<1>1. ASSUME NEW S PROVE Q!Reclaim(S) <=> QP!Reclaim(S)
  BY SameEnumerations, SameReading DEF Q!Reclaim, QP!Reclaim
<1>2. ASSUME NEW r, NEW last, NEW S, NEW queued
      PROVE  Q!Hand(r, last, S, queued) <=> QP!Hand(r, last, S, queued)
  BY SameReading DEF Q!Hand, QP!Hand
<1>3. ASSUME NEW r, NEW last PROVE Q!PullThrough(r, last) <=> QP!PullThrough(r, last)
  BY <1>2, SameEnumerations, SameReading DEF Q!PullThrough, QP!PullThrough
<1>4. Q!PullNothing <=> QP!PullNothing
  BY <1>1, SameReading DEF Q!PullNothing, QP!PullNothing
<1>5. ASSUME NEW r
      PROVE  /\ Q!PullChunk(r) <=> QP!PullChunk(r)
             /\ Q!PullInterrupted(r) <=> QP!PullInterrupted(r)
  BY <1>3, <1>4 DEF Q!PullChunk, QP!PullChunk, Q!PullInterrupted, QP!PullInterrupted
<1>6. ASSUME NEW r, NEW c
      PROVE  /\ Q!RenewLease(r, c) <=> QP!RenewLease(r, c)
             /\ Q!CompleteChunk(r, c) <=> QP!CompleteChunk(r, c)
             /\ Q!LeaseExpires(c) <=> QP!LeaseExpires(c)
  BY DEF Q!RenewLease, QP!RenewLease, Q!CompleteChunk, QP!CompleteChunk,
         Q!LeaseExpires, QP!LeaseExpires
<1>7. ASSUME NEW R PROVE Q!ForceReclaim(R) <=> QP!ForceReclaim(R)
  BY <1>1, SameReading DEF Q!ForceReclaim, QP!ForceReclaim
<1>8. Q!ReclaimExpiredChunks <=> QP!ReclaimExpiredChunks
  BY <1>1, SameReading DEF Q!ReclaimExpiredChunks, QP!ReclaimExpiredChunks
<1>9. Q!CleanupJob <=> QP!CleanupJob
  BY SameReading DEF Q!CleanupJob, QP!CleanupJob, Q!DeleteKeys, QP!DeleteKeys,
                     Q!DeleteSetsAndHashes, QP!DeleteSetsAndHashes
<1> QED
  BY <1>1, <1>5, <1>6, <1>7, <1>8, <1>9

LEMMA SameQueue ==
  /\ Q!Init <=> QP!Init
  /\ Q!Next <=> QP!Next
  /\ Q!vars = QP!vars
  /\ Q!TypeOK <=> QP!TypeOK
  /\ Q!SingleCustody <=> QP!SingleCustody
<1>1. Q!Init <=> QP!Init
  BY SameEnumerations DEF Q!Init, QP!Init
<1>2. Q!Next <=> QP!Next
  BY SameCalls DEF Q!Next, QP!Next
<1>3. Q!vars = QP!vars
  BY DEF Q!vars, QP!vars
<1>4. Q!TypeOK <=> QP!TypeOK
  BY DEF Q!TypeOK, QP!TypeOK, Q!Statuses, QP!Statuses, Q!Leases, QP!Leases
<1>5. Q!SingleCustody <=> QP!SingleCustody
  BY SameEnumerations DEF Q!SingleCustody, QP!SingleCustody, Q!Queued, QP!Queued
<1> QED
  BY <1>1, <1>2, <1>3, <1>4, <1>5

LEMMA QueueAssumption == QP!ChunkQueueAssumption
BY BatchJobAssumption DEF QP!ChunkQueueAssumption, QP!IsFiniteSet, IsFiniteSet

-----------------------------------------------------------------------------
(* The inductive invariant.                                                *)

\* A runner only holds a chunk that it was handed, so that no guard of the queue ever
\* stands in the way of its reports and renewals.
HeldWasHandedOut ==
    \A r \in Replicas, slot \in Slots :
       runner[r][slot] \in Chunks => <<r, runner[r][slot]>> \in pulled

\* An assembly was started because all was done, which it still is, or the job was
\* cleaned up since.
AssemblyIsDue == \A i \in Assemblies : asm[i].pc # "none" => Q!AllDone \/ ~meta

\* Until a lock lapses it is held by the one assembly at work.
LockHeld == lapses = 0 => \A i, j \in Assembling : lock /\ i = j

ReportedHasOutput ==
    \A r \in Replicas : runner[r].stage = "report" => runner[r].work \in outputs \cup blank

\* An assembly is not disturbed by another one.
Sole == lapses = 0 \/ \A i, j \in Assemblies : i = j

Spent(c) == retry_count[c] >= MaxRetries

\* An undisturbed assembly leaves out of its file, and out of what it notes as missed,
\* only chunks whose retries were exhausted.
NothingSkipped ==
    Sole => \A i \in Assemblies :
              /\ asm[i].pc = "collect" => \A c \in Chunks \ asm[i].todo : Spent(c)
              /\ asm[i].pc = "upload" =>
                   \A c \in Chunks \ asm[i].missed : c \in combined \/ Spent(c)

IInv == /\ TypeOK
        /\ QP!IInv
        /\ HeldWasHandedOut
        /\ AssemblyIsDue
        /\ LockHeld
        /\ ReportedHasOutput
        /\ CompletedHasOutput
        /\ NothingSkipped

-----------------------------------------------------------------------------
(* What a step does to the queue.                                          *)

LEMMA OwnSetToSeqs == ASSUME NEW S PROVE SetToSeqs(S) = Q!SetToSeqs(S)
<1>1. Cardinality(S) = Q!Cardinality(S)
  BY DEF Cardinality, Q!Cardinality
<1> QED
  BY <1>1 DEF SetToSeqs, Q!SetToSeqs

\* Every step of the system is a call of the queue, or leaves it alone.
LEMMA StepIsCall ==
  ASSUME TypeOK, AssemblyIsDue, [Next]_vars
  PROVE  [Q!Next]_(Q!vars)
<1> USE DEF queue, Q!vars
<1>1. ASSUME NEW r \in Replicas, PullChunk(r) PROVE Q!Next
  <2>1. Q!PullChunk(r)
    BY <1>1, OwnSetToSeqs DEF PullChunk, Q!PullChunk, Q!PullThrough
  <2> QED
    BY <2>1 DEF Q!Next
<1>2. ASSUME NEW r \in Replicas, PullEmpty(r) PROVE [Q!Next]_(Q!vars)
  BY <1>2 DEF PullEmpty, Q!Next, Q!PullChunk
<1>3. ASSUME NEW r \in Replicas, CompleteChunk(r) PROVE [Q!Next]_(Q!vars)
  <2>1. runner[r].work \in Chunks
    BY <1>3 DEF CompleteChunk, TypeOK
  <2> QED
    BY <1>3, <2>1 DEF CompleteChunk, Q!Next
<1>4. ASSUME NEW r \in Replicas, DeclareDead(r) \/ Kill(r) PROVE [Q!Next]_(Q!vars)
  BY <1>4 DEF DeclareDead, Kill, Q!Next
<1>5. ASSUME NEW r \in Replicas, NEW slot \in Slots, Renew(r, slot)
      PROVE  [Q!Next]_(Q!vars)
  BY <1>5 DEF Renew, Q!Next
<1>6. ASSUME NEW c \in Chunks, LeaseExpires(c) PROVE Q!Next
  BY <1>6 DEF LeaseExpires, Q!Next
<1>7. ASSUME NEW i \in Assemblies, AssemblyEnds(i) PROVE Q!Next
  BY <1>7 DEF AssemblyEnds, AssemblyIsDue, Q!CleanupJob, Q!Next
<1>8. CASE ReclaimLoop
  BY <1>8 DEF ReclaimLoop, Q!Next
<1>9. CASE UNCHANGED queue
  BY <1>9
<1>10. \/ UNCHANGED queue
       \/ \E r \in Replicas : PullChunk(r) \/ PullEmpty(r) \/ CompleteChunk(r)
                             \/ DeclareDead(r) \/ Kill(r)
       \/ \E r \in Replicas, slot \in Slots : Renew(r, slot)
       \/ \E c \in Chunks : LeaseExpires(c)
       \/ \E i \in Assemblies : AssemblyEnds(i)
       \/ ReclaimLoop
  <2>1. ASSUME NEW r \in Replicas, \/ Wait(r) \/ Exit(r) \/ TakePrefetched(r) \/ TakeBlank(r)
                                  \/ Upload(r) \/ UploadFails(r) \/ ReportFails(r)
                                  \/ Crash(r) \/ TearDown(r) \/ Heartbeat(r)
        PROVE  UNCHANGED queue
    BY <2>1 DEF Wait, Exit, TakePrefetched, TakeBlank, Upload, UploadFails, ReportFails,
                Crash, TearDown, Goes, Heartbeat
  <2>2. ASSUME NEW i \in Assemblies, AssemblyStarts(i) \/ Collect(i) \/ AssemblyRaises(i)
        PROVE  UNCHANGED queue
    BY <2>2 DEF AssemblyStarts, Collect, AssemblyRaises
  <2>3. LockLapses \/ UNCHANGED vars => UNCHANGED queue
    BY DEF LockLapses, vars
  <2> QED
    BY <2>1, <2>2, <2>3 DEF Next, RunnerStep, AssemblyStep
<1> QED
  BY <1>1, <1>2, <1>3, <1>4, <1>5, <1>6, <1>7, <1>8, <1>9, <1>10

\* What follows for the queue from its own theorems.
LEMMA QueueKept ==
  ASSUME IInv, [Next]_vars
  PROVE  /\ QP!IInv' /\ Q!TypeOK'
         /\ Q!AllDone \/ ~meta => Q!AllDone' \/ ~meta'
         /\ pulled \subseteq pulled'
<1>1. [Q!Next]_(Q!vars)
  BY StepIsCall DEF IInv
<1>2. QP!IInv /\ [QP!Next]_(QP!vars)
  BY <1>1, SameQueue DEF IInv, Q!vars, QP!vars
<1>3. QP!IInv'
  BY <1>2, QueueAssumption, QP!NextIInv
<1>4. Q!TypeOK'
  BY <1>3 DEF QP!IInv, Q!TypeOK, QP!TypeOK, Q!Statuses, QP!Statuses, Q!Leases, QP!Leases
<1>5. ASSUME QP!AllDone, meta' PROVE QP!AllDone'
  BY <1>2, <1>5, QueueAssumption, QP!AllDoneKept
<1>6. QP!AllDone' => Q!AllDone'
  BY DEF Q!AllDone, QP!AllDone, Q!Cardinality, QP!Cardinality
<1>7. meta' => meta
  BY <1>1 DEF Q!Next, Q!vars, Q!PullChunk, Q!PullNothing, Q!PullInterrupted, Q!PullThrough,
              Q!Hand, Q!Reclaim, Q!ReclaimExpiredChunks, Q!ForceReclaim, Q!RenewLease,
              Q!CompleteChunk, Q!LeaseExpires, Q!CleanupJob, Q!DeleteKeys,
              Q!DeleteSetsAndHashes
<1>8. pulled \subseteq pulled'
  BY <1>1 DEF Q!Next, Q!vars, Q!PullChunk, Q!PullNothing, Q!PullInterrupted, Q!PullThrough,
              Q!Hand, Q!Reclaim, Q!ReclaimExpiredChunks, Q!ForceReclaim, Q!RenewLease,
              Q!CompleteChunk, Q!LeaseExpires, Q!CleanupJob, Q!DeleteKeys,
              Q!DeleteSetsAndHashes
<1> QED
  BY <1>3, <1>4, <1>5, <1>6, <1>7, <1>8, SameReading

-----------------------------------------------------------------------------
(* The runners.                                                            *)

RunnerStates == [up : BOOLEAN, prefetch : Chunks \cup {"pulling", "empty"},
                 work : Chunks \cup {"none"}, stage : {"none", "run", "report"},
                 stolen : SUBSET Slots]

\* What the invariant says of one runner.
RunnerOK(r) ==
    /\ runner[r].work = "none" <=> runner[r].stage = "none"
    /\ runner[r].prefetch \in Chunks => <<r, runner[r].prefetch>> \in pulled
    /\ runner[r].work \in Chunks => <<r, runner[r].work>> \in pulled
    /\ runner[r].stage = "report" => runner[r].work \in outputs \cup blank

RunnersOK == runner \in [Replicas -> RunnerStates] /\ \A r \in Replicas : RunnerOK(r)

LEMMA RunnersFromIInv == IInv => RunnersOK
BY DEF IInv, TypeOK, HeldWasHandedOut, ReportedHasOutput, RunnersOK, RunnerOK, RunnerStates,
       Slots

\* A step that moves one runner only has that runner to account for.
LEMMA OneRunnerKept ==
  ASSUME RunnersOK, pulled \subseteq pulled', outputs \cup blank \subseteq outputs' \cup blank',
         NEW r \in Replicas, runner' \in [Replicas -> RunnerStates],
         \A q \in Replicas \ {r} : runner'[q] = runner[q],
         RunnerOK(r)'
  PROVE  RunnersOK'
<1> SUFFICES ASSUME NEW q \in Replicas \ {r} PROVE RunnerOK(q)'
  BY DEF RunnersOK
<1> QED
  BY DEF RunnersOK, RunnerOK

\* Outputs in S3 are never removed, and a blank chunk stays blank.
LEMMA FilesStay ==
  ASSUME [Next]_vars
  PROVE  outputs \cup blank \subseteq outputs' \cup blank'
<1>1. ASSUME NEW r \in Replicas, TakeBlank(r) \/ Upload(r)
      PROVE  outputs \cup blank \subseteq outputs' \cup blank'
  BY <1>1 DEF TakeBlank, Upload
<1>2. UNCHANGED <<outputs, blank>> \/ \E r \in Replicas : TakeBlank(r) \/ Upload(r)
  BY DEF Next, vars, files, RunnerStep, AssemblyStep, PullChunk, PullEmpty, Wait, Exit,
         TakePrefetched, UploadFails, CompleteChunk, ReportFails, Renew, Crash, TearDown, Goes,
         LeaseExpires, ReclaimLoop, DeclareDead, Heartbeat, Kill, AssemblyStarts, Collect,
         AssemblyEnds, AssemblyRaises, LockLapses
<1> QED
  BY <1>1, <1>2

LEMMA RunnersKept ==
  ASSUME IInv, [Next]_vars
  PROVE  RunnersOK'
<1>1. RunnersOK /\ pulled \subseteq pulled' /\ pulled' \subseteq Replicas \X Chunks
  BY RunnersFromIInv, QueueKept DEF Q!TypeOK
<1>2. outputs \cup blank \subseteq outputs' \cup blank'
  BY FilesStay
<1> USE DEF RunnerStates, Slots
<1>0. runner \in [Replicas -> RunnerStates] /\ \A r \in Replicas : RunnerOK(r)
  BY <1>1 DEF RunnersOK
<1>3. ASSUME UNCHANGED runner PROVE RunnersOK'
  BY <1>1, <1>2, <1>3 DEF RunnersOK, RunnerOK
<1>4. ASSUME NEW r \in Replicas, PullChunk(r) PROVE RunnersOK'
  <2>1. PICK c : /\ <<r, c>> \in pulled'
                 /\ \/ runner' = [runner EXCEPT ![r].prefetch = c, ![r].stolen = @ \ {"prefetch"}]
                    \/ UNCHANGED runner
    BY <1>4 DEF PullChunk, Q!Hand
  <2>2. c \in Chunks
    BY <1>1, <2>1
  <2>3. CASE runner' = [runner EXCEPT ![r].prefetch = c, ![r].stolen = @ \ {"prefetch"}]
    <3>1. runner' \in [Replicas -> RunnerStates]
      <4> DEFINE s == [runner[r] EXCEPT !.prefetch = c, !.stolen = @ \ {"prefetch"}]
      <4>1. s \in RunnerStates
        BY <1>0, <2>2
      <4>2. runner' = [runner EXCEPT ![r] = s]
        BY <2>3
      <4> HIDE DEF s
      <4> QED
        BY <1>0, <4>1, <4>2
    <3>2. /\ \A q \in Replicas \ {r} : runner'[q] = runner[q]
          /\ runner'[r].prefetch = c
          /\ runner'[r].work = runner[r].work /\ runner'[r].stage = runner[r].stage
      BY <1>0, <2>3
    <3>3. RunnerOK(r)'
      BY <1>0, <1>1, <1>2, <2>1, <3>2 DEF RunnerOK
    <3> QED
      BY <1>1, <1>2, <3>1, <3>2, <3>3, OneRunnerKept
  <2> QED
    BY <1>3, <2>1, <2>3
<1>5. ASSUME NEW r \in Replicas, PullEmpty(r) \/ Wait(r) PROVE RunnersOK'
  <2>1. runner' \in [Replicas -> RunnerStates]
    BY <1>0, <1>5 DEF PullEmpty, Wait
  <2>2. /\ \A q \in Replicas \ {r} : runner'[q] = runner[q]
        /\ runner'[r].prefetch \in {"empty", "pulling"}
        /\ runner'[r].work = runner[r].work /\ runner'[r].stage = runner[r].stage
    BY <1>0, <1>5 DEF PullEmpty, Wait
  <2>3. RunnerOK(r)'
    BY <1>0, <1>1, <1>2, <1>5, <2>2, BatchJobAssumption DEF RunnerOK
  <2> QED
    BY <1>1, <1>2, <2>1, <2>2, <2>3, OneRunnerKept
<1>6. ASSUME NEW r \in Replicas, Gone(r) PROVE RunnersOK'
  <2>1. runner' \in [Replicas -> RunnerStates]
    BY <1>0, <1>6 DEF Gone, Fresh
  <2>2. /\ \A q \in Replicas \ {r} : runner'[q] = runner[q]
        /\ runner'[r].prefetch = "pulling"
        /\ runner'[r].work = "none" /\ runner'[r].stage = "none"
    BY <1>0, <1>6 DEF Gone, Fresh
  <2>3. RunnerOK(r)'
    BY <1>0, <1>1, <1>2, <1>6, <2>2, BatchJobAssumption DEF RunnerOK
  <2> QED
    BY <1>1, <1>2, <2>1, <2>2, <2>3, OneRunnerKept
<1>7. ASSUME NEW r \in Replicas, TakePrefetched(r) PROVE RunnersOK'
  <2>1. runner' \in [Replicas -> RunnerStates]
    <3> DEFINE s == [runner[r] EXCEPT !.prefetch = "pulling", !.stolen = {},
                                   !.work = IF Stolen(r) THEN "none" ELSE runner[r].prefetch,
                                   !.stage = IF Stolen(r) THEN "none" ELSE "run"]
    <3>1. s \in RunnerStates
      BY <1>0, <1>7 DEF TakePrefetched
    <3>2. runner' = [runner EXCEPT ![r] = s]
      BY <1>7 DEF TakePrefetched
    <3> HIDE DEF s
    <3> QED
      BY <1>0, <3>1, <3>2
  <2>2. /\ \A q \in Replicas \ {r} : runner'[q] = runner[q]
        /\ runner'[r].prefetch = "pulling"
        /\ \/ runner'[r].work = "none" /\ runner'[r].stage = "none"
           \/ runner'[r].work = runner[r].prefetch /\ runner'[r].stage = "run"
    BY <1>0, <1>7 DEF TakePrefetched
  <2>3. RunnerOK(r)'
    BY <1>0, <1>1, <1>2, <1>7, <2>2, BatchJobAssumption DEF RunnerOK, TakePrefetched
  <2> QED
    BY <1>1, <1>2, <2>1, <2>2, <2>3, OneRunnerKept
<1>8. ASSUME NEW r \in Replicas, TakeBlank(r) PROVE RunnersOK'
  <2>1. runner' \in [Replicas -> RunnerStates]
    <3> DEFINE s == [runner[r] EXCEPT !.work = runner[r].prefetch, !.stage = "report",
                                   !.prefetch = "pulling"]
    <3>1. s \in RunnerStates
      BY <1>0, <1>8 DEF TakeBlank
    <3>2. runner' = [runner EXCEPT ![r] = s]
      BY <1>8 DEF TakeBlank
    <3> HIDE DEF s
    <3> QED
      BY <1>0, <3>1, <3>2
  <2>2. /\ \A q \in Replicas \ {r} : runner'[q] = runner[q]
        /\ runner'[r].prefetch = "pulling"
        /\ runner'[r].work = runner[r].prefetch /\ runner'[r].stage = "report"
    BY <1>0, <1>8 DEF TakeBlank
  <2>3. RunnerOK(r)'
    BY <1>0, <1>1, <1>2, <1>8, <2>2, BatchJobAssumption DEF RunnerOK, TakeBlank
  <2> QED
    BY <1>1, <1>2, <2>1, <2>2, <2>3, OneRunnerKept
<1>9. ASSUME NEW r \in Replicas, DropWork(r) PROVE RunnersOK'
  <2>1. runner' \in [Replicas -> RunnerStates]
    <3> DEFINE s == [runner[r] EXCEPT !.work = "none", !.stage = "none",
                                   !.stolen = @ \ {"work"}]
    <3>1. s \in RunnerStates
      BY <1>0, <1>9 DEF DropWork
    <3>2. runner' = [runner EXCEPT ![r] = s]
      BY <1>9 DEF DropWork
    <3> HIDE DEF s
    <3> QED
      BY <1>0, <3>1, <3>2
  <2>2. /\ \A q \in Replicas \ {r} : runner'[q] = runner[q]
        /\ runner'[r].prefetch = runner[r].prefetch
        /\ runner'[r].work = "none" /\ runner'[r].stage = "none"
    BY <1>0, <1>9 DEF DropWork
  <2>3. RunnerOK(r)'
    BY <1>0, <1>1, <1>2, <1>9, <2>2, BatchJobAssumption DEF RunnerOK
  <2> QED
    BY <1>1, <1>2, <2>1, <2>2, <2>3, OneRunnerKept
<1>10. ASSUME NEW r \in Replicas, Upload(r) PROVE RunnersOK'
  <2>1. CASE runner' = [runner EXCEPT ![r].stage = "report"]
    <3>1. runner' \in [Replicas -> RunnerStates]
      BY <1>0, <2>1
    <3>2. /\ \A q \in Replicas \ {r} : runner'[q] = runner[q]
          /\ runner'[r].prefetch = runner[r].prefetch
          /\ runner'[r].work = runner[r].work /\ runner'[r].stage = "report"
      BY <1>0, <2>1
    <3>3. runner[r].work # "none" /\ runner[r].work \in outputs'
      BY <1>0, <1>10 DEF Upload, RunnerOK
    <3>4. RunnerOK(r)'
      BY <1>0, <1>1, <1>2, <3>2, <3>3 DEF RunnerOK
    <3> QED
      BY <1>1, <1>2, <3>1, <3>2, <3>4, OneRunnerKept
  <2> QED
    BY <1>9, <1>10, <2>1 DEF Upload
<1>11. ASSUME NEW r \in Replicas, NEW slot \in Slots, Renew(r, slot) PROVE RunnersOK'
  <2>1. CASE runner' = [runner EXCEPT ![r].stolen = @ \cup {slot}]
    <3>1. runner' \in [Replicas -> RunnerStates]
      BY <1>0, <2>1
    <3>2. /\ \A q \in Replicas \ {r} : runner'[q] = runner[q]
          /\ runner'[r].prefetch = runner[r].prefetch
          /\ runner'[r].work = runner[r].work /\ runner'[r].stage = runner[r].stage
      BY <1>0, <2>1
    <3>3. RunnerOK(r)'
      BY <1>0, <1>1, <1>2, <3>2 DEF RunnerOK
    <3> QED
      BY <1>1, <1>2, <3>1, <3>2, <3>3, OneRunnerKept
  <2> QED
    BY <1>3, <1>11, <2>1 DEF Renew
<1>12. \/ UNCHANGED runner
       \/ \E r \in Replicas : \/ PullChunk(r) \/ PullEmpty(r) \/ Wait(r) \/ Gone(r)
                             \/ TakePrefetched(r) \/ TakeBlank(r) \/ DropWork(r) \/ Upload(r)
       \/ \E r \in Replicas, slot \in Slots : Renew(r, slot)
  <2>1. ASSUME NEW r \in Replicas, \/ Exit(r) \/ UploadFails(r) \/ CompleteChunk(r)
                                  \/ ReportFails(r) \/ Crash(r) \/ TearDown(r)
        PROVE  Gone(r) \/ DropWork(r) \/ UNCHANGED runner
    BY <2>1 DEF Exit, UploadFails, CompleteChunk, ReportFails, Crash, TearDown, Goes
  <2>2. ASSUME NEW r \in Replicas, DeclareDead(r) \/ Heartbeat(r) \/ Kill(r)
        PROVE  UNCHANGED runner
    BY <2>2 DEF DeclareDead, Heartbeat, Kill
  <2>3. ASSUME NEW i \in Assemblies, AssemblyStep(i) PROVE UNCHANGED runner
    BY <2>3 DEF AssemblyStep, AssemblyStarts, Collect, AssemblyEnds, AssemblyRaises
  <2>4. (\E c \in Chunks : LeaseExpires(c)) \/ ReclaimLoop \/ LockLapses \/ UNCHANGED vars
           => UNCHANGED runner
    BY DEF LeaseExpires, ReclaimLoop, LockLapses, vars
  <2> QED
    BY <2>1, <2>2, <2>3, <2>4 DEF Next, RunnerStep
<1> QED
  BY <1>3, <1>4, <1>5, <1>6, <1>7, <1>8, <1>9, <1>10, <1>11, <1>12

-----------------------------------------------------------------------------
(* The assemblies.                                                         *)

AsmStates == [pc : {"none", "spawned", "collect", "upload"},
              todo : SUBSET Chunks, missed : SUBSET Chunks]

\* The ways in which a step can matter to an assembly.
LEMMA AssemblyMoves ==
  ASSUME [Next]_vars
  PROVE  \/ UNCHANGED <<asm, lock, combined, lapses>>
         \/ Spawn /\ Q!AllDone' /\ UNCHANGED <<lock, combined, lapses>>
         \/ \E i \in Assemblies : AssemblyStep(i)
         \/ LockLapses
<1> USE DEF files
<1>1. ASSUME NEW r \in Replicas, RunnerStep(r), ~CompleteChunk(r)
      PROVE  UNCHANGED <<asm, lock, combined, lapses>>
  BY <1>1 DEF RunnerStep, PullChunk, PullEmpty, Wait, Exit, TakePrefetched, TakeBlank, Upload,
              UploadFails, ReportFails
<1>2. ASSUME NEW r \in Replicas, Crash(r) \/ TearDown(r) \/ Heartbeat(r) \/ Kill(r)
      PROVE  UNCHANGED <<asm, lock, combined, lapses>>
  BY <1>2 DEF Crash, TearDown, Goes, Heartbeat, Kill
<1>3. ASSUME NEW r \in Replicas, NEW slot \in Slots, Renew(r, slot)
      PROVE  UNCHANGED <<asm, lock, combined, lapses>>
  BY <1>3 DEF Renew
<1>4. (\E c \in Chunks : LeaseExpires(c)) \/ UNCHANGED vars
         => UNCHANGED <<asm, lock, combined, lapses>>
  BY DEF LeaseExpires, vars
<1>5. ASSUME \/ \E r \in Replicas : CompleteChunk(r) \/ DeclareDead(r)
             \/ ReclaimLoop
      PROVE  /\ UNCHANGED asm \/ (Spawn /\ Q!AllDone')
             /\ UNCHANGED <<lock, combined, lapses>>
  BY <1>5 DEF CompleteChunk, DeclareDead, ReclaimLoop, AssembleIfDone
<1> QED
  BY <1>1, <1>2, <1>3, <1>4, <1>5 DEF Next

LEMMA AsmTypeKept ==
  ASSUME IInv, [Next]_vars
  PROVE  asm' \in [Assemblies -> AsmStates]
<1> USE DEF AsmStates
<1>1. asm \in [Assemblies -> AsmStates]
  BY DEF IInv, TypeOK
<1>2. CASE Spawn
  BY <1>1, <1>2 DEF Spawn
<1>3. ASSUME NEW i \in Assemblies, AssemblyStarts(i) PROVE asm' \in [Assemblies -> AsmStates]
  BY <1>1, <1>3 DEF AssemblyStarts, NoTask
<1>4. ASSUME NEW i \in Assemblies, Collect(i) PROVE asm' \in [Assemblies -> AsmStates]
  BY <1>1, <1>4 DEF Collect
<1>5. ASSUME NEW i \in Assemblies, AssemblyEnds(i) \/ AssemblyRaises(i)
      PROVE  asm' \in [Assemblies -> AsmStates]
  BY <1>1, <1>5 DEF AssemblyEnds, AssemblyRaises, NoTask
<1>6. CASE UNCHANGED asm
  BY <1>1, <1>6
<1> QED
  BY <1>2, <1>3, <1>4, <1>5, <1>6, AssemblyMoves DEF AssemblyStep, LockLapses

LEMMA DueKept ==
  ASSUME IInv, [Next]_vars
  PROVE  AssemblyIsDue'
<1>1. asm \in [Assemblies -> AsmStates] /\ asm' \in [Assemblies -> AsmStates]
  BY AsmTypeKept DEF IInv, TypeOK, AsmStates
<1> SUFFICES ASSUME NEW i \in Assemblies, asm'[i].pc # "none", ~Q!AllDone'
             PROVE  ~meta'
  BY DEF AssemblyIsDue
<1>2. asm[i].pc # "none"
  BY <1>1, AssemblyMoves DEF Spawn, AssemblyStep, AssemblyStarts, Collect, AssemblyEnds,
                             AssemblyRaises, LockLapses, NoTask
<1> QED
  BY <1>2, QueueKept DEF IInv, AssemblyIsDue

LEMMA LockKept ==
  ASSUME IInv, [Next]_vars
  PROVE  LockHeld'
<1>1. asm \in [Assemblies -> AsmStates] /\ lapses \in Nat
  BY BatchJobAssumption DEF IInv, TypeOK, AsmStates
<1> SUFFICES ASSUME lapses' = 0, NEW i \in Assembling', NEW j \in Assembling'
             PROVE  lock' /\ i = j
  BY DEF LockHeld
<1>2. i \in Assemblies /\ j \in Assemblies
      /\ asm'[i].pc \in {"collect", "upload"} /\ asm'[j].pc \in {"collect", "upload"}
  BY DEF Assembling
<1>3. CASE UNCHANGED <<asm, lock, lapses>> \/ (Spawn /\ UNCHANGED <<lock, lapses>>)
  <2>1. i \in Assembling /\ j \in Assembling
    BY <1>1, <1>2, <1>3 DEF Spawn, Assembling, AsmStates
  <2> QED
    BY <1>3, <2>1 DEF IInv, LockHeld
<1>4. ASSUME NEW k \in Assemblies, AssemblyStarts(k) PROVE lock' /\ i = j
  <2>1. lapses = 0 /\ \A l \in Assemblies \ {k} : asm'[l] = asm[l]
    BY <1>1, <1>4 DEF AssemblyStarts
  <2>2. CASE i = k /\ j = k
    <3>1. lock'
      BY <1>1, <1>2, <1>4, <2>2 DEF AssemblyStarts, NoTask
    <3> QED
      BY <2>2, <3>1
  <2>3. CASE ~(i = k /\ j = k)
    <3>1. Assembling # {} /\ lock
      BY <1>2, <2>1, <2>3 DEF IInv, LockHeld, Assembling
    <3>2. asm'[k] = NoTask /\ lock'
      BY <1>1, <1>4, <3>1 DEF AssemblyStarts, LockFree
    <3>3. i # k /\ j # k
      BY <1>2, <3>2 DEF NoTask
    <3> QED
      BY <1>2, <2>1, <3>2, <3>3 DEF IInv, LockHeld, Assembling
  <2> QED
    BY <2>2, <2>3
<1>5. ASSUME NEW k \in Assemblies, Collect(k) PROVE lock' /\ i = j
  <2>1. i \in Assembling /\ j \in Assembling
    BY <1>1, <1>2, <1>5 DEF Collect, Assembling
  <2> QED
    BY <1>5, <2>1 DEF IInv, LockHeld, Collect
<1>6. ASSUME NEW k \in Assemblies, AssemblyEnds(k) \/ AssemblyRaises(k) PROVE FALSE
  <2>1. k \in Assembling /\ lapses = 0
    BY <1>6 DEF AssemblyEnds, AssemblyRaises, Assembling
  <2>2. asm'[k] = NoTask /\ \A l \in Assemblies \ {k} : asm'[l] = asm[l]
    BY <1>1, <1>6 DEF AssemblyEnds, AssemblyRaises
  <2>3. i # k /\ i \in Assembling
    BY <1>2, <2>2 DEF NoTask, Assembling
  <2> QED
    BY <2>1, <2>3 DEF IInv, LockHeld
<1>7. ~LockLapses
  BY <1>1 DEF LockLapses
<1> QED
  BY <1>3, <1>4, <1>5, <1>6, <1>7, AssemblyMoves DEF AssemblyStep
\* Only the clean-up of an assembly gives a chunk its retries back.
LEMMA RetriesStaySpent ==
  ASSUME IInv, [Next]_vars, NEW c \in Chunks, Spent(c),
         \A i \in Assemblies : ~AssemblyEnds(i)
  PROVE  Spent(c)'
<1> USE DEF queue
<1>1. retry_count[c] \in Nat /\ MaxRetries \in Nat
  BY BatchJobAssumption DEF IInv, TypeOK, Q!TypeOK
<1>2. ASSUME NEW S, retry_count' = Q!RetriesAfter(S) PROVE Spent(c)'
  BY <1>1, <1>2 DEF Q!RetriesAfter, Spent
<1>3. CASE UNCHANGED retry_count
  BY <1>3 DEF Spent
<1>4. UNCHANGED retry_count \/ \E S : retry_count' = Q!RetriesAfter(S)
  <2> DEFINE Grows == UNCHANGED retry_count \/ \E S : retry_count' = Q!RetriesAfter(S)
  <2>1. ASSUME NEW S, Q!Reclaim(S) PROVE Grows
    BY <2>1 DEF Q!Reclaim
  <2>2. ASSUME NEW r \in Replicas, PullChunk(r) PROVE Grows
    BY <2>2 DEF PullChunk, Q!Hand
  <2>3. ASSUME NEW r \in Replicas, PullEmpty(r) \/ DeclareDead(r) \/ Kill(r) PROVE Grows
    BY <2>1, <2>3 DEF PullEmpty, DeclareDead, Kill, Q!PullNothing, Q!ForceReclaim
  <2>4. ASSUME NEW r \in Replicas, CompleteChunk(r) PROVE UNCHANGED retry_count
    BY <2>4 DEF CompleteChunk, Q!CompleteChunk
  <2>5. ASSUME NEW r \in Replicas, NEW slot \in Slots, Renew(r, slot)
        PROVE  UNCHANGED retry_count
    BY <2>5 DEF Renew, Q!RenewLease
  <2>6. ASSUME NEW d \in Chunks, LeaseExpires(d) PROVE UNCHANGED retry_count
    BY <2>6 DEF LeaseExpires, Q!LeaseExpires
  <2>7. ReclaimLoop => Grows
    BY <2>1 DEF ReclaimLoop, Q!ReclaimExpiredChunks
  <2>8. ASSUME NEW r \in Replicas, \/ Wait(r) \/ Exit(r) \/ TakePrefetched(r) \/ TakeBlank(r)
                                  \/ Upload(r) \/ UploadFails(r) \/ ReportFails(r)
                                  \/ Crash(r) \/ TearDown(r) \/ Heartbeat(r)
        PROVE  UNCHANGED retry_count
    BY <2>8 DEF Wait, Exit, TakePrefetched, TakeBlank, Upload, UploadFails, ReportFails,
                Crash, TearDown, Goes, Heartbeat
  <2>9. ASSUME NEW i \in Assemblies, AssemblyStarts(i) \/ Collect(i) \/ AssemblyRaises(i)
        PROVE  UNCHANGED retry_count
    BY <2>9 DEF AssemblyStarts, Collect, AssemblyRaises
  <2>10. LockLapses \/ UNCHANGED vars => UNCHANGED retry_count
    BY DEF LockLapses, vars
  <2> QED
    BY <2>2, <2>3, <2>4, <2>5, <2>6, <2>7, <2>8, <2>9, <2>10 DEF Next, RunnerStep, AssemblyStep
<1> QED
  BY <1>2, <1>3, <1>4

LEMMA SkippedKept ==
  ASSUME IInv, [Next]_vars
  PROVE  NothingSkipped'
<1>1. asm \in [Assemblies -> AsmStates] /\ lapses \in Nat
  BY BatchJobAssumption DEF IInv, TypeOK, AsmStates
<1> DEFINE Good(i) == /\ asm[i].pc = "collect" => \A c \in Chunks \ asm[i].todo : Spent(c)
                      /\ asm[i].pc = "upload" =>
                           \A c \in Chunks \ asm[i].missed : c \in combined \/ Spent(c)
<1> SUFFICES ASSUME Sole', NEW i \in Assemblies PROVE Good(i)'
  BY DEF NothingSkipped
<1>2. Sole
  <2>1. ASSUME NEW k \in Assemblies, AssemblyStep(k) PROVE lapses' = lapses
    BY <2>1 DEF AssemblyStep, AssemblyStarts, Collect, AssemblyEnds, AssemblyRaises
  <2>2. lapses' = lapses \/ lapses' = lapses + 1
    BY <2>1, AssemblyMoves DEF LockLapses
  <2> QED
    BY <1>1, <2>2 DEF Sole
<1>3. Good(i) /\ (~lock => i \notin Assembling \/ \A j \in Assemblies : i = j)
  BY <1>2 DEF IInv, NothingSkipped, LockHeld, Sole
<1>4. CASE \E k \in Assemblies : AssemblyEnds(k)
  <2>1. PICK k \in Assemblies : AssemblyEnds(k)
    BY <1>4
  <2>2. k \in Assembling /\ asm'[k] = NoTask /\ (i # k => asm'[i] = asm[i])
    BY <1>1, <2>1 DEF AssemblyEnds, Assembling
  <2>3. i # k => i \notin Assembling
    BY <1>2, <2>2 DEF IInv, LockHeld, Sole
  <2> QED
    BY <2>2, <2>3 DEF NoTask, Assembling
<1>5. CASE \A k \in Assemblies : ~AssemblyEnds(k)
  <2>1. \A c \in Chunks : Spent(c) => Spent(c)'
    BY <1>5, RetriesStaySpent
  <2> HIDE DEF Spent
  <2>2. CASE combined' = combined /\ asm'[i] = asm[i]
    BY <1>3, <2>1, <2>2
  <2>3. CASE UNCHANGED <<asm, combined>> \/ LockLapses
    BY <2>2, <2>3 DEF LockLapses, files
  <2>4. CASE Spawn /\ UNCHANGED combined
    <3>1. asm'[i] = asm[i] \/ asm'[i].pc = "spawned"
      BY <1>1, <2>4 DEF Spawn, AsmStates
    <3> QED
      BY <2>2, <2>4, <3>1
  <2>5. ASSUME NEW k \in Assemblies, AssemblyStarts(k) PROVE Good(i)'
    <3>1. CASE i = k
      <4>1. asm'[i] = NoTask \/ (meta /\ UNCHANGED failed
              /\ asm'[i] = [pc |-> "collect", todo |-> Chunks \ failed, missed |-> {}])
        BY <1>1, <2>5, <3>1 DEF AssemblyStarts, queue
      <4>2. \A c \in failed : Spent(c)
        BY BatchJobAssumption DEF IInv, QP!IInv, QP!RetryBudget, Spent
      <4>3. failed \subseteq Chunks
        BY DEF IInv, TypeOK, Q!TypeOK
      <4> QED
        BY <2>1, <4>1, <4>2, <4>3 DEF NoTask
    <3>2. CASE i # k
      <4>1. asm'[i] = asm[i]
        BY <1>1, <2>5, <3>2 DEF AssemblyStarts
      <4>2. combined' = combined \/ i \notin Assembling
        BY <1>3, <2>5, <3>2 DEF AssemblyStarts, LockFree
      <4> QED
        BY <2>2, <4>1, <4>2 DEF Assembling
    <3> QED
      BY <3>1, <3>2
  <2>6. ASSUME NEW k \in Assemblies, Collect(k) PROVE Good(i)'
    <3>1. PICK found \in SUBSET (asm[k].todo \cap outputs) :
            /\ combined' = combined \cup found
            /\ asm' = [asm EXCEPT ![k] = [pc |-> "upload", todo |-> {},
                                         missed |-> @.todo \ found]]
      BY <2>6 DEF Collect
    <3>2. CASE i = k
      <4>1. asm[i].pc = "collect"
        BY <2>6, <3>2 DEF Collect
      <4>2. asm'[i].pc = "upload" /\ asm'[i].missed = asm[i].todo \ found
        BY <1>1, <3>1, <3>2
      <4> QED
        BY <1>3, <2>1, <3>1, <4>1, <4>2
    <3>3. CASE i # k
      BY <1>1, <1>3, <2>1, <3>1, <3>3
    <3> QED
      BY <3>2, <3>3
  <2>7. ASSUME NEW k \in Assemblies, AssemblyRaises(k) PROVE Good(i)'
    <3>1. k \in Assembling /\ asm'[k] = NoTask /\ (i # k => asm'[i] = asm[i])
      BY <1>1, <2>7 DEF AssemblyRaises, Assembling
    <3>2. i # k => i \notin Assembling
      BY <1>2, <3>1 DEF IInv, LockHeld, Sole
    <3> QED
      BY <3>1, <3>2 DEF NoTask, Assembling
  <2> QED
    BY <1>5, <2>3, <2>4, <2>5, <2>6, <2>7, AssemblyMoves DEF AssemblyStep
<1> QED
  BY <1>4, <1>5

LEMMA OutputsKept ==
  ASSUME IInv, [Next]_vars
  PROVE  CompletedHasOutput'
<1>1. outputs \cup blank \subseteq outputs' \cup blank'
  BY FilesStay
<1>2. CASE completed' \subseteq completed
  BY <1>1, <1>2 DEF IInv, CompletedHasOutput
<1>3. ASSUME NEW r \in Replicas, CompleteChunk(r) PROVE CompletedHasOutput'
  <2>1. completed' \subseteq completed \cup {runner[r].work} /\ runner[r].work \in outputs \cup blank
    BY <1>3 DEF CompleteChunk, Q!CompleteChunk, queue, IInv, ReportedHasOutput
  <2> QED
    BY <1>1, <2>1 DEF IInv, CompletedHasOutput
<1>4. completed' \subseteq completed \/ \E r \in Replicas : CompleteChunk(r)
  <2> USE DEF queue
  <2>1. ASSUME NEW r \in Replicas, RunnerStep(r), ~CompleteChunk(r)
        PROVE  UNCHANGED completed
    BY <2>1 DEF RunnerStep, PullChunk, PullEmpty, Wait, Exit, TakePrefetched, TakeBlank,
                Upload, UploadFails, ReportFails, Q!Hand, Q!PullNothing, Q!Reclaim
  <2>2. ASSUME NEW r \in Replicas, \/ Crash(r) \/ TearDown(r) \/ DeclareDead(r)
                                  \/ Heartbeat(r) \/ Kill(r)
        PROVE  UNCHANGED completed
    BY <2>2 DEF Crash, TearDown, Goes, DeclareDead, Heartbeat, Kill, Q!ForceReclaim, Q!Reclaim
  <2>3. ASSUME NEW r \in Replicas, NEW slot \in Slots, Renew(r, slot)
        PROVE  UNCHANGED completed
    BY <2>3 DEF Renew, Q!RenewLease
  <2>4. (\E c \in Chunks : LeaseExpires(c)) \/ ReclaimLoop \/ LockLapses \/ UNCHANGED vars
          => UNCHANGED completed
    BY DEF LeaseExpires, Q!LeaseExpires, ReclaimLoop, Q!ReclaimExpiredChunks, Q!Reclaim,
           LockLapses, vars
  <2>5. ASSUME NEW i \in Assemblies, AssemblyStep(i) PROVE completed' \subseteq completed
    BY <2>5 DEF AssemblyStep, AssemblyStarts, Collect, AssemblyEnds, AssemblyRaises,
                Q!DeleteKeys, Q!DeleteSetsAndHashes
  <2> QED
    BY <2>1, <2>2, <2>3, <2>4, <2>5 DEF Next
<1> QED
  BY <1>2, <1>3, <1>4
-----------------------------------------------------------------------------
(* The invariant of every run of a job.                                    *)

LEMMA TypeKept ==
  ASSUME IInv, [Next]_vars
  PROVE  TypeOK'
<1>1. Q!TypeOK' /\ RunnersOK' /\ asm' \in [Assemblies -> AsmStates]
  BY QueueKept, RunnersKept, AsmTypeKept
<1>2. /\ runner' \in [Replicas -> RunnerStates]
      /\ \A r \in Replicas : (runner'[r].work = "none") <=> (runner'[r].stage = "none")
  BY <1>1 DEF RunnersOK, RunnerOK
<1> DEFINE Phases == {"running", "completed", "dead", "killed"}
           Rest == /\ phase \in [Replicas -> Phases]
                   /\ outputs \cup combined \cup final \cup blank \subseteq Chunks
                   /\ onDisk \in BOOLEAN /\ lock \in BOOLEAN
                   /\ job \in {"active"} \cup Terminal
                   /\ faults \in 0..MaxFaults /\ lapses \in 0..MaxLapses
<1>3. Rest /\ runner \in [Replicas -> RunnerStates] /\ asm \in [Assemblies -> AsmStates]
  BY DEF IInv, TypeOK, RunnerStates, AsmStates
<1>4. MaxFaults \in Nat /\ MaxLapses \in Nat
  BY BatchJobAssumption
<1>5. Rest'
  <2> USE DEF Fault, files
  <2>1. faults' \in 0..MaxFaults
    <3>1. UNCHANGED faults \/ Fault
      BY DEF Next, vars, RunnerStep, AssemblyStep, PullChunk, PullEmpty, Wait, Exit,
             TakePrefetched, TakeBlank, Upload, UploadFails, CompleteChunk, ReportFails, Renew,
             Crash, TearDown, LeaseExpires, ReclaimLoop, DeclareDead, Heartbeat, Kill,
             AssemblyStarts, Collect, AssemblyEnds, AssemblyRaises, LockLapses
    <3> QED
      BY <1>3, <1>4, <3>1
  <2>2. ASSUME NEW r \in Replicas, RunnerStep(r) PROVE Rest'
    <3>1. phase' \in [Replicas -> Phases]
      BY <1>3, <2>2 DEF RunnerStep, PullChunk, PullEmpty, Wait, Exit, TakePrefetched, TakeBlank,
                        Upload, UploadFails, CompleteChunk, ReportFails
    <3>2. runner[r].stage # "none" => runner[r].work \in Chunks
      BY <1>3 DEF IInv, TypeOK
    <3>3. UNCHANGED <<combined, final, onDisk, lock, job, lapses>>
      BY <2>2 DEF RunnerStep, PullChunk, PullEmpty, Wait, Exit, TakePrefetched, TakeBlank, Upload,
             UploadFails, CompleteChunk, ReportFails
    <3>4. UNCHANGED <<outputs, blank>> \/ TakeBlank(r) \/ Upload(r)
      BY <2>2 DEF RunnerStep, PullChunk, PullEmpty, Wait, Exit, TakePrefetched,
                  UploadFails, CompleteChunk, ReportFails
    <3>5. outputs' \cup blank' \subseteq Chunks
      <4>1. CASE TakeBlank(r)
        BY <1>3, <4>1 DEF TakeBlank
      <4>2. CASE Upload(r)
        BY <1>3, <3>2, <4>2 DEF Upload
      <4> QED
        BY <1>3, <3>4, <4>1, <4>2
    <3> QED
      BY <1>3, <2>1, <3>1, <3>3, <3>5
  <2>3. ASSUME NEW r \in Replicas, \/ Crash(r) \/ TearDown(r) \/ DeclareDead(r)
                                  \/ Heartbeat(r) \/ Kill(r)
        PROVE Rest'
    BY <1>3, <2>1, <2>3 DEF Crash, TearDown, Goes, DeclareDead, Heartbeat, Kill
  <2>4. ASSUME NEW r \in Replicas, NEW slot \in Slots, Renew(r, slot) PROVE Rest'
    BY <1>3, <2>1, <2>4 DEF Renew
  <2>5. ASSUME (\E c \in Chunks : LeaseExpires(c)) \/ ReclaimLoop \/ UNCHANGED vars
        PROVE  Rest'
    BY <1>3, <2>1, <2>5 DEF LeaseExpires, ReclaimLoop, vars
  <2>6. ASSUME NEW i \in Assemblies, AssemblyStep(i) PROVE Rest'
    <3>1. asm[i].todo \subseteq Chunks
      BY <1>3 DEF AsmStates
    <3>2. UNCHANGED <<phase, outputs, blank, lapses>>
      BY <2>6 DEF AssemblyStep, AssemblyStarts, Collect, AssemblyEnds, AssemblyRaises
    <3>3. combined' \cup final' \subseteq Chunks
      BY <1>3, <2>6, <3>1 DEF AssemblyStep, AssemblyStarts, Collect, AssemblyEnds, AssemblyRaises
    <3>4. onDisk' \in BOOLEAN /\ lock' \in BOOLEAN /\ job' \in {"active"} \cup Terminal
      BY <1>3, <2>6 DEF AssemblyStep, AssemblyStarts, Collect, AssemblyEnds, AssemblyRaises,
                        Verdict, Terminal
    <3> QED
      BY <1>3, <2>1, <3>2, <3>3, <3>4
  <2>7. ASSUME LockLapses PROVE Rest'
    <3>1. /\ UNCHANGED <<phase, outputs, combined, onDisk, final, blank, job>>
          /\ lock' = FALSE /\ lapses < MaxLapses /\ lapses' = lapses + 1
      BY <2>7 DEF LockLapses
    <3>2. lapses' \in 0..MaxLapses
      BY <1>3, <1>4, <3>1
    <3> QED
      BY <1>3, <2>1, <3>1, <3>2
  <2> QED
    BY <2>2, <2>3, <2>4, <2>5, <2>6, <2>7 DEF Next
<1> QED
  BY <1>1, <1>2, <1>5 DEF TypeOK, RunnerStates, AsmStates

LEMMA InitIInv == Init => IInv
<1> SUFFICES ASSUME Init PROVE IInv
  OBVIOUS
<1>1. QP!IInv
  BY SameQueue, QueueAssumption, QP!InitIInv DEF Init
<1>2. Q!TypeOK
  BY <1>1, SameQueue DEF QP!IInv
<1>3. TypeOK
  <2>1. runner \in [Replicas -> RunnerStates]
    <3>1. Fresh \in RunnerStates
      BY DEF Fresh, RunnerStates
    <3> QED
      BY <3>1 DEF Init
  <2>2. \A r \in Replicas : runner[r].work = "none" /\ runner[r].stage = "none"
    BY DEF Init, Fresh
  <2>3. asm \in [Assemblies -> AsmStates]
    BY DEF Init, NoTask, AsmStates
  <2>4. phase \in [Replicas -> {"running", "completed", "dead", "killed"}]
    BY DEF Init
  <2>5. /\ outputs \cup combined \cup final \cup blank \subseteq Chunks
        /\ job \in {"active"} \cup Terminal
    BY DEF Init, Terminal
  <2>6. onDisk \in BOOLEAN /\ lock \in BOOLEAN
    BY DEF Init
  <2>7. faults \in 0..MaxFaults /\ lapses \in 0..MaxLapses
    BY BatchJobAssumption DEF Init
  <2> QED
    BY <1>2, <2>1, <2>2, <2>3, <2>4, <2>5, <2>6, <2>7 DEF TypeOK, RunnerStates, AsmStates
<1>4. HeldWasHandedOut /\ ReportedHasOutput
  BY BatchJobAssumption DEF Init, HeldWasHandedOut, ReportedHasOutput, Fresh, Slots
<1>5. AssemblyIsDue /\ LockHeld /\ NothingSkipped
  BY DEF Init, AssemblyIsDue, LockHeld, NothingSkipped, NoTask, Assembling
<1>6. CompletedHasOutput
  BY DEF Init, Q!Init, CompletedHasOutput
<1> QED
  BY <1>1, <1>3, <1>4, <1>5, <1>6 DEF IInv

LEMMA NextIInv == IInv /\ [Next]_vars => IInv'
<1> SUFFICES ASSUME IInv, [Next]_vars PROVE IInv'
  OBVIOUS
<1>1. TypeOK' /\ QP!IInv'
  BY TypeKept, QueueKept
<1>2. HeldWasHandedOut' /\ ReportedHasOutput'
  BY RunnersKept DEF RunnersOK, RunnerOK, HeldWasHandedOut, ReportedHasOutput, Slots
<1>3. AssemblyIsDue' /\ LockHeld' /\ NothingSkipped' /\ CompletedHasOutput'
  BY DueKept, LockKept, SkippedKept, OutputsKept
<1> QED
  BY <1>1, <1>2, <1>3 DEF IInv

LEMMA Invariance == Spec => []IInv
BY InitIInv, NextIInv, PTL DEF Spec

\* Queue, runners, files and assemblies hold what their types say, and a runner holds a
\* chunk exactly while it works on one.
THEOREM TypeCorrect == Spec => []TypeOK
BY Invariance, PTL DEF IInv

\* server.py's assembly lock does what its comment says until one of its leases of five
\* minutes runs out: one assembly at a time, whatever asks for one.
THEOREM AssembliesTakeTurns == Spec => []OneAssembly
<1>1. IInv => OneAssembly
  <2> SUFFICES ASSUME IInv, lapses = 0 PROVE Cardinality(Assembling) <= 1
    BY DEF OneAssembly, AssembledOnce
  <2>1. Assembling = {} \/ \E i \in Assembling : Assembling = {i}
    BY DEF IInv, LockHeld
  <2> QED
    BY <2>1, FS_EmptySet, FS_Singleton
<1> QED
  BY <1>1, Invariance, PTL

\* The guard of complete_chunk's model, that a chunk is reported by a replica it was
\* given to, never holds a runner back: whatever a runner holds, it was handed.
THEOREM RunnersHoldTheirOwn == Spec => []HeldWasHandedOut
BY Invariance, PTL DEF IInv

\* A runner completes a chunk only after its output is in S3, whatever becomes of the
\* runner, of its lease and of its report, or after its input could not be downloaded.
THEOREM CompletedIsStored == Spec => []CompletedHasOutput
BY Invariance, PTL DEF IInv

\* Runners, handlers, loops and assemblies together call the queue as its most general
\* callers do.
THEOREM CallsAreLegal == Spec => LegalCalls
<1>1. Init => Q!Init
  BY DEF Init
<1>2. IInv /\ [Next]_vars => [Q!Next]_(Q!vars)
  BY StepIsCall DEF IInv
<1> QED
  BY <1>1, <1>2, Invariance, PTL DEF Spec, LegalCalls, Q!Spec

\* As long as assemblies do not overlap (no lock lapses, or there is never a second
\* one), a job is called succeeded only with every chunk in output.jsonl, but those
\* whose retries were exhausted.
THEOREM SuccessHoldsUp ==
  ASSUME MaxLapses = 0 \/ \A i, j \in Assemblies : i = j
  PROVE  Spec => SuccessIsComplete
<1> DEFINE Complete == job' = "succeeded" /\ job # "succeeded" =>
                         \A c \in Chunks : c \in final' \/ retry_count[c] >= MaxRetries
<1>1. IInv /\ [Next]_vars => Complete
  <2> SUFFICES ASSUME IInv, [Next]_vars, job' # job, job' = "succeeded", NEW c \in Chunks
               PROVE  c \in final' \/ Spent(c)
    BY DEF Spent
  <2>1. Sole
    BY BatchJobAssumption DEF IInv, TypeOK, Sole
  <2>2. PICK i \in Assemblies : AssemblyEnds(i) \/ AssemblyRaises(i)
    BY DEF Next, vars, RunnerStep, AssemblyStep, PullChunk, PullEmpty, Wait, Exit,
           TakePrefetched, TakeBlank, Upload, UploadFails, CompleteChunk, ReportFails, Renew,
           Crash, TearDown, Goes, LeaseExpires, ReclaimLoop, DeclareDead, Heartbeat, Kill,
           AssemblyStarts, Collect, LockLapses
  <2>3. asm[i].pc = "upload" /\ asm[i].missed = {} /\ final' = combined
    BY <2>2 DEF AssemblyEnds, AssemblyRaises, Verdict
  <2> QED
    BY <2>1, <2>3 DEF IInv, NothingSkipped
<1>2. IInv /\ [Next]_vars => [Complete]_vars
  BY <1>1
<1> QED
  BY <1>2, Invariance, PTL DEF Spec, SuccessIsComplete
-----------------------------------------------------------------------------
(* The queue's own theorems, carried over to the system.                   *)

LEMMA SpecIsQueue == Spec => QP!Spec
<1>1. Init => QP!Init
  BY SameQueue DEF Init
<1>2. IInv /\ [Next]_vars => [QP!Next]_(QP!vars)
  BY StepIsCall, SameQueue DEF IInv, Q!vars, QP!vars
<1> QED
  BY <1>1, <1>2, Invariance, PTL DEF Spec, QP!Spec

\* In the whole system too, no chunk is queued twice or in two custodies.
THEOREM SystemKeepsCustody == Spec => []Q!SingleCustody
BY SpecIsQueue, QueueAssumption, QP!Custody, SameQueue, PTL

\* While the job's keys exist, crashes of runners, lost answers, kills and dead replicas
\* lose none of its chunks: without an interrupted pull the queue accounts for all.
THEOREM SystemLosesNothing == Spec => []Q!NoChunkLost
<1>1. QP!NoChunkLost => Q!NoChunkLost
  BY SameEnumerations DEF Q!NoChunkLost, QP!NoChunkLost, Q!Unaccounted, QP!Unaccounted,
                          Q!Queued, QP!Queued
<1> QED
  BY <1>1, SpecIsQueue, QueueAssumption, QP!NothingLost, PTL

LEMMA SamePool ==
  /\ QP!Pool!PoolInit => Q!Pool!PoolInit
  /\ [QP!Pool!PoolNext]_(QP!Pool!poolVars) => [Q!Pool!PoolNext]_(Q!Pool!poolVars)
<1>1. /\ \A c : Q!TaskState(c) = QP!TaskState(c) /\ Q!TaskTries(c) = QP!TaskTries(c)
      /\ \A c : Q!TaskState(c)' = QP!TaskState(c)' /\ Q!TaskTries(c)' = QP!TaskTries(c)'
  BY DEF Q!TaskState, QP!TaskState, Q!TaskTries, QP!TaskTries
<1>2. QP!Pool!PoolInit => Q!Pool!PoolInit
  BY <1>1 DEF QP!Pool!PoolInit, Q!Pool!PoolInit
<1>3. ASSUME NEW S
      PROVE  /\ QP!Pool!Lost(S) = Q!Pool!Lost(S)
             /\ QP!Pool!CountLost(S) => Q!Pool!CountLost(S)
  BY <1>1 DEF QP!Pool!Lost, Q!Pool!Lost, QP!Pool!AfterLoss, Q!Pool!AfterLoss,
              QP!Pool!CountLost, Q!Pool!CountLost
<1>4. ASSUME NEW S PROVE QP!Pool!Lose(S) => Q!Pool!Lose(S)
  BY <1>1, <1>3 DEF QP!Pool!Lose, Q!Pool!Lose
<1>5. ASSUME NEW S, NEW t PROVE QP!Pool!Relet(S, t) => Q!Pool!Relet(S, t)
  BY <1>1, <1>3 DEF QP!Pool!Relet, Q!Pool!Relet
<1>6. ASSUME NEW t PROVE /\ QP!Pool!Lease(t) => Q!Pool!Lease(t)
                         /\ QP!Pool!Finish(t) => Q!Pool!Finish(t)
  BY <1>1 DEF QP!Pool!Lease, Q!Pool!Lease, QP!Pool!Finish, Q!Pool!Finish
<1>7. QP!Pool!Retire => Q!Pool!Retire
  BY <1>1 DEF QP!Pool!Retire, Q!Pool!Retire
<1>8. QP!Pool!PoolNext => Q!Pool!PoolNext
  BY <1>4, <1>5, <1>6, <1>7 DEF QP!Pool!PoolNext, Q!Pool!PoolNext
<1>9. UNCHANGED QP!Pool!poolVars => UNCHANGED Q!Pool!poolVars
  BY <1>1 DEF QP!Pool!poolVars, Q!Pool!poolVars
<1> QED
  BY <1>2, <1>8, <1>9

\* The whole system is a pool of leased tasks: a chunk fails only by its last lost
\* lease, is completed only after a lease, and completed is final.
THEOREM SystemImplementsPool == Spec => Q!ImplementsTaskPool
<1>1. Spec => QP!ImplementsTaskPool
  BY SpecIsQueue, QueueAssumption, QP!QueueImplementsPool
<1> QED
  BY <1>1, SamePool, PTL
     DEF QP!ImplementsTaskPool, Q!ImplementsTaskPool, QP!Pool!PoolSpec, Q!Pool!PoolSpec
===============================================================================
