----------------------------- MODULE ReplicasProofs -----------------------------
(***************************************************************************)
(* Proofs about Replicas, for any replicas, configurations and chunks, any *)
(* number of swaps and of faults, and whether or not a failed launch       *)
(* leaves a cluster behind.                                                *)
(***************************************************************************)
EXTENDS Replicas, FiniteSetTheorems, TLAPS

\* No more leases than chunks left.
LeasesOK == left \in Nat /\ holds \subseteq Replicas /\ Cardinality(holds) <= left

\* A replica that is not known has no thread; one called dead was reported; a thread
\* that gave up launching has failed its replica.
ToldOK == \A r \in Replicas :
    /\ phase[r] = "absent" => thread[r] = "none"
    /\ phase[r] = "dead" => r \in told
    /\ thread[r] \in {"gaveup", "ended"} => phase[r] \in Terminal \/ r \in told

\* Some replica is known, not swapped out, and on no list of replicas to kill; the
\* lists hold known replicas only.
SwapOK ==
    /\ \A m \in monitors : m.old \subseteq Known
    /\ \E r \in Known : phase[r] # "swapped_out" /\ \A m \in monitors : r \notin m.old

-----------------------------------------------------------------------------
\* A reclaim that fails a chunk takes a lease away with it.
LEMMA ReclaimKeepsLeases ==
  ASSUME LeasesOK, NEW R, Reclaim(R)
  PROVE  LeasesOK'
<1>1. IsFiniteSet(Replicas)
  <2>1. IsFiniteSet(Initial) /\ IsFiniteSet(Scaled)
    BY ReplicasAssumption
  <2> QED
    BY <2>1, FS_Union DEF Replicas
<1>2. IsFiniteSet(holds)
  BY <1>1, FS_Subset DEF LeasesOK
<1>3. holds' \in SUBSET holds
  BY DEF Reclaim
<1>4. /\ Cardinality(holds) \in Nat /\ Cardinality(holds') \in Nat
      /\ Cardinality(holds') <= Cardinality(holds)
      /\ Cardinality(holds) = Cardinality(holds') => holds = holds'
  BY <1>2, <1>3, FS_Subset, FS_CardinalityType
<1>5. CASE left' = left
  BY <1>3, <1>4, <1>5 DEF LeasesOK
<1>6. CASE holds \cap R # {} /\ left' = left - 1
  <2>1. holds # holds'
    BY <1>6 DEF Reclaim
  <2> QED
    BY <2>1, <1>3, <1>4, <1>6 DEF LeasesOK
<1> QED
  BY <1>5, <1>6 DEF Reclaim

\* Taking a chunk needs one that nobody holds; giving it back ends the lease.
LEMMA LeaseSteps ==
  ASSUME LeasesOK, NEW r \in Replicas, PullChunk(r) \/ CompleteChunk(r)
  PROVE  LeasesOK'
<1>1. IsFiniteSet(Replicas)
  <2>1. IsFiniteSet(Initial) /\ IsFiniteSet(Scaled)
    BY ReplicasAssumption
  <2> QED
    BY <2>1, FS_Union DEF Replicas
<1>2. IsFiniteSet(holds) /\ Cardinality(holds) \in Nat
  BY <1>1, FS_Subset, FS_CardinalityType DEF LeasesOK
<1>3. CASE PullChunk(r)
  <2>1. Cardinality(holds \cup {r}) = Cardinality(holds) + 1
    BY <1>2, <1>3, FS_AddElement DEF PullChunk
  <2> QED
    BY <2>1, <1>2, <1>3 DEF PullChunk, LeasesOK
<1>4. CASE CompleteChunk(r)
  <2>1. /\ Cardinality(holds \ {r}) = Cardinality(holds) - 1
        /\ Cardinality(holds \ {r}) \in Nat
    BY <1>2, <1>4, FS_RemoveElement, FS_CardinalityType DEF CompleteChunk
  <2> QED
    BY <2>1, <1>2, <1>4 DEF CompleteChunk, LeasesOK
<1> QED
  BY <1>3, <1>4

\* No step leaves fewer chunks than leases.
LEMMA LeasesKept ==
  ASSUME LeasesOK, [Next]_vars
  PROVE  LeasesOK'
<1>1. CASE UNCHANGED chunks
  BY <1>1 DEF chunks, LeasesOK
<1>2. ASSUME NEW r \in Replicas, LeaseExpires(r)
      PROVE  LeasesOK'
  BY <1>2, ReclaimKeepsLeases DEF LeaseExpires
<1>3. ASSUME NEW r \in Replicas, HandleDeadReplica(r)
      PROVE  LeasesOK'
  BY <1>1, <1>3, ReclaimKeepsLeases DEF HandleDeadReplica
<1>4. ASSUME NEW R, NEW how, DoKill(R, how)
      PROVE  LeasesOK'
  BY <1>1, <1>4, ReclaimKeepsLeases DEF DoKill
<1>5. ASSUME NEW m \in monitors, SwapMonitor(m)
      PROVE  LeasesOK'
  BY <1>1, <1>4, <1>5 DEF SwapMonitor
<1>6. ASSUME NEW r \in Replicas, Kill(r)
      PROVE  LeasesOK'
  BY <1>4, <1>6 DEF Kill
<1>7. ASSUME NEW r \in Replicas, LaunchThread(r) \/ MonitorThread(r) \/ TailRaises(r)
      PROVE  UNCHANGED chunks
  BY <1>7 DEF LaunchThread, Try, LaunchReturns, LaunchFails, GiveUp, Reserve, Provision,
              MonitorThread, TailReturns, Close, Finish, TailRaises
<1>8. ASSUME NEW r \in Replicas,
             \/ ReportPhase(r) \/ ReplicaComplete(r) \/ IngestJobMetrics(r) \/ BeatStale(r)
             \/ CutOff(r) \/ RunnerDies(r) \/ Teardown(r) \/ Scale(r)
      PROVE  UNCHANGED chunks
  BY <1>8 DEF ReportPhase, ReplicaComplete, IngestJobMetrics, BeatStale, CutOff, GoesStale,
              RunnerDies, Teardown, Scale
<1>9. CASE AskSwap \/ StartSwap \/ Assemble
  BY <1>1, <1>9 DEF AskSwap, StartSwap, Assemble
<1>10. CASE UNCHANGED vars
  BY <1>1, <1>10 DEF vars, chunks
<1> QED
  BY <1>1, <1>2, <1>3, <1>5, <1>6, <1>7, <1>8, <1>9, <1>10, LeaseSteps DEF Next, Runner

-----------------------------------------------------------------------------
(* Types.                                                                  *)

LEMMA TypeInit == Init => TypeOK /\ LeasesOK
<1> SUFFICES ASSUME Init PROVE TypeOK /\ LeasesOK
  OBVIOUS
<1>1. LeasesOK
  BY ReplicasAssumption, FS_EmptySet DEF Init, LeasesOK
<1>2. 1 \in 1 .. Configs
  BY ReplicasAssumption
<1>3. /\ phase \in [Replicas -> Phases] /\ thread \in [Replicas -> Threads]
      /\ attempt \in [Replicas -> 1 .. Configs]
      /\ cluster \in [Replicas -> {"none", "up", "down"}]
      /\ runner \in [Replicas -> Up \cup {"none", "exited"}]
      /\ beat \in [Replicas -> {"none", "fresh", "stale"}]
  BY <1>2 DEF Init, Phases, Terminal, Threads, Up
<1> QED
  BY <1>1, <1>3 DEF Init, TypeOK, Jobs, LeasesOK

\* The launch and monitor threads.
LEMMA ThreadTypes ==
  ASSUME TypeOK, NEW r \in Replicas, LaunchThread(r) \/ MonitorThread(r) \/ TailRaises(r)
  PROVE  TypeOK'
<1> USE ReplicasAssumption DEF TypeOK, Phases, Terminal, Threads, Up, Jobs, fleet, chunks, swapState
<1>1. CASE Try(r)
  BY <1>1 DEF Try
<1>2. CASE LaunchReturns(r)
  BY <1>2 DEF LaunchReturns
<1>3. CASE LaunchFails(r)
  <2>1. CASE r \in Initial /\ attempt[r] < Configs /\ attempt' = [attempt EXCEPT ![r] = @ + 1]
    <3>1. attempt[r] + 1 \in 1 .. Configs
      BY <2>1
    <3>2. attempt' \in [Replicas -> 1 .. Configs]
      BY <2>1, <3>1
    <3> QED
      BY <2>1, <3>2, <1>3 DEF LaunchFails
  <2>2. CASE UNCHANGED attempt
    BY <1>3, <2>2 DEF LaunchFails
  <2> QED
    BY <1>3, <2>1, <2>2 DEF LaunchFails
<1>4. CASE GiveUp(r)
  BY <1>4 DEF GiveUp
<1>5. CASE Reserve(r)
  BY <1>5 DEF Reserve
<1>6. CASE Provision(r)
  BY <1>6 DEF Provision
<1>7. CASE TailReturns(r)
  BY <1>7 DEF TailReturns
<1>8. CASE Close(r)
  BY <1>8 DEF Close, Destroy
<1>9. CASE Finish(r)
  BY <1>9 DEF Finish
<1>10. CASE TailRaises(r)
  BY <1>10 DEF TailRaises, Fault
<1> QED
  BY <1>1, <1>2, <1>3, <1>4, <1>5, <1>6, <1>7, <1>8, <1>9, <1>10 DEF LaunchThread, MonitorThread

\* The runner and the machine it runs on.
LEMMA RunnerTypes ==
  ASSUME TypeOK, LeasesOK, LeasesOK', NEW r \in Replicas,
         \/ Runner(r) \/ IngestJobMetrics(r) \/ PullChunk(r) \/ BeatStale(r) \/ CutOff(r)
         \/ RunnerDies(r)
  PROVE  TypeOK'
<1> USE DEF TypeOK, LeasesOK, Phases, Terminal, Threads, Up, Jobs, fleet, chunks, swapState
<1>1. CASE ReportPhase(r)
  BY <1>1 DEF ReportPhase
<1>2. CASE CompleteChunk(r)
  BY <1>2 DEF CompleteChunk
<1>3. CASE ReplicaComplete(r)
  BY <1>3 DEF ReplicaComplete
<1>4. CASE IngestJobMetrics(r)
  BY <1>4 DEF IngestJobMetrics
<1>5. CASE PullChunk(r)
  BY <1>5 DEF PullChunk
<1>6. CASE BeatStale(r) \/ CutOff(r)
  BY <1>6 DEF BeatStale, CutOff, GoesStale, Fault
<1>7. CASE RunnerDies(r)
  BY <1>7 DEF RunnerDies, Fault
<1> QED
  BY <1>1, <1>2, <1>3, <1>4, <1>5, <1>6, <1>7 DEF Runner

\* The control plane.
LEMMA PlaneTypes ==
  ASSUME TypeOK, LeasesOK, LeasesOK',
         \/ \E r \in Replicas : LeaseExpires(r) \/ HandleDeadReplica(r) \/ Teardown(r)
                                \/ Scale(r) \/ Kill(r)
         \/ AskSwap \/ StartSwap \/ Assemble
         \/ \E m \in monitors : SwapMonitor(m)
  PROVE  TypeOK'
<1> USE DEF TypeOK, LeasesOK, Phases, Terminal, Threads, Up, Jobs, fleet, chunks, swapState
<1>1. ASSUME NEW r \in Replicas, LeaseExpires(r)
      PROVE  TypeOK'
  BY <1>1 DEF LeaseExpires, Fault
<1>2. ASSUME NEW r \in Replicas, HandleDeadReplica(r)
      PROVE  TypeOK'
  BY <1>2 DEF HandleDeadReplica, Destroy
<1>3. ASSUME NEW r \in Replicas, Teardown(r)
      PROVE  TypeOK'
  BY <1>3 DEF Teardown, Destroy
<1>4. ASSUME NEW r \in Replicas, Scale(r)
      PROVE  TypeOK'
  BY <1>4 DEF Scale, DoScale
<1>5. ASSUME NEW r \in Replicas, Kill(r)
      PROVE  TypeOK'
  BY <1>5 DEF Kill, DoKill
<1>6. CASE AskSwap
  BY <1>6 DEF AskSwap
<1>7. CASE StartSwap
  <2> PICK R \in (SUBSET {r \in Scaled : phase[r] = "absent"}) \ {{}} :
        /\ DoScale(R)
        /\ \E k \in 1 .. Cardinality(R) :
             monitors' = monitors \cup
               {[old |-> {r \in Known : phase[r] \notin Terminal},
                 new |-> R, ready |-> {}, threshold |-> k]}
    BY <1>7 DEF StartSwap
  <2> PICK k \in 1 .. Cardinality(R) :
        monitors' = monitors \cup
          {[old |-> {r \in Known : phase[r] \notin Terminal},
            new |-> R, ready |-> {}, threshold |-> k]}
    OBVIOUS
  <2>1. k \in Nat /\ R \subseteq Scaled /\ Known \subseteq Replicas
    BY DEF Known
  <2> QED
    BY <2>1, <1>7 DEF StartSwap, DoScale
<1>8. CASE Assemble
  BY <1>8 DEF Assemble
<1>9. ASSUME NEW m \in monitors, SwapMonitor(m)
      PROVE  TypeOK'
  <2>1. monitors' \subseteq [old : SUBSET Replicas, new : SUBSET Scaled, ready : SUBSET Scaled,
                              threshold : Nat]
    BY <1>9 DEF SwapMonitor
  <2>2. phase' \in [Replicas -> Phases] /\ rows' \subseteq Replicas /\ teardown' \subseteq Replicas
    BY <1>9 DEF SwapMonitor, DoKill
  <2> QED
    BY <2>1, <2>2, <1>9 DEF SwapMonitor
<1> QED
  BY <1>1, <1>2, <1>3, <1>4, <1>5, <1>6, <1>7, <1>8, <1>9

LEMMA TypeNext == TypeOK /\ LeasesOK /\ [Next]_vars => TypeOK' /\ LeasesOK'
<1> SUFFICES ASSUME TypeOK, LeasesOK, [Next]_vars PROVE TypeOK' /\ LeasesOK'
  OBVIOUS
<1>1. LeasesOK'
  BY LeasesKept
<1>2. CASE UNCHANGED vars
  BY <1>2, <1>1 DEF vars, fleet, chunks, swapState, TypeOK
<1> QED
  BY <1>1, <1>2, ThreadTypes, RunnerTypes, PlaneTypes DEF Next

\* The tables keep their types: in particular the count of chunks left never falls below
\* zero, for a chunk is only completed by its owner and only failed with its lease.
THEOREM TypeCorrect == Spec => []TypeOK
<1>1. Init => TypeOK /\ LeasesOK
  BY TypeInit
<1>2. (TypeOK /\ LeasesOK) /\ [Next]_vars => (TypeOK /\ LeasesOK)'
  BY TypeNext
<1> QED
  BY <1>1, <1>2, PTL DEF Spec

-----------------------------------------------------------------------------
(* The guarantee of the monitor thread.                                    *)

\* Each write of a phase keeps what was told in step with it.
LEMMA ToldKept ==
  ASSUME TypeOK, ToldOK, [Next]_vars
  PROVE  ToldOK'
<1> USE DEF TypeOK, ToldOK, Terminal, fleet, chunks, swapState
<1>1. ASSUME NEW r \in Replicas, LaunchThread(r)
      PROVE  ToldOK'
  BY <1>1 DEF LaunchThread, Try, LaunchReturns, LaunchFails, GiveUp, Reserve, Provision
<1>2. ASSUME NEW r \in Replicas, MonitorThread(r) \/ TailRaises(r)
      PROVE  ToldOK'
  BY <1>2 DEF MonitorThread, TailReturns, Close, Finish, TailRaises
<1>3. ASSUME NEW r \in Replicas, Runner(r) \/ IngestJobMetrics(r) \/ PullChunk(r)
      PROVE  ToldOK'
  <2>1. CASE ReplicaComplete(r)
    <3>1. phase' = [phase EXCEPT ![r] = "completed"] /\ UNCHANGED <<thread, told>>
      BY <2>1 DEF ReplicaComplete
    <3> QED
      BY <3>1
  <2>2. CASE ReportPhase(r) \/ CompleteChunk(r) \/ PullChunk(r)
    BY <2>2 DEF ReportPhase, CompleteChunk, PullChunk
  <2>3. CASE IngestJobMetrics(r)
    BY <2>3 DEF IngestJobMetrics
  <2> QED
    BY <1>3, <2>1, <2>2, <2>3 DEF Runner
<1>4. ASSUME NEW r \in Replicas, BeatStale(r) \/ CutOff(r) \/ RunnerDies(r) \/ LeaseExpires(r)
                                 \/ Teardown(r)
      PROVE  ToldOK'
  BY <1>4 DEF BeatStale, CutOff, GoesStale, RunnerDies, LeaseExpires, Teardown
<1>5. ASSUME NEW r \in Replicas, HandleDeadReplica(r)
      PROVE  ToldOK'
  <2>1. phase[r] \in {"failed", "running"} /\ UNCHANGED thread
    BY <1>5 DEF HandleDeadReplica, Lost
  <2>2. \/ phase' = [phase EXCEPT ![r] = "completed"] /\ UNCHANGED told
        \/ phase' = [phase EXCEPT ![r] = "dead"] /\ told' = told \cup {r}
    BY <1>5 DEF HandleDeadReplica
  <2> QED
    BY <2>1, <2>2
<1>6. ASSUME NEW R \in SUBSET {r \in Scaled : phase[r] = "absent"}, DoScale(R), UNCHANGED told
      PROVE  ToldOK'
  BY <1>6 DEF DoScale
<1>7. ASSUME NEW R, NEW how \in {"killed", "swapped_out"}, DoKill(R, how),
             UNCHANGED <<thread, told>>
      PROVE  ToldOK'
  BY <1>7 DEF DoKill
<1>8. ASSUME NEW r \in Replicas, Scale(r)
      PROVE  ToldOK'
  BY <1>8, <1>6 DEF Scale
<1>9. ASSUME NEW r \in Replicas, Kill(r)
      PROVE  ToldOK'
  BY <1>9, <1>7 DEF Kill
<1>10. CASE StartSwap
  BY <1>10, <1>6 DEF StartSwap
<1>11. ASSUME NEW m \in monitors, SwapMonitor(m)
       PROVE  ToldOK'
  <2>1. CASE UNCHANGED phase
    BY <1>11, <2>1 DEF SwapMonitor
  <2> QED
    BY <1>11, <2>1, <1>7 DEF SwapMonitor
<1>12. CASE AskSwap \/ Assemble
  BY <1>12 DEF AskSwap, Assemble
<1>13. CASE UNCHANGED vars
  BY <1>13 DEF vars
<1> QED
  BY <1>1, <1>2, <1>3, <1>4, <1>5, <1>8, <1>9, <1>10, <1>11, <1>12, <1>13 DEF Next

\* The fallback at the end of monitor_replica suffices: when its thread has ended, the
\* replica is in a terminal phase or Koi was told, for "dead" is only written together
\* with a notice and nothing else takes a replica out of the terminal phases.
THEOREM MonitorGuaranteesNotice == Spec => []GuaranteedFire
<1>1. Init => TypeOK /\ LeasesOK /\ ToldOK
  BY TypeInit DEF Init, ToldOK
<1>2. (TypeOK /\ LeasesOK /\ ToldOK) /\ [Next]_vars => (TypeOK /\ LeasesOK /\ ToldOK)'
  BY TypeNext, ToldKept
<1>3. ToldOK => GuaranteedFire
  BY DEF ToldOK, GuaranteedFire
<1> QED
  BY <1>1, <1>2, <1>3, PTL DEF Spec

-----------------------------------------------------------------------------
(* Swaps.                                                                  *)

\* Phases only become swapped_out from a list, and a list is made of replicas that were
\* known before the swap's own were registered.
LEMMA SwapKept ==
  ASSUME TypeOK, SwapOK, [Next]_vars
  PROVE  SwapOK'
<1> USE DEF TypeOK, SwapOK, Known
<1>1. ASSUME UNCHANGED monitors,
             \A r \in Replicas : \/ phase'[r] = phase[r]
                                 \/ phase'[r] \notin {"absent", "swapped_out"}
      PROVE  SwapOK'
  BY <1>1
<1>2. ASSUME NEW r \in Replicas, LaunchThread(r)
      PROVE  SwapOK'
  BY <1>1, <1>2 DEF LaunchThread, Try, LaunchReturns, LaunchFails, GiveUp, Reserve, Provision,
                    swapState
<1>3. ASSUME NEW r \in Replicas, MonitorThread(r) \/ TailRaises(r)
      PROVE  SwapOK'
  BY <1>1, <1>3 DEF MonitorThread, TailReturns, Close, Finish, TailRaises, swapState
<1>4. ASSUME NEW r \in Replicas, Runner(r) \/ IngestJobMetrics(r) \/ PullChunk(r)
      PROVE  SwapOK'
  <2>1. CASE IngestJobMetrics(r)
    BY <1>1, <2>1 DEF IngestJobMetrics, swapState
  <2>2. CASE ReplicaComplete(r)
    BY <1>1, <2>2 DEF ReplicaComplete, swapState
  <2>3. CASE ReportPhase(r) \/ CompleteChunk(r) \/ PullChunk(r)
    BY <1>1, <2>3 DEF ReportPhase, CompleteChunk, PullChunk, swapState, fleet
  <2> QED
    BY <1>4, <2>1, <2>2, <2>3 DEF Runner
<1>5. ASSUME NEW r \in Replicas, BeatStale(r) \/ CutOff(r) \/ RunnerDies(r) \/ LeaseExpires(r)
                                 \/ Teardown(r)
      PROVE  SwapOK'
  BY <1>1, <1>5 DEF BeatStale, CutOff, GoesStale, RunnerDies, LeaseExpires, Teardown, swapState,
                    fleet
<1>6. ASSUME NEW r \in Replicas, HandleDeadReplica(r)
      PROVE  SwapOK'
  BY <1>1, <1>6 DEF HandleDeadReplica, swapState
<1>7. ASSUME NEW r \in Replicas, Scale(r)
      PROVE  SwapOK'
  BY <1>1, <1>7 DEF Scale, DoScale, swapState
<1>8. ASSUME NEW r \in Replicas, Kill(r)
      PROVE  SwapOK'
  BY <1>1, <1>8 DEF Kill, DoKill, swapState
<1>9. CASE StartSwap
  <2> PICK R \in (SUBSET {r \in Scaled : phase[r] = "absent"}) \ {{}} :
        /\ DoScale(R)
        /\ \E k \in 1 .. Cardinality(R) :
             monitors' = monitors \cup
               {[old |-> {r \in Known : phase[r] \notin Terminal},
                 new |-> R, ready |-> {}, threshold |-> k]}
    BY <1>9 DEF StartSwap
  <2> PICK k \in 1 .. Cardinality(R) :
        monitors' = monitors \cup
          {[old |-> {r \in Known : phase[r] \notin Terminal},
            new |-> R, ready |-> {}, threshold |-> k]}
    OBVIOUS
  <2>6. R # {}
    OBVIOUS
  <2> PICK s \in R : TRUE
    BY <2>6
  <2>1. s \in Replicas /\ phase[s] = "absent" /\ phase'[s] = "launching"
    BY DEF DoScale, Replicas
  <2>2. \A m \in monitors' : m.old \subseteq Known
    <3> TAKE m \in monitors'
    <3>1. CASE m \in monitors
      BY <3>1
    <3>2. CASE m.old = {r \in Known : phase[r] \notin Terminal}
      BY <3>2
    <3> QED
      BY <3>1, <3>2
  <2>3. Known \subseteq Known'
    BY DEF DoScale
  <2>4. \A m \in monitors' : s \notin m.old
    BY <2>1, <2>2
  <2>5. s \in Known' /\ phase'[s] # "swapped_out"
    BY <2>1
  <2> HIDE DEF Known, TypeOK
  <2> QED
    BY <2>2, <2>3, <2>4, <2>5
<1>10. ASSUME NEW m \in monitors, SwapMonitor(m)
       PROVE  SwapOK'
  <2>1. \A n \in monitors' : \E o \in monitors : n.old = o.old
    BY <1>10 DEF SwapMonitor
  <2>2. PICK r \in Known : phase[r] # "swapped_out" /\ \A n \in monitors : r \notin n.old
    OBVIOUS
  <2>3. phase'[r] = phase[r] /\ Known \subseteq Known'
    BY <2>2, <1>10 DEF SwapMonitor, DoKill
  <2> HIDE DEF Known, TypeOK
  <2> QED
    BY <2>1, <2>2, <2>3
<1>11. CASE AskSwap \/ Assemble
  BY <1>1, <1>11 DEF AskSwap, Assemble, swapState, fleet
<1>12. CASE UNCHANGED vars
  BY <1>1, <1>12 DEF vars, swapState, fleet
<1> QED
  BY <1>2, <1>3, <1>4, <1>5, <1>6, <1>7, <1>8, <1>9, <1>10, <1>11, <1>12 DEF Next

\* However many swaps are asked for, and although two that await their bodies at once both
\* start, they never swap out the whole job.
THEOREM SwapsSpareNewest == Spec => []SwapSparesNewest
<1>1. Init => TypeOK /\ LeasesOK /\ SwapOK
  <2> SUFFICES ASSUME Init PROVE SwapOK
    BY TypeInit
  <2>1. PICK r \in Initial : TRUE
    BY ReplicasAssumption
  <2> QED
    BY <2>1 DEF Init, SwapOK, Known, Replicas
<1>2. (TypeOK /\ LeasesOK /\ SwapOK) /\ [Next]_vars => (TypeOK /\ LeasesOK /\ SwapOK)'
  BY TypeNext, SwapKept
<1>3. SwapOK => SwapSparesNewest
  BY DEF SwapOK, SwapSparesNewest
<1> QED
  BY <1>1, <1>2, <1>3, PTL DEF Spec

-----------------------------------------------------------------------------
(* Killed replicas.                                                        *)

\* Launched, and in a phase that no step takes back to running: dead only counts once the
\* runner, whose metrics would revive it, is gone.
Launched(r) == thread[r] \in {"tailing", "closing", "closed", "ended"}
Gone(r) == /\ Launched(r)
           /\ \/ phase[r] \in {"killed", "swapped_out", "completed"}
              \/ phase[r] \in {"failed", "dead"} /\ runner[r] \notin Up

LEMMA GoneForGood ==
  ASSUME TypeOK, NEW s \in Replicas, Gone(s), [Next]_vars
  PROVE  Gone(s)'
<1> USE DEF TypeOK, Gone, Launched, fleet, swapState, Up
<1>1. ASSUME UNCHANGED thread, phase'[s] = phase[s], runner'[s] = runner[s] \/ runner'[s] \notin Up
      PROVE  Gone(s)'
  BY <1>1
<1>2. ASSUME NEW r \in Replicas, LaunchThread(r)
      PROVE  Gone(s)'
  BY <1>2 DEF LaunchThread, Try, LaunchReturns, LaunchFails, GiveUp, Reserve, Provision
<1>3. ASSUME NEW r \in Replicas, MonitorThread(r) \/ TailRaises(r)
      PROVE  Gone(s)'
  <2>1. CASE TailReturns(r)
    BY <2>1 DEF TailReturns
  <2>2. CASE Close(r)
    BY <2>2 DEF Close, Destroy
  <2>3. CASE Finish(r)
    BY <2>3 DEF Finish
  <2>4. CASE TailRaises(r)
    BY <2>4 DEF TailRaises, Terminal
  <2> QED
    BY <1>3, <2>1, <2>2, <2>3, <2>4 DEF MonitorThread
<1>4. ASSUME NEW r \in Replicas, Runner(r) \/ IngestJobMetrics(r) \/ PullChunk(r)
      PROVE  Gone(s)'
  <2>1. CASE ReplicaComplete(r)
    BY <2>1 DEF ReplicaComplete
  <2>2. CASE ReportPhase(r)
    BY <2>2 DEF ReportPhase
  <2>3. CASE CompleteChunk(r)
    BY <2>3 DEF CompleteChunk
  <2>4. CASE IngestJobMetrics(r)
    BY <2>4 DEF IngestJobMetrics
  <2>5. CASE PullChunk(r)
    BY <2>5 DEF PullChunk
  <2> QED
    BY <1>4, <2>1, <2>2, <2>3, <2>4, <2>5 DEF Runner
<1>5. ASSUME NEW r \in Replicas, BeatStale(r) \/ CutOff(r) \/ LeaseExpires(r)
      PROVE  Gone(s)'
  BY <1>1, <1>5 DEF BeatStale, CutOff, GoesStale, LeaseExpires
<1>6. ASSUME NEW r \in Replicas, RunnerDies(r) \/ Teardown(r)
      PROVE  Gone(s)'
  BY <1>6 DEF RunnerDies, Teardown, Destroy
<1>7. ASSUME NEW r \in Replicas, HandleDeadReplica(r)
      PROVE  Gone(s)'
  <2>1. CASE r # s
    BY <1>7, <2>1 DEF HandleDeadReplica, Destroy
  <2>2. CASE r = s
    <3>1. phase[s] = "failed" /\ ~ Graceful(s)
      BY <1>7, <2>2 DEF HandleDeadReplica, Lost, Graceful
    <3> QED
      BY <3>1, <1>7, <2>2 DEF HandleDeadReplica
  <2> QED
    BY <2>1, <2>2
<1>8. ASSUME NEW R \in SUBSET {r \in Scaled : phase[r] = "absent"}, DoScale(R), UNCHANGED runner
      PROVE  Gone(s)'
  BY <1>8 DEF DoScale
<1>9. ASSUME NEW R, NEW how, DoKill(R, how), UNCHANGED <<thread, runner>>
      PROVE  Gone(s)'
  BY <1>9 DEF DoKill, Terminal
<1>10. ASSUME NEW r \in Replicas, Scale(r)
       PROVE  Gone(s)'
  BY <1>10, <1>8 DEF Scale
<1>11. ASSUME NEW r \in Replicas, Kill(r)
       PROVE  Gone(s)'
  BY <1>11, <1>9 DEF Kill
<1>12. CASE StartSwap
  BY <1>12, <1>8 DEF StartSwap
<1>13. ASSUME NEW m \in monitors, SwapMonitor(m)
       PROVE  Gone(s)'
  <2>1. CASE UNCHANGED phase
    BY <1>13, <2>1, <1>1 DEF SwapMonitor
  <2> QED
    BY <1>13, <2>1, <1>9 DEF SwapMonitor
<1>14. CASE AskSwap \/ Assemble
  BY <1>14 DEF AskSwap, Assemble
<1>15. CASE UNCHANGED vars
  BY <1>15 DEF vars
<1> QED
  BY <1>2, <1>3, <1>4, <1>5, <1>6, <1>7, <1>10, <1>11, <1>12, <1>13, <1>14, <1>15 DEF Next

\* A kill or a swap of a launched replica is final, whatever the runner still reports and
\* whatever the monitor thread and the watchdog write afterwards.
THEOREM KillsAreFinal == Spec => KilledStaysOut
<1> SUFFICES ASSUME NEW s \in Replicas
             PROVE  Spec => StaysOut(s)
  BY DEF KilledStaysOut
<1>1. TypeOK /\ Gone(s) /\ [Next]_vars => Gone(s)'
  BY GoneForGood
<1>2. /\ phase[s] \in {"killed", "swapped_out"}
      /\ thread[s] \in {"tailing", "closing", "closed", "ended"}
      => Gone(s)
  BY DEF Gone, Launched
<1>3. Gone(s) => phase[s] \in Terminal
  BY DEF Gone, Terminal
<1>4. Spec => []TypeOK
  BY TypeCorrect
<1> QED
  BY <1>1, <1>2, <1>3, <1>4, PTL DEF Spec, StaysOut
================================================================================
