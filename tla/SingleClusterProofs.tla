-------------------------- MODULE SingleClusterProofs --------------------------
(***************************************************************************)
(* Proofs about SingleCluster, for any requests, quota, number of vCPUs of *)
(* a cluster and any number of stops, crashes and faults.                  *)
(*                                                                         *)
(* And about Submission, for any types, regions, quotas and requests: at   *)
(* most two regions have no image.                                         *)
(***************************************************************************)
EXTENDS SingleCluster, Submission, FiniteSetTheorems, WellFoundedInduction, TLAPS

-----------------------------------------------------------------------------
(* The total of a set of reservations does not depend on the order in which *)
(* the fold takes them.  Induction is by a smallest counterexample.         *)

\* A property that fails of a set of jobs fails of one whose proper subsets all have it.
LEMMA SmallestCounterexample ==
  ASSUME NEW Bad, Bad \subseteq SUBSET Jobs, Bad # {}
  PROVE  \E S \in Bad : \A R \in SUBSET S : R # S => R \notin Bad
<1>1. FiniteSubsetsOf(Jobs) = SUBSET Jobs
  BY SingleClusterAssumption, FS_FiniteSubsetsOfFinite
<1>2. IsWellFoundedOn(StrictSubsetOrdering(Jobs), SUBSET Jobs)
  BY <1>1, FS_StrictSubsetOrderingWellFounded
<1>3. PICK S \in Bad : \A R \in Bad : ~ (<<R, S>> \in StrictSubsetOrdering(Jobs))
  BY <1>2, WFMin, Zenon
<1>4. ASSUME NEW R \in SUBSET S, R # S PROVE R \notin Bad
  <2>1. <<R, S>> \in (SUBSET Jobs) \X (SUBSET Jobs)
    BY <1>4
  <2>2. <<R, S>> \in StrictSubsetOrdering(Jobs)
    BY <1>4, <2>1 DEF StrictSubsetOrdering
  <2> QED
    BY <1>3, <2>2
<1> QED
  BY <1>4

\* The element of a set that the fold takes first.
FirstTaken(S) == CHOOSE j \in S : TRUE

\* f is the recursive function of the fold over the subsets of S.
Folds(f, S) == f = [R \in SUBSET S |-> IF R = {} THEN 0
                                       ELSE Vcpus[FirstTaken(R)] + f[R \ {FirstTaken(R)}]]
Fold(S) == CHOOSE f : Folds(f, S)

LEMMA TotalIsFold == \A S : Total(S) = Fold(S)[S]
BY DEF Total, MapThenSumSet, MapThenFoldSet, Fold, Folds, FirstTaken

\* The recursion is well defined, and folds of different sets agree.
LEMMA FoldsExist ==
  ASSUME NEW S \in SUBSET Jobs
  PROVE  Folds(Fold(S), S) /\ \A R \in SUBSET S : Fold(S)[R] = Total(R)
<1> DEFINE P(T) == Folds(Fold(T), T) /\ \A R \in SUBSET T : Fold(T)[R] = Total(R)
           Bad == {T \in SUBSET Jobs : ~ P(T)}
<1> SUFFICES ASSUME Bad # {} PROVE FALSE
  OBVIOUS
<1>1. PICK T \in Bad : \A R \in SUBSET T : R # T => R \notin Bad
  <2> HIDE DEF P
  <2>1. Bad \subseteq SUBSET Jobs
    OBVIOUS
  <2> HIDE DEF Bad
  <2> QED
    BY <2>1, SmallestCounterexample
<1>2. ~ P(T) /\ T \in SUBSET Jobs /\ \A R \in SUBSET T : R # T => P(R)
  <2> HIDE DEF P
  <2> QED
    BY <1>1
<1>3. ASSUME NEW R \in SUBSET T, R # T
      PROVE  Total(R) = IF R = {} THEN 0 ELSE Vcpus[FirstTaken(R)] + Total(R \ {FirstTaken(R)})
  <2>1. Fold(R) = [Q \in SUBSET R |-> IF Q = {} THEN 0
                                      ELSE Vcpus[FirstTaken(Q)] + Fold(R)[Q \ {FirstTaken(Q)}]]
    BY <1>2, <1>3 DEF Folds
  <2>2. Fold(R)[R] = IF R = {} THEN 0 ELSE Vcpus[FirstTaken(R)] + Fold(R)[R \ {FirstTaken(R)}]
    BY <2>1
  <2>3. Fold(R)[R] = Total(R) /\ Fold(R)[R \ {FirstTaken(R)}] = Total(R \ {FirstTaken(R)})
    BY <1>2, <1>3
  <2> QED
    BY <2>2, <2>3
<1>4. \A R \in SUBSET T : R # {} => FirstTaken(R) \in R /\ R \ {FirstTaken(R)} \in SUBSET T
                                     /\ R \ {FirstTaken(R)} # T
  BY DEF FirstTaken
<1> DEFINE g == [R \in SUBSET T |-> IF R = {} THEN 0
                                    ELSE Vcpus[FirstTaken(R)] + Total(R \ {FirstTaken(R)})]
<1>5. Folds(g, T)
  <2>1. \A R \in SUBSET T : R # T => g[R] = Total(R)
    BY <1>3
  <2>2. \A R \in SUBSET T : R # {} => g[R \ {FirstTaken(R)}] = Total(R \ {FirstTaken(R)})
    BY <1>4, <2>1
  <2> QED
    BY <2>2 DEF Folds
<1>6. Folds(Fold(T), T)
  BY <1>5 DEF Fold
<1>7. ASSUME NEW R \in SUBSET T
      PROVE  Fold(T)[R] = IF R = {} THEN 0 ELSE Vcpus[FirstTaken(R)] + Fold(T)[R \ {FirstTaken(R)}]
  BY <1>6 DEF Folds
<1> DEFINE Off == {R \in SUBSET T : Fold(T)[R] # Total(R)}
<1>8. Off # {}
  BY <1>2, <1>6
<1>9. PICK R \in Off : \A Q \in SUBSET R : Q # R => Q \notin Off
  <2>1. Off \subseteq SUBSET Jobs
    BY <1>2
  <2> HIDE DEF Off
  <2> QED
    BY <1>8, <2>1, SmallestCounterexample
<1>10. R # T
  BY <1>9, TotalIsFold
<1>11. R # {} => Fold(T)[R \ {FirstTaken(R)}] = Total(R \ {FirstTaken(R)})
  BY <1>4, <1>9
<1> QED
  BY <1>3, <1>7, <1>9, <1>10, <1>11

LEMMA TotalUnfolds ==
  ASSUME NEW S \in SUBSET Jobs
  PROVE  /\ S = {} => Total(S) = 0
         /\ S # {} => /\ FirstTaken(S) \in S
                      /\ Total(S) = Vcpus[FirstTaken(S)] + Total(S \ {FirstTaken(S)})
<1>1. Fold(S) = [Q \in SUBSET S |-> IF Q = {} THEN 0
                                    ELSE Vcpus[FirstTaken(Q)] + Fold(S)[Q \ {FirstTaken(Q)}]]
  BY FoldsExist DEF Folds
<1>2. Fold(S)[S] = IF S = {} THEN 0 ELSE Vcpus[FirstTaken(S)] + Fold(S)[S \ {FirstTaken(S)}]
  BY <1>1
<1>3. Fold(S)[S] = Total(S) /\ Fold(S)[S \ {FirstTaken(S)}] = Total(S \ {FirstTaken(S)})
  BY FoldsExist
<1>4. S # {} => FirstTaken(S) \in S
  BY DEF FirstTaken
<1> QED
  BY <1>2, <1>3, <1>4

\* A total is a number, and any element can be taken out of it.
LEMMA TotalTakes ==
  ASSUME NEW S \in SUBSET Jobs
  PROVE  Total(S) \in Nat /\ \A j \in S : Total(S) = Vcpus[j] + Total(S \ {j})
<1> DEFINE P(T) == Total(T) \in Nat /\ \A j \in T : Total(T) = Vcpus[j] + Total(T \ {j})
           Bad == {T \in SUBSET Jobs : ~ P(T)}
<1> SUFFICES ASSUME Bad # {} PROVE FALSE
  OBVIOUS
<1>1. PICK T \in Bad : \A R \in SUBSET T : R # T => R \notin Bad
  <2> HIDE DEF P
  <2>1. Bad \subseteq SUBSET Jobs
    OBVIOUS
  <2> HIDE DEF Bad
  <2> QED
    BY <2>1, SmallestCounterexample
<1>2. ~ P(T) /\ T \in SUBSET Jobs /\ \A R \in SUBSET T : R # T => P(R)
  <2> HIDE DEF P
  <2> QED
    BY <1>1
<1>3. T # {}
  <2>1. SUFFICES ASSUME T = {} PROVE P(T)
    BY <1>2
  <2>2. Total(T) = 0
    BY <1>2, <2>1, TotalUnfolds
  <2> QED
    BY <2>1, <2>2
<1> DEFINE c == FirstTaken(T)
<1>4. c \in T /\ Total(T) = Vcpus[c] + Total(T \ {c})
  BY <1>2, <1>3, TotalUnfolds
<1>5. \A j \in Jobs : Vcpus[j] \in Nat
  BY SingleClusterAssumption
<1> HIDE DEF c
<1>6. T \ {c} \in SUBSET T /\ T \ {c} # T
  BY <1>4
<1>7. Total(T \ {c}) \in Nat /\ Total(T) \in Nat
  BY <1>2, <1>4, <1>5, <1>6
<1>8. ASSUME NEW j \in T PROVE Total(T) = Vcpus[j] + Total(T \ {j})
  <2>1. CASE j = c
    BY <1>4, <2>1
  <2>2. CASE j # c
    <3> DEFINE n == Total((T \ {c}) \ {j})
    <3>1. Total(T \ {c}) = Vcpus[j] + n
      BY <1>2, <1>6, <2>2
    <3>2. T \ {j} \in SUBSET T /\ T \ {j} # T /\ c \in T \ {j}
      BY <1>4, <2>2
    <3>3. Total(T \ {j}) = Vcpus[c] + Total((T \ {j}) \ {c})
      BY <1>2, <3>2
    <3>4. Total((T \ {j}) \ {c}) = n
      <4>1. (T \ {j}) \ {c} = (T \ {c}) \ {j}
        OBVIOUS
      <4> QED
        BY <4>1
    <3>5. n \in Nat
      <4>1. (T \ {c}) \ {j} \in SUBSET T /\ (T \ {c}) \ {j} # T
        BY <1>6
      <4> QED
        BY <1>2, <4>1
    <3>6. Vcpus[j] \in Nat /\ Vcpus[c] \in Nat
      BY <1>2, <1>4, <1>5
    <3> HIDE DEF n
    <3>7. Total(T) = Vcpus[c] + (Vcpus[j] + n) /\ Total(T \ {j}) = Vcpus[c] + n
      BY <1>4, <3>1, <3>3, <3>4
    <3>8. Vcpus[c] + (Vcpus[j] + n) = Vcpus[j] + (Vcpus[c] + n)
      BY <3>5, <3>6
    <3> QED
      BY <3>7, <3>8
  <2> QED
    BY <2>1, <2>2
<1> QED
  BY <1>2, <1>7, <1>8

LEMMA TotalAdds ==
  ASSUME NEW S \in SUBSET Jobs, NEW j \in Jobs, j \notin S
  PROVE  Total(S \cup {j}) = Total(S) + Vcpus[j]
<1>1. Total(S \cup {j}) = Vcpus[j] + Total((S \cup {j}) \ {j})
  BY TotalTakes
<1>2. (S \cup {j}) \ {j} = S
  OBVIOUS
<1>3. Total((S \cup {j}) \ {j}) = Total(S)
  BY <1>2
<1>4. Total(S) \in Nat /\ Vcpus[j] \in Nat
  BY TotalTakes, SingleClusterAssumption
<1>5. Total(S \cup {j}) = Vcpus[j] + Total(S)
  BY <1>1, <1>3
<1> QED
  BY <1>4, <1>5

-----------------------------------------------------------------------------
(* The invariant.                                                          *)

\* The event loop is at one request, at one of its configurations; nothing is launched
\* while the server is not up.
LaunchInHand ==
    /\ \A l, m \in launch : l = m
    /\ \A l \in launch : /\ server = "up" /\ answers[l.request] = "waiting"
                         /\ l.config \in DOMAIN l.request

\* A configuration that may yet be launched has neither reservation nor monitor.
Untried(q, i) == \/ answers[q] = "none"
                 \/ \E l \in launch : l.request = q /\ l.config <= i

UntriedIsBare ==
    \A q \in Requests : \A i \in DOMAIN q :
        Untried(q, i) => q[i] \notin rows /\ monitor[q[i]] = "none"

\* A monitor that released its quota has no row, one that ended has no cluster.
MonitorsLeaveNothing ==
    \A j \in Jobs : /\ monitor[j] \in {"released", "ended"} => j \notin rows
                    /\ monitor[j] = "ended" => cluster[j] # "up"

\* Without a crash every row has a monitor thread that will release it.
RowsAreWatched == crashes = 0 => \A j \in rows : Registered(j)

\* A process exits with its monitor threads, unless it is killed.
ExitIsClean ==
    /\ server = "stopped" => \A j \in Jobs : monitor[j] \in {"none", "ended"}
    /\ server = "crashed" => crashes > 0

IInv == /\ TypeOK /\ LaunchInHand /\ UntriedIsBare /\ MemoryMatchesRows
        /\ MonitorsLeaveNothing /\ RowsAreWatched /\ ExitIsClean

LEMMA Configurations ==
  ASSUME NEW q \in Requests
  PROVE  /\ Len(q) \in Nat \ {0} /\ DOMAIN q = 1 .. Len(q)
         /\ \A i \in DOMAIN q : q[i] \in Jobs
<1>1. q \in Seq(Range(q)) /\ q # <<>>
  BY SingleClusterAssumption
<1>2. \A i \in DOMAIN q : q[i] \in Range(q)
  BY DEF Range
<1>3. Range(q) \subseteq Jobs
  BY DEF Jobs
<1> QED
  BY <1>1, <1>2, <1>3

\* No job is a configuration of two requests, or twice of one.
LEMMA OwnJobs ==
  \A q, p \in Requests : \A i \in DOMAIN q, k \in DOMAIN p : q[i] = p[k] => q = p /\ i = k
BY SingleClusterAssumption

LEMMA InitInv == Init => IInv
<1> SUFFICES ASSUME Init PROVE IInv
  OBVIOUS
<1>1. TypeOK
  BY DEF Init, TypeOK
<1>2. MemoryMatchesRows
  BY TotalUnfolds DEF Init, MemoryMatchesRows
<1>3. UntriedIsBare
  BY Configurations DEF Init, UntriedIsBare
<1> QED
  BY <1>1, <1>2, <1>3 DEF Init, IInv, LaunchInHand, MonitorsLeaveNothing, RowsAreWatched, ExitIsClean

\* What the launch in hand is about.
LEMMA InHand ==
  ASSUME TypeOK, LaunchInHand, NEW l \in launch
  PROVE  /\ l.request \in Requests /\ l.config \in 1 .. Len(l.request)
         /\ l.request[l.config] \in Jobs /\ l.config \in Nat \ {0}
<1>1. l.request \in Requests /\ l.config \in DOMAIN l.request /\ l.config \in Nat \ {0}
  BY DEF TypeOK, LaunchInHand
<1> QED
  BY <1>1, Configurations

LEMMA LaunchType ==
  ASSUME TypeOK, LaunchInHand, NEW l \in launch, LaunchStep(l)
  PROVE  TypeOK'
<1> DEFINE j == l.request[l.config]
<1>1. /\ l.request \in Requests /\ l.config \in 1 .. Len(l.request) /\ j \in Jobs
      /\ l.config \in Nat \ {0} /\ Len(l.request) \in Nat
  BY InHand, Configurations
<1>2. l \in [request : Requests, config : Nat \ {0}, returned : BOOLEAN]
  BY DEF TypeOK
<1>3. CASE LaunchReturns(l)
  <2>1. launch' \subseteq [request : Requests, config : Nat \ {0}, returned : BOOLEAN]
    BY <1>2, <1>3 DEF LaunchReturns
  <2> QED
    BY <1>1, <1>3, <2>1 DEF LaunchReturns, TypeOK, cloud, threads, quota, bounds
<1>4. CASE MonitorStarts(l)
  <2>1. rows' \subseteq Jobs /\ used' \in Nat
    <3>1. Vcpus[j] \in Nat /\ used \in Nat /\ rows \subseteq Jobs
      BY <1>1, SingleClusterAssumption DEF TypeOK
    <3>2. (rows' = rows /\ used' = used) \/ (rows' = rows \cup {j} /\ used' = used + Vcpus[j])
      BY <1>4 DEF MonitorStarts, ReserveCluster, quota
    <3> QED
      BY <1>1, <3>1, <3>2
  <2> QED
    BY <1>1, <1>4, <2>1 DEF MonitorStarts, TypeOK, cloud, bounds
<1>5. CASE LaunchRaises(l)
  <2> DEFINE next == l.config + 1
  <2>1. faults' \in Nat
    BY <1>5 DEF LaunchRaises, Fault, TypeOK
  <2>2. CASE next <= Len(l.request)
    <3>1. next \in Nat \ {0} /\ next \in DOMAIN l.request
      BY <1>1, <2>2, Configurations
    <3>2. l.request[next] \in Jobs
      BY <1>1, <3>1, Configurations
    <3>3. launch' = {[request |-> l.request, config |-> next, returned |-> FALSE]}
          /\ answers' = answers
          /\ status' = [status EXCEPT ![j] = "failed", ![l.request[next]] = "active"]
      BY <1>5, <2>2 DEF LaunchRaises
    <3>4. launch' \subseteq [request : Requests, config : Nat \ {0}, returned : BOOLEAN]
      BY <1>1, <3>1, <3>3
    <3>5. status' \in [Jobs -> {"none", "active", "succeeded", "failed"}]
      BY <3>2, <3>3 DEF TypeOK
    <3> QED
      BY <1>5, <2>1, <3>3, <3>4, <3>5 DEF LaunchRaises, TypeOK, cloud, threads, quota
  <2>3. CASE ~ (next <= Len(l.request))
    BY <1>1, <1>5, <2>1, <2>3 DEF LaunchRaises, TypeOK, cloud, threads, quota
  <2> QED
    BY <2>2, <2>3
<1> QED
  BY <1>3, <1>4, <1>5 DEF LaunchStep

LEMMA ReleaseType ==
  ASSUME TypeOK, NEW j \in Jobs, ReleaseCluster(j)
  PROVE  rows' \subseteq Jobs /\ used' \in Nat
<1>1. Vcpus[j] \in Nat /\ used \in Nat
  BY SingleClusterAssumption DEF TypeOK
<1>2. rows' \subseteq Jobs
  BY DEF TypeOK, ReleaseCluster, quota
<1>3. used' = used \/ used' = 0 \/ (~ (used < Vcpus[j]) /\ used' = used - Vcpus[j])
  BY DEF ReleaseCluster, quota
<1> QED
  BY <1>1, <1>2, <1>3

LEMMA StepType ==
  ASSUME TypeOK, LaunchInHand, [Next]_vars
  PROVE  TypeOK'
<1>1. ASSUME NEW q \in Requests, Submit(q) PROVE TypeOK'
  <2>1. 1 \in DOMAIN q /\ q[1] \in Jobs
    BY Configurations
  <2>2. launch' \subseteq [request : Requests, config : Nat \ {0}, returned : BOOLEAN]
    BY <1>1 DEF Submit, Try
  <2> QED
    BY <1>1, <2>1, <2>2 DEF Submit, Try, TypeOK, cloud, threads, quota, bounds
<1>2. ASSUME NEW l \in launch, LaunchStep(l) PROVE TypeOK'
  BY <1>2, LaunchType
<1>3. ASSUME NEW j \in Jobs,
             UpdateJobPhase(j) \/ RunnerSteps(j) \/ RunnerDies(j) \/ AutoDown(j)
      PROVE  TypeOK'
  BY <1>3 DEF UpdateJobPhase, RunnerSteps, RunnerDies, AutoDown, Fault, TypeOK, cloud,
              threads, quota, bounds
<1>4. ASSUME NEW j \in Jobs,
             PollSees(j) \/ PollMarks(j) \/ RenameRaises(j) \/ ForceTeardown(j)
      PROVE  TypeOK'
  BY <1>4 DEF PollSees, PollMarks, RenameRaises, ForceTeardown, Destroy, Fault, TypeOK,
              cloud, threads, quota, bounds
<1>5. ASSUME NEW j \in Jobs, MonitorThread(j) PROVE TypeOK'
  <2>1. CASE Judge(j)
    BY <2>1 DEF Judge, Fault, TypeOK, cloud, quota
  <2>2. CASE Release(j)
    <3>1. rows' \subseteq Jobs /\ used' \in Nat
      BY <2>2, ReleaseType DEF Release
    <3> QED
      BY <2>2, <3>1 DEF Release, TypeOK, cloud, bounds
  <2>3. CASE TearDown(j)
    BY <2>3 DEF TearDown, Destroy, TypeOK, quota, bounds
  <2> QED
    BY <1>5, <2>1, <2>2, <2>3 DEF MonitorThread
<1>6. CASE Close \/ Exit \/ Crash
  BY <1>6 DEF Close, Exit, Crash, TypeOK, cloud, threads, quota, bounds
<1>7. CASE Start
  <2>1. rows' \subseteq Jobs /\ faults' \in Nat /\ used' = Total(rows')
    BY <1>7 DEF Start, TypeOK, Fault
  <2>2. used' \in Nat
    BY <2>1, TotalTakes
  <2> QED
    BY <1>7, <2>1, <2>2 DEF Start, TypeOK, cloud
<1>8. CASE UNCHANGED vars
  BY <1>8 DEF vars, cloud, threads, quota, bounds, TypeOK
<1> QED
  BY <1>1, <1>2, <1>3, <1>4, <1>5, <1>6, <1>7, <1>8 DEF Next

\* The steps that are neither a launch's nor the start or end of a process: what a thread,
\* a report or the cluster does for one job.
Other(j) == \/ UpdateJobPhase(j) \/ RunnerSteps(j) \/ RunnerDies(j) \/ AutoDown(j)
            \/ PollSees(j) \/ PollMarks(j) \/ Judge(j) \/ RenameRaises(j) \/ ForceTeardown(j)

LEMMA OtherFrame ==
  ASSUME TypeOK, NEW j \in Jobs, Other(j)
  PROVE  /\ UNCHANGED <<server, launch, answers, rows, used, crashes>>
         /\ \A k \in Jobs : cluster'[k] = "up" => cluster[k] = "up"
         /\ \A k \in Jobs : \/ monitor'[k] = monitor[k]
                            \/ monitor[k] = "tailing" /\ monitor'[k] = "judged"
<1>1. CASE UpdateJobPhase(j) \/ RunnerSteps(j) \/ RunnerDies(j) \/ AutoDown(j)
  BY <1>1 DEF UpdateJobPhase, RunnerSteps, RunnerDies, AutoDown, Fault, TypeOK, cloud,
              threads, quota, bounds
<1>2. CASE PollSees(j) \/ PollMarks(j) \/ RenameRaises(j)
  BY <1>2 DEF PollSees, PollMarks, RenameRaises, Fault, TypeOK, cloud, threads, quota, bounds
<1>3. CASE Judge(j)
  BY <1>3 DEF Judge, Fault, TypeOK, cloud, quota
<1>4. CASE ForceTeardown(j)
  BY <1>4 DEF ForceTeardown, Destroy, TypeOK, threads, quota, bounds
<1> QED
  BY <1>1, <1>2, <1>3, <1>4 DEF Other

\* The disjuncts of Next as the proofs below split them.
LEMMA Steps ==
  ASSUME [Next]_vars
  PROVE  \/ \E q \in Requests : Submit(q)
         \/ \E l \in launch : LaunchReturns(l) \/ MonitorStarts(l) \/ LaunchRaises(l)
         \/ \E j \in Jobs : Other(j) \/ Release(j) \/ TearDown(j)
         \/ Close \/ Exit \/ Crash \/ Start
         \/ UNCHANGED vars
BY DEF Next, LaunchStep, MonitorThread, Other

LEMMA StepLaunch ==
  ASSUME TypeOK, LaunchInHand, [Next]_vars
  PROVE  LaunchInHand'
<1>1. ASSUME NEW q \in Requests, Submit(q) PROVE LaunchInHand'
  <2>1. 1 \in DOMAIN q
    BY Configurations
  <2>2. answers'[q] = "waiting" /\ server' = "up"
        /\ launch' = {[request |-> q, config |-> 1, returned |-> FALSE]}
    BY <1>1 DEF Submit, Try, TypeOK
  <2> QED
    BY <2>1, <2>2 DEF LaunchInHand
<1>2. ASSUME NEW l \in launch, LaunchReturns(l) PROVE LaunchInHand'
  <2>1. l \in [request : Requests, config : Nat \ {0}, returned : BOOLEAN]
    BY DEF TypeOK
  <2>2. [l EXCEPT !.returned = TRUE].request = l.request
        /\ [l EXCEPT !.returned = TRUE].config = l.config
    BY <2>1
  <2> QED
    BY <1>2, <2>2 DEF LaunchReturns, LaunchInHand
<1>3. ASSUME NEW l \in launch, MonitorStarts(l) PROVE LaunchInHand'
  BY <1>3 DEF MonitorStarts, LaunchInHand
<1>4. ASSUME NEW l \in launch, LaunchRaises(l) PROVE LaunchInHand'
  <2>1. l.request \in Requests /\ l.config \in Nat \ {0} /\ Len(l.request) \in Nat
        /\ DOMAIN l.request = 1 .. Len(l.request)
    BY InHand, Configurations
  <2>2. CASE l.config + 1 <= Len(l.request)
    <3>1. launch' = {[request |-> l.request, config |-> l.config + 1, returned |-> FALSE]}
          /\ answers' = answers /\ server' = server
      BY <1>4, <2>2 DEF LaunchRaises
    <3>2. l.config + 1 \in DOMAIN l.request
      BY <2>1, <2>2
    <3> QED
      BY <3>1, <3>2 DEF LaunchInHand
  <2>3. CASE ~ (l.config + 1 <= Len(l.request))
    BY <1>4, <2>3 DEF LaunchRaises, LaunchInHand
  <2> QED
    BY <2>2, <2>3
<1>5. ASSUME NEW j \in Jobs, Other(j) PROVE LaunchInHand'
  BY <1>5, OtherFrame DEF LaunchInHand
<1>6. ASSUME NEW j \in Jobs, Release(j) \/ TearDown(j) PROVE LaunchInHand'
  BY <1>6 DEF Release, TearDown, LaunchInHand
<1>7. CASE Close \/ Exit \/ Crash \/ Start
  BY <1>7 DEF Close, Exit, Crash, Start, LaunchInHand
<1>8. CASE UNCHANGED vars
  BY <1>8 DEF vars, LaunchInHand
<1> QED
  BY <1>1, <1>2, <1>3, <1>4, <1>5, <1>6, <1>7, <1>8, Steps

LEMMA StepUntried ==
  ASSUME IInv, [Next]_vars
  PROVE  UntriedIsBare'
<1> USE DEF IInv
<1> SUFFICES ASSUME NEW q \in Requests, NEW i \in DOMAIN q, Untried(q, i)'
             PROVE  q[i] \notin rows' /\ monitor'[q[i]] = "none"
  BY DEF UntriedIsBare
<1>0. q[i] \in Jobs /\ i \in Nat \ {0}
  BY Configurations
<1>1. ASSUME NEW p \in Requests, Submit(p) PROVE q[i] \notin rows' /\ monitor'[q[i]] = "none"
  <2>1. Untried(q, i)
    BY <1>1 DEF Submit, Try, Untried, TypeOK
  <2> QED
    BY <1>1, <2>1 DEF Submit, UntriedIsBare, quota, threads
<1>2. ASSUME NEW l \in launch, LaunchReturns(l)
      PROVE  q[i] \notin rows' /\ monitor'[q[i]] = "none"
  <2>1. l \in [request : Requests, config : Nat \ {0}, returned : BOOLEAN]
    BY DEF TypeOK
  <2>2. [l EXCEPT !.returned = TRUE].request = l.request
        /\ [l EXCEPT !.returned = TRUE].config = l.config
    BY <2>1
  <2>3. Untried(q, i)
    BY <1>2, <2>2 DEF LaunchReturns, Untried
  <2> QED
    BY <1>2, <2>3 DEF LaunchReturns, UntriedIsBare, quota, threads
<1>3. ASSUME NEW l \in launch, MonitorStarts(l)
      PROVE  q[i] \notin rows' /\ monitor'[q[i]] = "none"
  <2> DEFINE j == l.request[l.config]
  <2>1. l.request \in Requests /\ l.config \in DOMAIN l.request /\ j \in Jobs
    BY InHand, Configurations
  <2>2. answers'[q] = "none"
    BY <1>3 DEF MonitorStarts, Untried
  <2>3. q # l.request /\ answers[q] = "none"
    BY <1>3, <2>1, <2>2 DEF MonitorStarts, TypeOK
  <2>4. q[i] # j
    BY <2>1, <2>3, OwnJobs
  <2>5. rows' \subseteq rows \cup {j} /\ monitor' = [monitor EXCEPT ![j] = "tailing"]
    BY <1>3 DEF MonitorStarts, ReserveCluster, quota
  <2>6. q[i] \notin rows /\ monitor[q[i]] = "none"
    BY <2>3 DEF UntriedIsBare, Untried
  <2> QED
    BY <1>0, <2>1, <2>4, <2>5, <2>6 DEF TypeOK
<1>4. ASSUME NEW l \in launch, LaunchRaises(l)
      PROVE  q[i] \notin rows' /\ monitor'[q[i]] = "none"
  <2>1. l.request \in Requests /\ l.config \in Nat \ {0}
    BY InHand
  <2>2. Untried(q, i)
    <3>1. CASE answers'[q] = "none"
      BY <1>4, <2>1, <3>1 DEF LaunchRaises, Untried, TypeOK
    <3>2. CASE \E m \in launch' : m.request = q /\ m.config <= i
      <4>1. l.request = q /\ l.config + 1 <= i
        BY <1>4, <3>2 DEF LaunchRaises
      <4> QED
        BY <1>0, <2>1, <4>1 DEF Untried
    <3> QED
      BY <3>1, <3>2 DEF Untried
  <2> QED
    BY <1>4, <2>2 DEF LaunchRaises, UntriedIsBare, quota, threads
<1>5. ASSUME NEW j \in Jobs, Other(j) PROVE q[i] \notin rows' /\ monitor'[q[i]] = "none"
  <2>1. Untried(q, i)
    BY <1>5, OtherFrame DEF Untried
  <2> QED
    BY <1>0, <1>5, <2>1, OtherFrame DEF UntriedIsBare
<1>6. ASSUME NEW j \in Jobs, Release(j) \/ TearDown(j)
      PROVE  q[i] \notin rows' /\ monitor'[q[i]] = "none"
  <2>1. Untried(q, i)
    BY <1>6 DEF Release, TearDown, Untried
  <2>2. q[i] \notin rows /\ monitor[q[i]] = "none"
    BY <2>1 DEF UntriedIsBare
  <2> QED
    BY <1>0, <1>6, <2>2 DEF Release, TearDown, ReleaseCluster, quota, TypeOK
<1>7. CASE Close \/ Exit \/ Crash \/ Start
  <2>1. Untried(q, i)
    BY <1>7 DEF Close, Exit, Crash, Start, Untried
  <2> QED
    BY <1>0, <1>7, <2>1 DEF Close, Exit, Crash, Start, UntriedIsBare, quota, threads
<1>8. CASE UNCHANGED vars
  <2>1. Untried(q, i)
    BY <1>8 DEF vars, Untried
  <2> QED
    BY <1>8, <2>1 DEF vars, UntriedIsBare, quota, threads
<1> QED
  BY <1>1, <1>2, <1>3, <1>4, <1>5, <1>6, <1>7, <1>8, Steps

LEMMA StepMemory ==
  ASSUME IInv, [Next]_vars
  PROVE  MemoryMatchesRows'
<1> USE DEF IInv
<1>1. ASSUME UNCHANGED <<rows, used>> PROVE MemoryMatchesRows'
  BY <1>1 DEF MemoryMatchesRows
<1>2. ASSUME NEW l \in launch, MonitorStarts(l) PROVE MemoryMatchesRows'
  <2> DEFINE j == l.request[l.config]
  <2>1. l.request \in Requests /\ l.config \in DOMAIN l.request /\ j \in Jobs
        /\ l.config \in Nat \ {0}
    BY InHand, Configurations
  <2>2. j \notin rows
    BY <2>1 DEF UntriedIsBare, Untried
  <2>3. CASE used + Vcpus[j] > Quota
    BY <1>1, <1>2, <2>3 DEF MonitorStarts, ReserveCluster, quota
  <2>4. CASE ~ (used + Vcpus[j] > Quota)
    <3>1. rows' = rows \cup {j} /\ used' = used + Vcpus[j]
      BY <1>2, <2>4 DEF MonitorStarts, ReserveCluster
    <3>2. Total(rows \cup {j}) = Total(rows) + Vcpus[j]
      BY <2>1, <2>2, TotalAdds DEF TypeOK
    <3> QED
      BY <3>1, <3>2 DEF MemoryMatchesRows
  <2> QED
    BY <2>3, <2>4
<1>3. ASSUME NEW j \in Jobs, Release(j) PROVE MemoryMatchesRows'
  <2>1. CASE j \notin rows
    BY <1>1, <1>3, <2>1 DEF Release, ReleaseCluster, quota
  <2>2. CASE j \in rows
    <3>1. Total(rows) = Vcpus[j] + Total(rows \ {j})
      BY <2>2, TotalTakes DEF TypeOK
    <3>2. Total(rows \ {j}) \in Nat /\ Vcpus[j] \in Nat /\ used = Total(rows)
      <4>1. rows \ {j} \in SUBSET Jobs
        BY DEF TypeOK
      <4> QED
        BY <4>1, TotalTakes, SingleClusterAssumption DEF MemoryMatchesRows
    <3>3. rows' = rows \ {j} /\ used' = IF used < Vcpus[j] THEN 0 ELSE used - Vcpus[j]
      BY <1>3, <2>2 DEF Release, ReleaseCluster
    <3> DEFINE n == Total(rows \ {j})
    <3>4. used = Vcpus[j] + n /\ n \in Nat
      BY <3>1, <3>2
    <3> HIDE DEF n
    <3>5. used' = n
      BY <3>2, <3>3, <3>4
    <3> QED
      BY <3>3, <3>5 DEF n, MemoryMatchesRows
  <2> QED
    BY <2>1, <2>2
<1>4. CASE Start
  BY <1>4 DEF Start, MemoryMatchesRows
<1>5. ASSUME NEW q \in Requests, Submit(q) PROVE UNCHANGED <<rows, used>>
  BY <1>5 DEF Submit, quota
<1>6. ASSUME NEW l \in launch, LaunchReturns(l) \/ LaunchRaises(l)
      PROVE  UNCHANGED <<rows, used>>
  BY <1>6 DEF LaunchReturns, LaunchRaises, quota
<1>7. ASSUME NEW j \in Jobs, Other(j) PROVE UNCHANGED <<rows, used>>
  BY <1>7, OtherFrame
<1>8. ASSUME NEW j \in Jobs, TearDown(j) PROVE UNCHANGED <<rows, used>>
  BY <1>8 DEF TearDown, quota
<1>9. ASSUME Close \/ Exit \/ Crash \/ UNCHANGED vars PROVE UNCHANGED <<rows, used>>
  BY <1>9 DEF Close, Exit, Crash, vars, quota
<1> QED
  BY <1>1, <1>2, <1>3, <1>4, <1>5, <1>6, <1>7, <1>8, <1>9, Steps

LEMMA StepMonitors ==
  ASSUME IInv, [Next]_vars
  PROVE  MonitorsLeaveNothing' /\ RowsAreWatched'
<1> USE DEF IInv, Registered
<1>1. ASSUME UNCHANGED <<cluster, monitor, rows, crashes>>
      PROVE  MonitorsLeaveNothing' /\ RowsAreWatched'
  BY <1>1 DEF MonitorsLeaveNothing, RowsAreWatched
<1>2. ASSUME NEW l \in launch, LaunchReturns(l)
      PROVE  MonitorsLeaveNothing' /\ RowsAreWatched'
  <2> DEFINE j == l.request[l.config]
  <2>1. l.request \in Requests /\ l.config \in DOMAIN l.request /\ l.config \in Nat \ {0}
    BY InHand, Configurations
  <2>2. monitor[j] = "none"
    BY <2>1 DEF UntriedIsBare, Untried
  <2>3. cluster' = [cluster EXCEPT ![j] = "up"] /\ UNCHANGED <<monitor, rows, crashes>>
    BY <1>2 DEF LaunchReturns, threads, quota, bounds
  <2> QED
    BY <2>2, <2>3 DEF MonitorsLeaveNothing, RowsAreWatched, TypeOK
<1>3. ASSUME NEW l \in launch, MonitorStarts(l)
      PROVE  MonitorsLeaveNothing' /\ RowsAreWatched'
  <2> DEFINE j == l.request[l.config]
  <2>1. j \in Jobs
    BY InHand
  <2>2. rows' \subseteq rows \cup {j} /\ monitor' = [monitor EXCEPT ![j] = "tailing"]
        /\ UNCHANGED <<cluster, crashes>>
    BY <1>3 DEF MonitorStarts, ReserveCluster, quota, cloud, bounds
  <2> HIDE DEF j
  <2> QED
    BY <2>1, <2>2 DEF MonitorsLeaveNothing, RowsAreWatched, TypeOK
<1>4. ASSUME NEW j \in Jobs, Other(j) PROVE MonitorsLeaveNothing' /\ RowsAreWatched'
  <2>1. /\ UNCHANGED <<rows, crashes>>
        /\ \A k \in Jobs : cluster'[k] = "up" => cluster[k] = "up"
        /\ \A k \in Jobs : \/ monitor'[k] = monitor[k]
                           \/ monitor[k] = "tailing" /\ monitor'[k] = "judged"
    BY <1>4, OtherFrame
  <2>2. MonitorsLeaveNothing'
    BY <2>1 DEF MonitorsLeaveNothing
  <2>3. RowsAreWatched'
    BY <2>1 DEF RowsAreWatched, TypeOK
  <2> QED
    BY <2>2, <2>3
<1>5. ASSUME NEW j \in Jobs, Release(j) PROVE MonitorsLeaveNothing' /\ RowsAreWatched'
  <2>1. j \notin rows' /\ rows' \subseteq rows
    BY <1>5 DEF Release, ReleaseCluster, quota
  <2>2. monitor' = [monitor EXCEPT ![j] = "released"] /\ UNCHANGED <<cluster, crashes>>
    BY <1>5 DEF Release, cloud, bounds
  <2> QED
    BY <2>1, <2>2 DEF MonitorsLeaveNothing, RowsAreWatched, TypeOK
<1>6. ASSUME NEW j \in Jobs, TearDown(j) PROVE MonitorsLeaveNothing' /\ RowsAreWatched'
  <2>1. /\ monitor[j] = "released" /\ monitor' = [monitor EXCEPT ![j] = "ended"]
        /\ cluster' = [cluster EXCEPT ![j] = "down"] /\ UNCHANGED <<rows, crashes>>
    BY <1>6 DEF TearDown, Destroy, quota, bounds
  <2> QED
    BY <2>1 DEF MonitorsLeaveNothing, RowsAreWatched, TypeOK
<1>7. CASE Crash
  <2>1. crashes' \in Nat \ {0}
    BY <1>7 DEF Crash, TypeOK
  <2> QED
    BY <1>7, <2>1 DEF Crash, MonitorsLeaveNothing, RowsAreWatched
<1>8. CASE Start
  <2>1. rows' \subseteq rows /\ crashes' = crashes /\ monitor' = [j \in Jobs |-> "none"]
    BY <1>8 DEF Start
  <2>2. crashes = 0 => rows = {}
    BY <1>8 DEF Start, ExitIsClean, RowsAreWatched, TypeOK
  <2> QED
    BY <2>1, <2>2 DEF MonitorsLeaveNothing, RowsAreWatched
<1>9. ASSUME \/ \E q \in Requests : Submit(q)
             \/ \E l \in launch : LaunchRaises(l)
             \/ Close \/ Exit \/ UNCHANGED vars
      PROVE  UNCHANGED <<cluster, monitor, rows, crashes>>
  BY <1>9 DEF Submit, LaunchRaises, Close, Exit, vars, cloud, threads, quota, bounds
<1> QED
  BY <1>1, <1>2, <1>3, <1>4, <1>5, <1>6, <1>7, <1>8, <1>9, Steps

LEMMA StepExit ==
  ASSUME IInv, [Next]_vars
  PROVE  ExitIsClean'
<1> USE DEF IInv
<1>1. ASSUME UNCHANGED <<server, monitor, crashes>> PROVE ExitIsClean'
  BY <1>1 DEF ExitIsClean
<1>2. ASSUME NEW l \in launch, LaunchReturns(l) \/ MonitorStarts(l) \/ LaunchRaises(l)
      PROVE  ExitIsClean'
  <2>1. server = "up" /\ server' = server
    BY <1>2 DEF LaunchReturns, MonitorStarts, LaunchRaises, LaunchInHand
  <2> QED
    BY <2>1 DEF ExitIsClean
<1>3. ASSUME NEW j \in Jobs, Other(j) PROVE ExitIsClean'
  <2>1. UNCHANGED <<server, crashes>>
        /\ \A k \in Jobs : \/ monitor'[k] = monitor[k]
                           \/ monitor[k] = "tailing" /\ monitor'[k] = "judged"
    BY <1>3, OtherFrame
  <2>2. server = "stopped" => \A k \in Jobs : monitor'[k] \in {"none", "ended"}
    BY <2>1 DEF ExitIsClean
  <2> QED
    BY <2>1, <2>2 DEF ExitIsClean
<1>4. ASSUME NEW j \in Jobs, Release(j) \/ TearDown(j) PROVE ExitIsClean'
  <2>1. UNCHANGED <<server, crashes>> /\ monitor[j] \in {"judged", "released"}
    BY <1>4 DEF Release, TearDown, bounds
  <2>2. server # "stopped"
    BY <2>1 DEF ExitIsClean
  <2> QED
    BY <2>1, <2>2 DEF ExitIsClean
<1>5. CASE Close \/ Exit \/ Start
  BY <1>5 DEF Close, Exit, Start, ExitIsClean, threads, bounds
<1>6. CASE Crash
  <2>1. crashes' > 0 /\ server' = "crashed"
    BY <1>6 DEF Crash, TypeOK
  <2> QED
    BY <2>1 DEF ExitIsClean
<1>7. ASSUME (\E q \in Requests : Submit(q)) \/ UNCHANGED vars
      PROVE  UNCHANGED <<server, monitor, crashes>>
  BY <1>7 DEF Submit, vars, threads, bounds
<1> QED
  BY <1>1, <1>2, <1>3, <1>4, <1>5, <1>6, <1>7, Steps

LEMMA Invariance == Spec => []IInv
<1>1. Init => IInv
  BY InitInv
<1>2. IInv /\ [Next]_vars => IInv'
  <2> SUFFICES ASSUME IInv, [Next]_vars PROVE IInv'
    OBVIOUS
  <2>1. TypeOK' /\ LaunchInHand'
    BY StepType, StepLaunch DEF IInv
  <2> QED
    BY <2>1, StepUntried, StepMemory, StepMonitors, StepExit DEF IInv
<1> QED
  BY <1>1, <1>2, PTL DEF Spec

-----------------------------------------------------------------------------

\* Every variable keeps its type, the total of the tracker being a number.
THEOREM TypeCorrect == Spec => []TypeOK
<1>1. IInv => TypeOK
  BY DEF IInv
<1> QED
  BY <1>1, Invariance, PTL

\* used_vcpu is the sum over the reservations table at any time: a job is reserved once, for
\* its launch is tried once, and a release never asks for more than there is.
THEOREM MemoryIsThatOfRows == Spec => []MemoryMatchesRows
<1>1. IInv => MemoryMatchesRows
  BY DEF IInv
<1> QED
  BY <1>1, Invariance, PTL

\* A shutdown leaves no monitored cluster and no reservation, whatever stage of its monitor
\* thread it meets, because the process waits for threads that gave their quota back and
\* are still to tear down.
THEOREM ShutdownsDrain == Spec => []ShutdownDrains
<1>1. IInv => ShutdownDrains
  <2> SUFFICES ASSUME IInv, server = "stopped"
               PROVE  /\ \A j \in Jobs : monitor[j] # "none" => cluster[j] # "up" /\ j \notin rows
                      /\ crashes = 0 => rows = {}
    BY DEF ShutdownDrains
  <2>1. \A j \in Jobs : monitor[j] \in {"none", "ended"}
    BY DEF IInv, ExitIsClean
  <2>2. rows \subseteq Jobs
    BY DEF IInv, TypeOK
  <2> QED
    BY <2>1, <2>2 DEF IInv, MonitorsLeaveNothing, RowsAreWatched, Registered
<1> QED
  BY <1>1, Invariance, PTL

-----------------------------------------------------------------------------
(* Submission: where SkyPilot is sent.  Of the five first candidates four  *)
(* at most are in a region without an image, so a first one with an image  *)
(* is among them.                                                          *)

QuotaTable == [Regions -> [spot : Nat, on_demand : Nat]]
Candidate == [region : Regions, market : Markets]

\* At most two candidates are in a region.
LEMMA TwoMarkets ==
  ASSUME NEW U, IsFiniteSet(U), NEW B \in SUBSET [region : U, market : Markets]
  PROVE  IsFiniteSet(B) /\ Cardinality(B) <= Cardinality(U) + Cardinality(U)
<1> DEFINE Half(m) == {o \in B : o.market = m}
<1>1. ASSUME NEW m \in Markets
      PROVE  IsFiniteSet(Half(m)) /\ Cardinality(Half(m)) <= Cardinality(U)
  <2> DEFINE H == Half(m)
             f == [o \in H |-> o.region]
  <2>1. \A o \in H : o.region \in U /\ o = [region |-> o.region, market |-> m]
    BY <1>1
  <2>2. f \in Injection(H, U)
    <3> HIDE DEF H
    <3>1. f \in [H -> U] /\ \A o \in H : f[o] = o.region
      BY <2>1
    <3>2. \A o, p \in H : f[o] = f[p] => o = p
      BY <2>1, <3>1
    <3> HIDE DEF f
    <3> QED
      BY <3>1, <3>2 DEF Injection, IsInjective
  <2> HIDE DEF H, f
  <2>3. IsFiniteSet(H) /\ Cardinality(H) <= Cardinality(U)
    BY <2>2, FS_Injection
  <2> QED
    BY <2>3 DEF H
<1>2. B = Half("spot") \cup Half("on_demand")
  BY DEF Markets
<1> HIDE DEF Half
<1>3. /\ IsFiniteSet(Half("spot")) /\ Cardinality(Half("spot")) <= Cardinality(U)
      /\ IsFiniteSet(Half("on_demand")) /\ Cardinality(Half("on_demand")) <= Cardinality(U)
  BY <1>1 DEF Markets
<1> DEFINE S == Half("spot")
           T == Half("on_demand")
<1> HIDE DEF S, T
<1>4. /\ IsFiniteSet(S) /\ IsFiniteSet(T) /\ Cardinality(S) <= Cardinality(U)
      /\ Cardinality(T) <= Cardinality(U)
  BY <1>3 DEF S, T
<1>5. IsFiniteSet(S \cup T)
      /\ Cardinality(S \cup T) = Cardinality(S) + Cardinality(T) - Cardinality(S \cap T)
  BY <1>4, FS_Union
<1>6. Cardinality(S) \in Nat /\ Cardinality(T) \in Nat /\ Cardinality(U) \in Nat
  BY <1>4, FS_CardinalityType
<1>7. IsFiniteSet(S \cap T)
  BY <1>4, FS_Subset
<1>8. Cardinality(S \cap T) \in Nat
  BY <1>7, FS_CardinalityType
<1>9. B = S \cup T
  BY <1>2 DEF S, T
<1>10. Cardinality(S \cup T) <= Cardinality(U) + Cardinality(U)
  BY <1>4, <1>5, <1>6, <1>8
<1> QED
  BY <1>5, <1>9, <1>10

\* The sort key orders the candidates.
LEMMA BeforeOrders ==
  ASSUME NEW quotas \in QuotaTable, NEW spot \in BOOLEAN
  PROVE  /\ \A o \in Candidate : ~ Before(quotas, spot, o, o)
         /\ \A o, p, q \in Candidate : Before(quotas, spot, o, p) /\ Before(quotas, spot, p, q)
                                      => Before(quotas, spot, o, q)
<1> DEFINE Q(o) == quotas[o.region][o.market]
           K(o) == IF o.market = "spot" /\ spot THEN 0 ELSE 1
<1>1. \A o \in Candidate : Q(o) \in Nat /\ K(o) \in Nat /\ o.region \in Nat
  BY SubmissionAssumption DEF QuotaTable, Candidate, Markets
<1>2. \A o, p \in Candidate :
         Before(quotas, spot, o, p)
           <=> \/ Q(o) > Q(p)
               \/ Q(o) = Q(p) /\ K(o) < K(p)
               \/ Q(o) = Q(p) /\ K(o) = K(p) /\ o.region < p.region
  BY DEF Before
<1> HIDE DEF Q, K
<1> QED
  BY <1>1, <1>2

\* A set of candidates has a first one.
LEMMA FirstExists ==
  ASSUME NEW quotas \in QuotaTable, NEW spot \in BOOLEAN,
         NEW good \in SUBSET Candidate, good # {}
  PROVE  \E o \in good : \A p \in good : ~ Before(quotas, spot, p, o)
<1> DEFINE Below(o) == {p \in good : Before(quotas, spot, p, o)}
           All == {Below(o) : o \in good}
<1>1. IsFiniteSet(good)
  BY SubmissionAssumption, TwoMarkets DEF Candidate
<1>2. FiniteSubsetsOf(good) = SUBSET good
  BY <1>1, FS_FiniteSubsetsOfFinite
<1>3. IsWellFoundedOn(StrictSubsetOrdering(good), SUBSET good)
  BY <1>2, FS_StrictSubsetOrderingWellFounded
<1>4. All \subseteq SUBSET good /\ All # {}
  OBVIOUS
<1> HIDE DEF All
<1>5. PICK S \in All : \A R \in All : ~ (<<R, S>> \in StrictSubsetOrdering(good))
  BY <1>3, <1>4, WFMin, Zenon
<1>6. PICK o \in good : S = Below(o)
  BY <1>5 DEF All
<1>7. ASSUME NEW p \in good, Before(quotas, spot, p, o) PROVE FALSE
  <2>1. p \in Below(o) /\ p \notin Below(p) /\ Below(p) \subseteq Below(o)
    BY <1>7, BeforeOrders
  <2>2. Below(p) \in All /\ Below(o) \in All
    BY DEF All
  <2> HIDE DEF Below
  <2>3. <<Below(p), Below(o)>> \in StrictSubsetOrdering(good)
    BY <1>4, <2>1, <2>2 DEF StrictSubsetOrdering
  <2> QED
    BY <1>5, <1>6, <2>2, <2>3
<1> QED
  BY <1>7

LEMMA FirstIsOffered ==
  ASSUME NEW quotas \in QuotaTable, NEW spot \in BOOLEAN, NEW found \in SUBSET Candidate
  PROVE  LET good == {o \in found : o.region \in Mapped}
         IN /\ Offered(quotas, spot, found) \subseteq good
            /\ good # {} => Offered(quotas, spot, found) # {}
<1> DEFINE good == {o \in found : o.region \in Mapped}
<1>1. Offered(quotas, spot, found) \subseteq good
  BY DEF Offered, First
<1>2. ASSUME good # {} PROVE Offered(quotas, spot, found) # {}
  <2>1. PICK o \in good : \A p \in good : ~ Before(quotas, spot, p, o)
    BY <1>2, FirstExists
  <2> DEFINE ahead == {p \in found : Before(quotas, spot, p, o)}
             U == Regions \ Mapped
  <2>2. ahead \in SUBSET [region : U, market : Markets]
    <3> SUFFICES ASSUME NEW p \in ahead PROVE p \in [region : U, market : Markets]
      OBVIOUS
    <3>1. p \in found /\ p \in [region : Regions, market : Markets] /\ p.region \notin Mapped
      BY <2>1 DEF Candidate
    <3> QED
      BY <3>1
  <2>3. IsFiniteSet(U) /\ Cardinality(U) <= 2
    BY SubmissionAssumption, FS_Subset
  <2>4. Cardinality(U) \in Nat
    BY <2>3, FS_CardinalityType
  <2> HIDE DEF U, ahead
  <2>5. IsFiniteSet(ahead) /\ Cardinality(ahead) <= Cardinality(U) + Cardinality(U)
    BY <2>2, <2>3, TwoMarkets
  <2>6. Cardinality(ahead) \in Nat
    BY <2>5, FS_CardinalityType
  <2>7. Cardinality(ahead) < 5
    BY <2>3, <2>4, <2>5, <2>6
  <2>8. o \in Offered(quotas, spot, found)
    BY <2>7 DEF Offered, First, ahead
  <2> QED
    BY <2>8
<1> QED
  BY <1>1, <1>2

\* Every answer about quotas that is cached is a table of them.
QuotasOK == aws \in QuotaTable /\ cache \in SUBSET QuotaTable

LEMMA QuotasInit == SubmissionInit => QuotasOK
BY SubmissionAssumption DEF SubmissionInit, QuotasOK, QuotaTable

LEMMA CachedAreTables == QuotasOK => CachedQuotas \subseteq QuotaTable
<1> SUFFICES ASSUME QuotasOK PROVE CachedQuotas \subseteq QuotaTable
  OBVIOUS
<1>1. \A r \in Regions : QueryFails(r) \in QuotaTable
  BY DEF QuotasOK, QuotaTable, QueryFails
<1> QED
  BY <1>1 DEF QuotasOK, CachedQuotas

\* What is placed of what the user specified.
Primary(q, t) == Config(t, q.tp, q.pp, UserNodes(t, q.tp, q.pp), SubmitMarket(q))

LEMMA PlacedForUser ==
  ASSUME NEW q, q.solver # "roofline", NEW p \in Placements(q)
  PROVE  \E t \in Resolve(q.gpu, q.tp), quotas \in CachedQuotas :
            /\ p.configs[1] = Primary(q, t) /\ p.cache = {quotas}
            /\ p.check = IF NoRegion(q, Primary(q, t), quotas) THEN {quotas} ELSE {}
            /\ Context[t] # 0 \/ q.force
<1> DEFINE able == {t \in Resolve(q.gpu, q.tp) : Context[t] # 0 \/ q.force}
           placed(o) == [configs |-> <<Primary(q, o[1])>> \o Alternatives(q), cache |-> {o[2]},
                         check |-> IF NoRegion(q, Primary(q, o[1]), o[2]) THEN {o[2]} ELSE {}]
<1>1. Placements(q) = {placed(o) : o \in able \X CachedQuotas}
  BY DEF Placements, Primary
<1>2. PICK o \in able \X CachedQuotas : p = placed(o)
  BY <1>1
<1>3. o[1] \in Resolve(q.gpu, q.tp) /\ (Context[o[1]] # 0 \/ q.force) /\ o[2] \in CachedQuotas
  BY <1>2
<1>4. p.configs[1] = Primary(q, o[1])
  <2> HIDE DEF able
  <2> QED
    BY <1>2
<1> HIDE DEF able
<1>5. /\ p.cache = {o[2]}
      /\ p.check = IF NoRegion(q, Primary(q, o[1]), o[2]) THEN {o[2]} ELSE {}
  BY <1>2
<1> QED
  BY <1>3, <1>4, <1>5

\* A step leaves the cache, drops it or fills it.
LEMMA CacheSteps ==
  ASSUME [SubmissionNext]_submissionVars
  PROVE  /\ aws' = aws
         /\ cache' \in {cache, {}} \cup {{quotas} : quotas \in CachedQuotas}
<1> DEFINE C == {cache, {}} \cup {{quotas} : quotas \in CachedQuotas}
<1>1. CASE RefreshQuotas \/ CacheExpires \/ Misfit \/ AttemptReplica \/ AttemptCluster
           \/ Launched \/ LaunchFails \/ UNCHANGED submissionVars
  BY <1>1 DEF RefreshQuotas, CacheExpires, Misfit, AttemptReplica, AttemptCluster, Launched,
              LaunchFails, submissionVars
<1>2. ASSUME NEW q \in Submissions, DryRun(q) \/ RefuseSolver(q) \/ RefuseInfeasible(q)
      PROVE  aws' = aws /\ cache' \in C
  BY <1>2 DEF DryRun, RefuseSolver, RefuseInfeasible
<1>3. ASSUME NEW q \in Submissions, RefuseLong(q) \/ Place(q)
      PROVE  aws' = aws /\ cache' \in C
  <2>1. \A p \in Placements(q) : p.cache \in C
    <3>1. CASE q.solver = "roofline"
      BY <3>1 DEF Placements
    <3>2. CASE q.solver # "roofline"
      BY <3>2, PlacedForUser
    <3> QED
      BY <3>1, <3>2
  <2> HIDE DEF C
  <2> QED
    BY <1>3, <2>1 DEF RefuseLong, Place
<1>4. ASSUME NEW s \in Scales, NEW live \in BOOLEAN, Scale(s, live)
      PROVE  aws' = aws /\ cache' \in C
  BY <1>4 DEF Scale
<1> QED
  BY <1>1, <1>2, <1>3, <1>4 DEF SubmissionNext

LEMMA QuotasKept == QuotasOK /\ [SubmissionNext]_submissionVars => QuotasOK'
BY CacheSteps, CachedAreTables DEF QuotasOK

\* What a launch of either kind is given.
LEMMA LaunchIsRight ==
  ASSUME QuotasOK, NEW quotas \in CachedQuotas, NEW spot \in BOOLEAN, NEW market,
         cache' = {quotas}, UNCHANGED <<configs, at, request>>,
         market = IF request.chunked THEN RequestedMarket(configs[at]) ELSE "none",
         spot <=> IF market = "none" THEN request.preferSpot = "spot" ELSE market = "spot",
         LET o == Offered(quotas, spot, Candidates(quotas, configs[at], spot, market))
         IN offers' = IF o # {} THEN o ELSE HomeOnly
  PROVE  ImageAndQuota'
<1> DEFINE found == Candidates(quotas, configs[at], spot, market)
           good == {o \in found : o.region \in Mapped}
<1>1. quotas \in QuotaTable
  BY CachedAreTables
<1>2. found \in SUBSET Candidate
  BY DEF Candidates, Candidate
<1>3. good # {} => offers' \subseteq good
  <2> DEFINE o == Offered(quotas, spot, found)
  <2>1. offers' = IF o # {} THEN o ELSE HomeOnly
    OBVIOUS
  <2> HIDE DEF found
  <2>2. o \subseteq good /\ (good # {} => o # {})
    BY <1>1, <1>2, FirstIsOffered
  <2> QED
    BY <2>1, <2>2
<1>4. RequestedMarket(configs[at])' = RequestedMarket(configs[at])
  BY DEF RequestedMarket
<1>5. UNION {Candidates(q, configs[at], spot, market) : q \in cache'} = found
  OBVIOUS
<1> HIDE DEF found
<1> QED
  BY <1>3, <1>4, <1>5 DEF ImageAndQuota

LEMMA ImageKept == QuotasOK /\ ImageAndQuota /\ [SubmissionNext]_submissionVars => ImageAndQuota'
<1> SUFFICES ASSUME QuotasOK, ImageAndQuota, [SubmissionNext]_submissionVars PROVE ImageAndQuota'
  OBVIOUS
<1>1. CASE stage' # "launching"
  BY <1>1 DEF ImageAndQuota
<1>2. CASE UNCHANGED submissionVars
  BY <1>2 DEF submissionVars, ImageAndQuota, RequestedMarket
<1>3. CASE AttemptReplica /\ stage' = "launching"
  <2> DEFINE market == RequestedMarket(configs[at])
             spot == market = "spot"
  <2>1. PICK quotas \in CachedQuotas :
           LET o == Offered(quotas, spot, Candidates(quotas, configs[at], spot, market))
           IN cache' = {quotas} /\ offers' = IF o # {} THEN o ELSE HomeOnly
    BY <1>3 DEF AttemptReplica, NextConfig
  <2>2. /\ request.chunked /\ UNCHANGED <<configs, at, request>>
    BY <1>3 DEF AttemptReplica, NextConfig
  <2>3. market = "none" => ~ (request.preferSpot = "spot")
    BY DEF RequestedMarket
  <2> HIDE DEF market
  <2>4. spot <=> IF market = "none" THEN request.preferSpot = "spot" ELSE market = "spot"
    BY <2>3
  <2> QED
    BY <2>1, <2>2, <2>4, LaunchIsRight DEF market
<1>4. CASE AttemptCluster
  <2> DEFINE spot == request.preferSpot = "spot"
  <2>1. PICK quotas \in CachedQuotas :
           LET o == Offered(quotas, spot, Candidates(quotas, configs[at], spot, "none"))
           IN cache' = {quotas} /\ offers' = IF o # {} THEN o ELSE HomeOnly
    BY <1>4 DEF AttemptCluster
  <2>2. ~ request.chunked /\ UNCHANGED <<configs, at, request>>
    BY <1>4 DEF AttemptCluster
  <2> QED
    BY <2>1, <2>2, LaunchIsRight
<1>5. CASE \E q \in Submissions :
             DryRun(q) \/ RefuseSolver(q) \/ RefuseInfeasible(q) \/ RefuseLong(q) \/ Place(q)
  BY <1>1, <1>5 DEF DryRun, RefuseSolver, RefuseInfeasible, RefuseLong, Place
<1>6. CASE RefreshQuotas \/ CacheExpires \/ Misfit \/ Launched \/ LaunchFails
  BY <1>1, <1>6 DEF RefreshQuotas, CacheExpires, Misfit, Launched, LaunchFails, NextConfig
<1>7. CASE \E s \in Scales, live \in BOOLEAN : Scale(s, live)
  BY <1>1, <1>7 DEF Scale
<1> QED
  BY <1>1, <1>2, <1>3, <1>4, <1>5, <1>6, <1>7 DEF SubmissionNext

\* As long as some region with an image has the quota in a market that will do, SkyPilot is
\* sent only to such regions, though the candidates are cut to five before those without
\* an image are dropped.
THEOREM LaunchesFindImages == SubmissionSpec => []ImageAndQuota
<1>1. SubmissionInit => ImageAndQuota
  BY DEF SubmissionInit, ImageAndQuota
<1> QED
  BY <1>1, QuotasInit, QuotasKept, ImageKept, PTL DEF SubmissionSpec

-----------------------------------------------------------------------------
(* Submission: dry runs.  The answer is that of the request, from the      *)
(* quotas it saw, and it is forgotten with the submission.                 *)

ToldOK ==
    /\ stage # "idle" => told = {}
    /\ \A d \in told : d.of.solver = "user_specified" =>
          \E t \in Resolve(d.of.gpu, d.of.tp) :
             /\ d.config = Primary(d.of, t)
             /\ d.feasible = (Context[t] # 0)
             /\ d.exceeds = Exceeds(d.of, Primary(d.of, t), TRUE)
             /\ d.warns = NoRegion(d.of, Primary(d.of, t), d.seen)

LEMMA ToldInit == SubmissionInit => ToldOK
BY DEF SubmissionInit, ToldOK

LEMMA DryRunTells == ASSUME ToldOK, NEW q \in Submissions, DryRun(q) PROVE ToldOK'
<1>1. stage = "idle" /\ stage' = stage
  BY DEF DryRun
<1>2. CASE q.solver = "user_specified"
  <2>1. PICK t \in Resolve(q.gpu, q.tp), quotas \in CachedQuotas :
           told' = {[of |-> q, config |-> Primary(q, t), feasible |-> Context[t] # 0,
                     exceeds |-> Exceeds(q, Primary(q, t), TRUE), seen |-> quotas,
                     warns |-> NoRegion(q, Primary(q, t), quotas)]}
    BY <1>2 DEF DryRun, DryNodes, UserNodes, Primary
  <2>2. ASSUME NEW d \in told'
        PROVE  /\ d.of = q /\ d.config = Primary(d.of, t)
               /\ d.feasible = (Context[t] # 0)
               /\ d.exceeds = Exceeds(d.of, Primary(d.of, t), TRUE)
               /\ d.warns = NoRegion(d.of, Primary(d.of, t), d.seen)
    <3> DEFINE c == Primary(q, t)
               f == Context[t] # 0
               e == Exceeds(q, c, TRUE)
               w == NoRegion(q, c, quotas)
               r == [of |-> q, config |-> c, feasible |-> f, exceeds |-> e, seen |-> quotas,
                     warns |-> w]
    <3>1. d = r
      BY <2>1, <2>2
    <3>2. /\ r.of = q /\ r.config = c /\ r.feasible = f /\ r.exceeds = e /\ r.seen = quotas
          /\ r.warns = w
      <4> HIDE DEF c, f, e, w
      <4> QED
        OBVIOUS
    <3> HIDE DEF r
    <3> QED
      BY <3>1, <3>2
  <2> QED
    BY <1>1, <2>2 DEF ToldOK
<1>3. CASE q.solver # "user_specified"
  <2>1. \A d \in told' : d.of = q
    <3>1. PICK found \in Roofline :
             told' = {[of |-> q, config |-> found[1], feasible |-> TRUE,
                       exceeds |-> Exceeds(q, found[1], TRUE), seen |-> aws, warns |-> FALSE]}
      BY <1>3 DEF DryRun
    <3> QED
      BY <3>1
  <2> QED
    BY <1>1, <1>3, <2>1 DEF ToldOK
<1> QED
  BY <1>2, <1>3

LEMMA ToldKept == ToldOK /\ [SubmissionNext]_submissionVars => ToldOK'
<1> SUFFICES ASSUME ToldOK, [SubmissionNext]_submissionVars PROVE ToldOK'
  OBVIOUS
<1>1. CASE told' = told /\ (stage' = stage \/ stage # "idle")
  BY <1>1 DEF ToldOK
<1>2. CASE told' = {}
  BY <1>2 DEF ToldOK
<1>3. CASE RefreshQuotas \/ CacheExpires \/ UNCHANGED submissionVars
  BY <1>1, <1>3 DEF RefreshQuotas, CacheExpires, submissionVars
<1>4. CASE Misfit \/ AttemptReplica \/ AttemptCluster \/ Launched \/ LaunchFails
  BY <1>1, <1>4 DEF Misfit, AttemptReplica, AttemptCluster, Launched, LaunchFails
<1>5. ASSUME NEW q \in Submissions,
             RefuseSolver(q) \/ RefuseInfeasible(q) \/ RefuseLong(q) \/ Place(q)
      PROVE  ToldOK'
  BY <1>2, <1>5 DEF RefuseSolver, RefuseInfeasible, RefuseLong, Place
<1>6. CASE \E s \in Scales, live \in BOOLEAN : Scale(s, live)
  BY <1>1, <1>6 DEF Scale
<1> QED
  BY <1>3, <1>4, <1>5, <1>6, DryRunTells DEF SubmissionNext

\* What the submission of d's request meets.
DryRunBorneOut(d) ==
    IF stage' = "refused" THEN ~ d.feasible \/ d.exceeds
    ELSE configs'[1] = d.config /\ (check' # {}) = d.warns

LEMMA ResolveIsUnique == \A gpu, tp : \A t, u \in Resolve(gpu, tp) : t = u
BY DEF Resolve

LEMMA SubmissionFollows ==
  ASSUME ToldOK, NEW d \in told, NEW q \in Submissions, d.of = q, q.solver = "user_specified",
         cache' = {d.seen},
         RefuseSolver(q) \/ RefuseInfeasible(q) \/ RefuseLong(q) \/ Place(q)
  PROVE  DryRunBorneOut(d)
<1>1. PICK t \in Resolve(q.gpu, q.tp) :
         /\ d.config = Primary(q, t)
         /\ d.feasible = (Context[t] # 0)
         /\ d.exceeds = Exceeds(q, Primary(q, t), TRUE)
         /\ d.warns = NoRegion(q, Primary(q, t), d.seen)
  BY DEF ToldOK
<1>2. \A u \in Resolve(q.gpu, q.tp) : u = t
  BY <1>1, ResolveIsUnique
<1>3. CASE RefuseSolver(q)
  BY <1>1, <1>3 DEF RefuseSolver
<1>4. CASE RefuseInfeasible(q)
  BY <1>1, <1>2, <1>4 DEF RefuseInfeasible, DryRunBorneOut
<1>5. CASE RefuseLong(q)
  <2>1. PICK p \in Placements(q) : Exceeds(q, p.configs[1], Counted(q))
    BY <1>5 DEF RefuseLong
  <2>2. p.configs[1] = Primary(q, t)
    <3>1. PICK quotas \in CachedQuotas :
             /\ p.configs[1] = Primary(q, t) /\ p.cache = {quotas}
             /\ p.check = IF NoRegion(q, Primary(q, t), quotas) THEN {quotas} ELSE {}
      BY <1>2, PlacedForUser
    <3> QED
      BY <3>1
  <2>3. d.exceeds
    BY <1>1, <2>1, <2>2 DEF Exceeds
  <2> QED
    BY <1>5, <2>3 DEF RefuseLong, DryRunBorneOut
<1>6. CASE Place(q)
  <2>1. PICK p \in Placements(q) : configs' = p.configs /\ cache' = p.cache /\ check' = p.check
    BY <1>6 DEF Place
  <2>2. PICK quotas \in CachedQuotas :
           /\ p.configs[1] = Primary(q, t) /\ p.cache = {quotas}
           /\ p.check = IF NoRegion(q, Primary(q, t), quotas) THEN {quotas} ELSE {}
    BY <1>2, PlacedForUser
  <2>3. quotas = d.seen
    BY <2>1, <2>2
  <2>4. configs'[1] = d.config
    BY <1>1, <2>1, <2>2
  <2>5. (check' # {}) = d.warns
    <3> DEFINE w == NoRegion(q, Primary(q, t), quotas)
    <3>1. d.warns = w /\ check' = IF w THEN {quotas} ELSE {}
      BY <1>1, <2>1, <2>2, <2>3
    <3>2. w \in BOOLEAN
      BY DEF NoRegion
    <3> HIDE DEF w
    <3>3. (check' # {}) = w
      BY <3>1, <3>2
    <3> QED
      BY <3>1, <3>3
  <2> QED
    BY <1>6, <2>4, <2>5 DEF Place, DryRunBorneOut
<1> QED
  BY <1>3, <1>4, <1>5, <1>6

LEMMA DryRunStep ==
  ASSUME ToldOK, [SubmissionNext]_submissionVars, NEW d \in told,
         stage' # "idle", request' = d.of, d.of.solver = "user_specified", cache' = {d.seen}
  PROVE  DryRunBorneOut(d)
<1>1. stage = "idle"
  BY DEF ToldOK
<1>2. CASE RefreshQuotas \/ CacheExpires \/ UNCHANGED submissionVars
  BY <1>1, <1>2 DEF RefreshQuotas, CacheExpires, submissionVars
<1>3. CASE Misfit \/ AttemptReplica \/ AttemptCluster \/ Launched \/ LaunchFails
  BY <1>1, <1>3 DEF Misfit, AttemptReplica, AttemptCluster, Launched, LaunchFails
<1>4. CASE \E s \in Scales, live \in BOOLEAN : Scale(s, live)
  BY <1>1, <1>4 DEF Scale
<1>5. ASSUME NEW q \in Submissions, DryRun(q) PROVE FALSE
  BY <1>1, <1>5 DEF DryRun
<1>6. ASSUME NEW q \in Submissions,
             RefuseSolver(q) \/ RefuseInfeasible(q) \/ RefuseLong(q) \/ Place(q)
      PROVE  DryRunBorneOut(d)
  <2>1. request' = q
    BY <1>6 DEF RefuseSolver, RefuseInfeasible, RefuseLong, Place
  <2> QED
    BY <1>6, <2>1, SubmissionFollows
<1> QED
  BY <1>2, <1>3, <1>4, <1>5, <1>6 DEF SubmissionNext

\* What test_placement told a client is borne out by submit_batch, for what the client
\* specified and while the quotas stay cached.
THEOREM DryRunsAreKept == SubmissionSpec => DryRunHolds
<1>1. ToldOK /\ [SubmissionNext]_submissionVars =>
         [\A d \in told :
            /\ stage' # "idle" /\ request' = d.of /\ d.of.solver = "user_specified"
            /\ cache' = {d.seen}
            => IF stage' = "refused" THEN ~ d.feasible \/ d.exceeds
               ELSE configs'[1] = d.config /\ (check' # {}) = d.warns]_submissionVars
  BY DryRunStep DEF DryRunBorneOut
<1> QED
  BY <1>1, ToldInit, ToldKept, PTL DEF SubmissionSpec, DryRunHolds
=============================================================================
