------------------------------ MODULE MetricsProofs ------------------------------
(***************************************************************************)
(* What Metrics promises, for every set of replicas and every bound.  The  *)
(* invariant says what was saved of an excluded replica (its newest        *)
(* counters, and nothing of the others), and what a request that a sidecar *)
(* waits for carries (the whole buffer).                                   *)
(*                                                                         *)
(* And what JobReport promises of the row of a job, for every set of       *)
(* replicas, their lengths and prices.                                     *)
(*                                                                         *)
(* And what Engine promises of the machine that reports both: the output   *)
(* that a runner writes and the log lines that it forwards, for every      *)
(* number of lines, requests and chunks.                                   *)
(***************************************************************************)
EXTENDS Metrics, JobReport, Engine, FiniteSetTheorems, SequenceTheorems, WellFoundedInduction,
        TLAPS

\* Of an excluded replica the newest counters are saved, of the others none.
SavedOK == \A r \in Replica : saved[r] = IF r \in excluded THEN newest[r] ELSE 0

\* A sidecar waits for at most one answer, to a post of its whole buffer.
AwaitedOK ==
    /\ \A p \in posts : p.awaited => /\ sidecar[p.replica] \in {"waiting", "last"}
                                     /\ p.from = cleared[p.replica] + 1
                                     /\ p.to = sampled[p.replica]
    /\ \A p, q \in posts : p.awaited /\ q.awaited /\ p.replica = q.replica => p = q

\* A sidecar clears only what it has sampled.
ClearedOK == \A r \in Replica : cleared[r] <= sampled[r]

IInv == TypeOK /\ SavedOK /\ RunningIsCounted /\ ClearedOK /\ AwaitedOK /\ SnapshotsKept

LEMMA InitInv == Init => IInv
  BY MetricsAssumption
  DEF Init, IInv, TypeOK, SavedOK, RunningIsCounted, ClearedOK, AwaitedOK, SnapshotsKept

\* The collector's part of the invariant.
Counted == SavedOK /\ RunningIsCounted

\* What a request is, of those under way.
LEMMA PostFields ==
  ASSUME TypeOK, NEW p \in posts
  PROVE  /\ p.replica \in Replica /\ p.awaited \in BOOLEAN
         /\ p.from \in 1 .. MaxSamples /\ p.to \in 1 .. MaxSamples
         /\ Batch(p) \subseteq 1 .. MaxSamples
  BY MetricsAssumption DEF TypeOK, Post, Batch

-----------------------------------------------------------------------------
(* Types.                                                                  *)

LEMMA TypeKept == TypeOK /\ [Next]_vars => TypeOK'
<1> SUFFICES ASSUME TypeOK, [Next]_vars PROVE TypeOK'
  OBVIOUS
<1> USE MetricsAssumption
<1>1. ASSUME NEW r \in Replica, Sample(r) PROVE TypeOK'
  BY <1>1 DEF Sample, TypeOK, collector
<1>2. ASSUME NEW r \in Replica, NEW w \in {"waiting", "last"}, Push(r, w) PROVE TypeOK'
  <2>1. [replica |-> r, from |-> cleared[r] + 1, to |-> sampled[r], awaited |-> TRUE,
         try |-> faults] \in Post
    BY <1>2 DEF Push, TypeOK, Post
  <2> QED
    BY <1>2, <2>1 DEF Push, TypeOK, collector
<1>3. ASSUME NEW r \in Replica, Finish(r) PROVE TypeOK'
  BY <1>3 DEF Finish, TypeOK, collector
<1>4. ASSUME NEW r \in Replica, Die(r) PROVE TypeOK'
  <2>1. ASSUME NEW p \in posts PROVE [p EXCEPT !.awaited = @ /\ p.replica # r] \in Post
    <3>1. p \in Post /\ (p.awaited /\ p.replica # r) \in BOOLEAN
      BY PostFields DEF TypeOK
    <3> QED
      BY <3>1 DEF Post
  <2>2. posts' \subseteq Post
    BY <1>4, <2>1 DEF Die
  <2> QED
    BY <1>4, <2>2 DEF Die, TypeOK, collector
<1>5. ASSUME NEW r \in Replica, ReplicaComplete(r) \/ ReportLost(r) PROVE TypeOK'
  <2>1. CASE ReplicaComplete(r)
    BY <2>1 DEF ReplicaComplete, Exclude, TypeOK
  <2>2. CASE ReportLost(r)
    BY <2>2 DEF ReportLost, Fault, TypeOK, collector
  <2> QED
    BY <1>5, <2>1, <2>2
<1>6. ASSUME NEW r \in Replica, DeclareDead(r) PROVE TypeOK'
  BY <1>6 DEF DeclareDead, Exclude, TypeOK, client
<1>7. ASSUME NEW r \in Replica, MarkFailed(r) \/ Kill(r) PROVE TypeOK'
  BY <1>7 DEF MarkFailed, Kill, Exclude, TypeOK, client
<1>8. ASSUME NEW p \in posts, Ingest(p) PROVE TypeOK'
  <2>1. /\ p.replica \in Replica /\ p.to \in 1 .. MaxSamples
        /\ Batch(p) \subseteq 1 .. MaxSamples
    BY PostFields
  <2>2. posts' \subseteq Post
    BY <1>8 DEF Ingest, Record, TypeOK
  <2>3. faults' \in 0 .. MaxFaults
    BY <1>8 DEF Ingest, Record, Fault, TypeOK
  <2>4. /\ stored' \in [Replica -> SUBSET (1 .. MaxSamples)]
        /\ lost' \in [Replica -> SUBSET (1 .. MaxSamples)]
    BY <1>8, <2>1 DEF Ingest, Record, TypeOK
  <2>5. /\ sidecar' \in [Replica -> {"sampling", "waiting", "last", "ended"}]
        /\ cleared' \in [Replica -> 0 .. MaxSamples]
    BY <1>8, <2>1 DEF Ingest, Record, Answer, NoAnswer, After, TypeOK
  <2>6. /\ phase' \in [Replica -> {"launching", "running", "failed", "completed", "dead",
                                   "killed", "unknown"}]
        /\ excluded' \subseteq Replica /\ saved' \in [Replica -> 0 .. MaxSamples]
    BY <1>8, <2>1 DEF Ingest, Welcome, TypeOK
  <2>7. newest' \in [Replica -> 0 .. MaxSamples] /\ jobNewest' \in 0 .. MaxSamples
    BY <1>8, <2>1 DEF Ingest, Record, TypeOK
  <2>8. UNCHANGED <<sampled, complete>>
    BY <1>8 DEF Ingest, Record
  <2> QED
    BY <2>2, <2>3, <2>4, <2>5, <2>6, <2>7, <2>8 DEF TypeOK
<1>9. ASSUME NEW p \in posts, Timeout(p) PROVE TypeOK'
  <2>1. p.replica \in Replica /\ [p EXCEPT !.awaited = FALSE] \in Post
    BY PostFields DEF TypeOK, Post
  <2>2. posts' \subseteq Post
    BY <1>9, <2>1 DEF Timeout, TypeOK
  <2> QED
    BY <1>9, <2>1, <2>2 DEF Timeout, NoAnswer, After, Fault, TypeOK, collector
<1>10. ASSUME NEW p \in posts, Refused(p) PROVE TypeOK'
  <2>1. p.replica \in Replica /\ Batch(p) \subseteq 1 .. MaxSamples
    BY PostFields
  <2> QED
    BY <1>10, <2>1 DEF Refused, Answer, After, Fault, TypeOK, collector
<1>11. ASSUME NEW p \in posts, Dropped(p) PROVE TypeOK'
  BY <1>11 DEF Dropped, TypeOK, client, collector
<1>12. CASE Restart
  BY <1>12 DEF Restart, Fault, TypeOK
<1>13. CASE UNCHANGED vars
  BY <1>13 DEF vars, client, collector, TypeOK
<1> QED
  BY <1>1, <1>2, <1>3, <1>4, <1>5, <1>6, <1>7, <1>8, <1>9, <1>10, <1>11, <1>12, <1>13
  DEF Next, PushBatch, PushLast

-----------------------------------------------------------------------------
(* What the collector counts.                                              *)

LEMMA ExcludeKeeps ==
  ASSUME TypeOK, SavedOK, NEW r \in Replica, Exclude(r)
  PROVE  SavedOK'
  BY DEF TypeOK, SavedOK, Exclude

LEMMA CountedKept == TypeOK /\ Counted /\ [Next]_vars => Counted'
<1> SUFFICES ASSUME TypeOK, Counted, [Next]_vars PROVE Counted'
  OBVIOUS
<1>0. SavedOK /\ RunningIsCounted
  BY DEF Counted
<1>1. CASE UNCHANGED collector
  BY <1>0, <1>1 DEF Counted, SavedOK, RunningIsCounted, collector
<1>2. ASSUME NEW r \in Replica, Exclude(r), NEW x \in {"completed", "dead", "killed"},
             phase' = [phase EXCEPT ![r] = x]
      PROVE  Counted'
  <2>1. SavedOK'
    BY <1>0, <1>2, ExcludeKeeps
  <2>2. RunningIsCounted'
    BY <1>0, <1>2 DEF RunningIsCounted, Exclude, TypeOK
  <2> QED
    BY <2>1, <2>2 DEF Counted
<1>3. ASSUME NEW r \in Replica, MarkFailed(r) PROVE Counted'
  BY <1>0, <1>3 DEF MarkFailed, Counted, SavedOK, RunningIsCounted, TypeOK
<1>4. ASSUME NEW p \in posts, Ingest(p) PROVE Counted'
  <2>1. p.replica \in Replica
    BY PostFields
  <2>2. SavedOK'
    <3> SUFFICES ASSUME NEW r \in Replica
                 PROVE  saved'[r] = IF r \in excluded' THEN newest'[r] ELSE 0
      BY DEF SavedOK
    <3>1. CASE r = p.replica
      BY <1>0, <1>4, <2>1, <3>1 DEF Ingest, Welcome, SavedOK, TypeOK
    <3>2. CASE r # p.replica
      BY <1>0, <1>4, <2>1, <3>2 DEF Ingest, Welcome, Record, SavedOK, TypeOK
    <3> QED
      BY <3>1, <3>2
  <2>3. RunningIsCounted'
    BY <1>0, <1>4, <2>1 DEF Ingest, Welcome, RunningIsCounted, TypeOK
  <2> QED
    BY <2>2, <2>3 DEF Counted
<1>5. CASE Restart
  BY <1>5 DEF Restart, Counted, SavedOK, RunningIsCounted
<1>6. ASSUME NEW r \in Replica, ReplicaComplete(r) \/ DeclareDead(r) \/ Kill(r) PROVE Counted'
  <2>1. Exclude(r)
    BY <1>6 DEF ReplicaComplete, DeclareDead, Kill
  <2>2. PICK x \in {"completed", "dead", "killed"} : phase' = [phase EXCEPT ![r] = x]
    BY <1>6 DEF ReplicaComplete, DeclareDead, Kill
  <2> QED
    BY <1>2, <2>1, <2>2
<1>7. ASSUME NEW r \in Replica, \/ Sample(r) \/ PushBatch(r) \/ PushLast(r) \/ Finish(r) \/ Die(r)
                                \/ ReportLost(r)
      PROVE  Counted'
  BY <1>1, <1>7 DEF Sample, PushBatch, PushLast, Push, Finish, Die, ReportLost
<1>8. ASSUME NEW p \in posts, Timeout(p) \/ Refused(p) \/ Dropped(p) PROVE Counted'
  BY <1>1, <1>8 DEF Timeout, Refused, Dropped
<1>9. CASE UNCHANGED vars
  BY <1>1, <1>9 DEF vars
<1> QED
  BY <1>3, <1>4, <1>5, <1>6, <1>7, <1>8, <1>9 DEF Next

-----------------------------------------------------------------------------
(* What a sidecar still has, and what it handed over.                      *)

Delivered == AwaitedOK /\ SnapshotsKept

LEMMA ClearedKept == TypeOK /\ ClearedOK /\ [Next]_vars => ClearedOK'
<1> SUFFICES ASSUME TypeOK, ClearedOK, [Next]_vars PROVE ClearedOK'
  OBVIOUS
<1>1. CASE UNCHANGED <<sampled, cleared>>
  BY <1>1 DEF ClearedOK
<1>2. ASSUME NEW r \in Replica, Sample(r) PROVE ClearedOK'
  BY <1>2, MetricsAssumption DEF Sample, ClearedOK, TypeOK
<1>3. ASSUME NEW p \in posts, Answer(p.replica) \/ NoAnswer(p.replica), UNCHANGED sampled
      PROVE  ClearedOK'
  BY <1>3, PostFields, MetricsAssumption DEF Answer, NoAnswer, ClearedOK, TypeOK
<1>4. ASSUME NEW p \in posts, Ingest(p) \/ Timeout(p) \/ Refused(p) \/ Dropped(p)
      PROVE  ClearedOK'
  <2>1. UNCHANGED sampled /\ (Answer(p.replica) \/ NoAnswer(p.replica) \/ UNCHANGED cleared)
    BY <1>4 DEF Ingest, Record, Timeout, Refused, Dropped, client
  <2> QED
    BY <1>1, <1>3, <2>1
<1>5. ASSUME NEW r \in Replica, \/ PushBatch(r) \/ PushLast(r) \/ Finish(r) \/ Die(r)
                                \/ ReplicaComplete(r) \/ ReportLost(r)
                                \/ DeclareDead(r) \/ MarkFailed(r) \/ Kill(r)
      PROVE  ClearedOK'
  BY <1>1, <1>5 DEF PushBatch, PushLast, Push, Finish, Die, ReplicaComplete, ReportLost,
                    DeclareDead, MarkFailed, Kill, client
<1>6. CASE Restart \/ UNCHANGED vars
  BY <1>1, <1>6 DEF Restart, vars, client
<1> QED
  BY <1>2, <1>4, <1>5, <1>6 DEF Next

\* The sidecar that waits for p is answered, with its batch stored or lost, or it is not
\* answered and keeps its buffer; either way p is not awaited any more.
LEMMA AnsweredKeeps ==
  ASSUME TypeOK, Delivered, NEW p \in posts, p.awaited,
         UNCHANGED sampled,
         posts' \subseteq (posts \ {p}) \cup {[p EXCEPT !.awaited = FALSE]},
         \A r \in Replica : stored[r] \cup lost[r] \subseteq stored'[r] \cup lost'[r],
         \/ Answer(p.replica) /\ Batch(p) \subseteq stored'[p.replica] \cup lost'[p.replica]
         \/ NoAnswer(p.replica)
  PROVE  Delivered'
<1> DEFINE r == p.replica
<1> USE MetricsAssumption
<1>1. r \in Replica /\ p.from = cleared[r] + 1 /\ p.to = sampled[r]
  BY PostFields DEF Delivered, AwaitedOK
<1>2. /\ \A s \in Replica \ {r} : sidecar'[s] = sidecar[s] /\ cleared'[s] = cleared[s]
      /\ cleared'[r] \in {cleared[r], sampled[r]}
  BY <1>1 DEF Answer, NoAnswer, TypeOK
<1>3. \A q \in posts' : q.awaited => q \in posts /\ q # p /\ q.replica # r
  <2> SUFFICES ASSUME NEW q \in posts', q.awaited PROVE q \in posts /\ q # p /\ q.replica # r
    OBVIOUS
  <2>1. q \in posts /\ q # p
    BY DEF TypeOK, Post
  <2> QED
    BY <2>1 DEF Delivered, AwaitedOK
<1>4. AwaitedOK'
  <2>1. ASSUME NEW q \in posts', q.awaited
        PROVE  /\ sidecar'[q.replica] \in {"waiting", "last"}
               /\ q.from = cleared'[q.replica] + 1 /\ q.to = sampled'[q.replica]
    <3>1. q \in posts /\ q.replica \in Replica \ {r}
      BY <1>3, <2>1, PostFields
    <3> QED
      BY <1>2, <2>1, <3>1 DEF Delivered, AwaitedOK
  <2>2. \A q, s \in posts' : q.awaited /\ s.awaited /\ q.replica = s.replica => q = s
    BY <1>3 DEF Delivered, AwaitedOK
  <2> QED
    BY <2>1, <2>2 DEF AwaitedOK
<1>5. SnapshotsKept'
  <2> SUFFICES ASSUME NEW s \in Replica, sidecar'[s] # "ended", NEW n \in 1 .. sampled[s]
               PROVE  n > cleared'[s] \/ n \in stored'[s] \cup lost'[s]
    BY DEF SnapshotsKept
  <2>1. CASE s # r
    BY <1>2, <2>1 DEF Delivered, SnapshotsKept
  <2>2. CASE s = r
    <3>1. sidecar[r] # "ended"
      BY DEF Delivered, AwaitedOK
    <3>2. n > cleared[r] \/ n \in stored[r] \cup lost[r]
      BY <1>1, <2>2, <3>1 DEF Delivered, SnapshotsKept
    <3>3. n \in Nat /\ cleared[r] \in Nat /\ sampled[r] \in Nat
      BY <1>1, <2>2 DEF TypeOK
    <3>4. CASE Answer(r) /\ Batch(p) \subseteq stored'[r] \cup lost'[r]
      <4>1. n > cleared[r] => n \in Batch(p)
        BY <1>1, <2>2, <3>3 DEF Batch
      <4> QED
        BY <1>1, <2>2, <3>2, <3>4, <4>1
    <3>5. CASE NoAnswer(r)
      BY <1>1, <2>2, <3>2, <3>5 DEF NoAnswer
    <3> QED
      BY <3>4, <3>5
  <2> QED
    BY <2>1, <2>2
<1> QED
  BY <1>4, <1>5 DEF Delivered

\* Steps that leave the sidecars alone, store more, and drop requests.
LEMMA QuietKeeps ==
  ASSUME TypeOK, Delivered, UNCHANGED <<sidecar, sampled, cleared>>, posts' \subseteq posts,
         \A r \in Replica : stored[r] \cup lost[r] \subseteq stored'[r] \cup lost'[r]
  PROVE  Delivered'
  BY DEF Delivered, AwaitedOK, SnapshotsKept

LEMMA DeliveredKept == TypeOK /\ ClearedOK /\ Delivered /\ [Next]_vars => Delivered'
<1> SUFFICES ASSUME TypeOK, ClearedOK, Delivered, [Next]_vars PROVE Delivered'
  OBVIOUS
<1> USE MetricsAssumption
<1>1. ASSUME NEW r \in Replica, Sample(r) PROVE Delivered'
  <2>1. \A p \in posts : p.awaited => p.replica # r
    BY <1>1 DEF Sample, Delivered, AwaitedOK
  <2>2. AwaitedOK'
    <3>1. /\ UNCHANGED <<posts, sidecar, cleared>>
          /\ \A s \in Replica \ {r} : sampled'[s] = sampled[s]
      BY <1>1 DEF Sample, TypeOK
    <3>2. ASSUME NEW p \in posts, p.awaited
          PROVE  /\ sidecar[p.replica] \in {"waiting", "last"}
                 /\ p.from = cleared[p.replica] + 1 /\ p.to = sampled'[p.replica]
      <4>1. p.replica \in Replica \ {r}
        BY <2>1, <3>2, PostFields
      <4> QED
        BY <3>1, <3>2, <4>1 DEF Delivered, AwaitedOK
    <3>3. ASSUME NEW p \in posts', p.awaited
          PROVE  /\ sidecar'[p.replica] \in {"waiting", "last"}
                 /\ p.from = cleared'[p.replica] + 1 /\ p.to = sampled'[p.replica]
      BY <3>1, <3>2, <3>3
    <3>4. ASSUME NEW p \in posts', NEW q \in posts', p.awaited, q.awaited, p.replica = q.replica
          PROVE  p = q
      BY <3>1, <3>4 DEF Delivered, AwaitedOK
    <3> QED
      BY <3>3, <3>4 DEF AwaitedOK
  <2>3. SnapshotsKept'
    <3>1. /\ UNCHANGED <<sidecar, cleared, stored, lost>> /\ sampled'[r] = sampled[r] + 1
          /\ \A s \in Replica \ {r} : sampled'[s] = sampled[s]
      BY <1>1 DEF Sample, TypeOK
    <3> SUFFICES ASSUME NEW s \in Replica, sidecar[s] # "ended", NEW n \in 1 .. sampled'[s]
                 PROVE  n > cleared[s] \/ n \in stored[s] \cup lost[s]
      BY <3>1 DEF SnapshotsKept
    <3>2. sampled[s] \in Nat /\ cleared[s] \in Nat /\ cleared[s] <= sampled[s]
      BY DEF ClearedOK, TypeOK
    <3>3. CASE n \in 1 .. sampled[s]
      BY <3>3 DEF Delivered, SnapshotsKept
    <3>4. CASE n = sampled[s] + 1
      BY <3>2, <3>4
    <3> QED
      BY <3>1, <3>2, <3>3, <3>4
  <2> QED
    BY <2>2, <2>3 DEF Delivered
<1>2. ASSUME NEW r \in Replica, NEW w \in {"waiting", "last"}, Push(r, w) PROVE Delivered'
  <2>1. \A p \in posts : p.awaited => p.replica # r
    BY <1>2 DEF Push, Delivered, AwaitedOK
  <2> DEFINE new == [replica |-> r, from |-> cleared[r] + 1, to |-> sampled[r],
                     awaited |-> TRUE, try |-> faults]
  <2>2. AwaitedOK'
    <3>1. /\ posts' = posts \cup {new} /\ UNCHANGED <<cleared, sampled>>
          /\ sidecar' = [sidecar EXCEPT ![r] = w]
      BY <1>2 DEF Push
    <3>2. ASSUME NEW p \in posts', p.awaited
          PROVE  /\ sidecar'[p.replica] \in {"waiting", "last"}
                 /\ p.from = cleared'[p.replica] + 1 /\ p.to = sampled'[p.replica]
      <4>1. CASE p = new
        BY <3>1, <4>1 DEF TypeOK
      <4>2. CASE p \in posts
        BY <2>1, <3>1, <3>2, <4>2, PostFields DEF Delivered, AwaitedOK, TypeOK
      <4> QED
        BY <3>1, <4>1, <4>2
    <3>3. ASSUME NEW p \in posts', NEW q \in posts', p.awaited, q.awaited, p.replica = q.replica
          PROVE  p = q
      <4>1. new.replica = r
        OBVIOUS
      <4>2. CASE p = new \/ q = new
        BY <2>1, <3>1, <3>3, <4>1, <4>2
      <4>3. CASE p \in posts /\ q \in posts
        BY <3>3, <4>3 DEF Delivered, AwaitedOK
      <4> QED
        BY <3>1, <4>2, <4>3
    <3> QED
      BY <3>2, <3>3 DEF AwaitedOK
  <2>3. SnapshotsKept'
    BY <1>2 DEF Push, Delivered, SnapshotsKept, TypeOK
  <2> QED
    BY <2>2, <2>3 DEF Delivered
<1>3. ASSUME NEW r \in Replica, Die(r) PROVE Delivered'
  <2>1. \A q \in posts' : q.awaited => q \in posts /\ q.replica # r
    <3> SUFFICES ASSUME NEW q \in posts', q.awaited PROVE q \in posts /\ q.replica # r
      OBVIOUS
    <3>1. PICK p \in posts : q = [p EXCEPT !.awaited = @ /\ p.replica # r]
      BY <1>3 DEF Die
    <3>2. p.awaited /\ p.replica # r
      BY <3>1 DEF TypeOK, Post
    <3>3. q = p
      BY <3>1, <3>2 DEF TypeOK, Post
    <3> QED
      BY <3>2, <3>3
  <2>2. AwaitedOK'
    BY <1>3, <2>1, PostFields DEF Die, Delivered, AwaitedOK, TypeOK
  <2>3. SnapshotsKept'
    BY <1>3 DEF Die, Delivered, SnapshotsKept, TypeOK
  <2> QED
    BY <2>2, <2>3 DEF Delivered
<1>4. ASSUME NEW p \in posts, Ingest(p) PROVE Delivered'
  <2>1. /\ p.replica \in Replica /\ UNCHANGED sampled /\ posts' = posts \ {p}
        /\ \A r \in Replica : stored[r] \cup lost[r] \subseteq stored'[r] \cup lost'[r]
        /\ Batch(p) \subseteq stored'[p.replica] \cup lost'[p.replica]
    BY <1>4, PostFields DEF Ingest, Record, TypeOK
  <2>2. CASE p.awaited
    <3>1. Answer(p.replica) \/ NoAnswer(p.replica)
      BY <1>4, <2>2 DEF Ingest, Record
    <3> QED
      BY <2>1, <2>2, <3>1, AnsweredKeeps
  <2>3. CASE ~ p.awaited
    <3>1. UNCHANGED <<sidecar, cleared>>
      BY <1>4, <2>3 DEF Ingest, Record
    <3> QED
      BY <2>1, <3>1, QuietKeeps
  <2> QED
    BY <2>2, <2>3
<1>5. ASSUME NEW p \in posts, Timeout(p) PROVE Delivered'
  BY <1>5, AnsweredKeeps DEF Timeout
<1>6. ASSUME NEW p \in posts, Refused(p) PROVE Delivered'
  <2>1. /\ p.replica \in Replica
        /\ \A r \in Replica : stored[r] \cup lost[r] \subseteq stored'[r] \cup lost'[r]
        /\ Batch(p) \subseteq stored'[p.replica] \cup lost'[p.replica]
    BY <1>6, PostFields DEF Refused, TypeOK
  <2> QED
    BY <1>6, <2>1, AnsweredKeeps DEF Refused
<1>7. CASE Restart
  <2>1. posts' = {}
    BY <1>7 DEF Restart
  <2>2. SnapshotsKept'
    BY <1>7 DEF Restart, Delivered, SnapshotsKept, TypeOK
  <2> QED
    BY <2>1, <2>2 DEF Delivered, AwaitedOK
<1>8. ASSUME NEW p \in posts, Dropped(p) PROVE Delivered'
  BY <1>8, QuietKeeps DEF Dropped, client
<1>9. ASSUME NEW r \in Replica, \/ Finish(r) \/ ReplicaComplete(r) \/ ReportLost(r)
                                \/ DeclareDead(r) \/ MarkFailed(r) \/ Kill(r)
      PROVE  Delivered'
  <2>1. UNCHANGED <<sidecar, sampled, cleared, posts, stored, lost>>
    BY <1>9 DEF Finish, ReplicaComplete, ReportLost, DeclareDead, MarkFailed, Kill, client
  <2> QED
    BY <2>1, QuietKeeps
<1>10. CASE UNCHANGED vars
  BY <1>10, QuietKeeps DEF vars, client
<1> QED
  BY <1>1, <1>2, <1>3, <1>4, <1>5, <1>6, <1>7, <1>8, <1>9, <1>10 DEF Next, PushBatch, PushLast

-----------------------------------------------------------------------------
(* The theorems.                                                           *)

LEMMA Invariance == Spec => []IInv
<1>1. IInv /\ [Next]_vars => IInv'
  BY TypeKept, CountedKept, ClearedKept, DeliveredKept DEF IInv, Counted, Delivered
<1> QED
  BY InitInv, <1>1, PTL DEF Spec

\* Type correctness of the metrics path.
THEOREM TypeCorrect == Spec => []TypeOK
  BY Invariance, PTL DEF IInv

\* Two functions with the same values have the same sum: each replica contributes its
\* newest counters.
LEMMA NewestContributed ==
  ASSUME TypeOK, SavedOK
  PROVE  Contribution = newest
<1>1. \A r \in Replica : Contribution[r] = newest[r]
  BY MetricsAssumption DEF Contribution, Live, SavedOK, TypeOK
<1>2. newest = [r \in Replica |-> newest[r]] /\ Contribution = [r \in Replica |-> Contribution[r]]
  BY DEF TypeOK, Contribution
<1> QED
  BY <1>1, <1>2

\* While some replica reports, get_aggregated answers the sum of what all replicas last
\* reported, whatever completions, deaths, kills, recoveries and restarts came before.
THEOREM TotalsAddUp == Spec => []TotalAddsUp
<1>1. IInv => TotalAddsUp
  BY NewestContributed DEF IInv, TotalAddsUp, Aggregated
<1> QED
  BY Invariance, <1>1, PTL

\* A replica that is held to run takes part in the aggregation.
THEOREM RunningCounts == Spec => []RunningIsCounted
  BY Invariance, PTL DEF IInv

\* A live sidecar loses snapshots only to the server's own failures.
THEOREM SnapshotsAreKept == Spec => []SnapshotsKept
  BY Invariance, PTL DEF IInv

-----------------------------------------------------------------------------
(* JobReport: totals.  That a total does not depend on the order in which  *)
(* the fold takes the replicas is shown by a smallest counterexample.      *)

\* A property that fails of a set of replicas fails of one whose proper subsets all have it.
LEMMA SmallestCounterexample ==
  ASSUME NEW Bad, Bad \subseteq SUBSET Worker, Bad # {}
  PROVE  \E S \in Bad : \A R \in SUBSET S : R # S => R \notin Bad
<1>1. FiniteSubsetsOf(Worker) = SUBSET Worker
  BY JobReportAssumption, FS_FiniteSubsetsOfFinite
<1>2. IsWellFoundedOn(StrictSubsetOrdering(Worker), SUBSET Worker)
  BY <1>1, FS_StrictSubsetOrderingWellFounded
<1>3. PICK S \in Bad : \A R \in Bad : ~ (<<R, S>> \in StrictSubsetOrdering(Worker))
  BY <1>2, WFMin, Zenon
<1>4. ASSUME NEW R \in SUBSET S, R # S PROVE R \notin Bad
  <2>1. <<R, S>> \in (SUBSET Worker) \X (SUBSET Worker)
    BY <1>4
  <2>2. <<R, S>> \in StrictSubsetOrdering(Worker)
    BY <1>4, <2>1 DEF StrictSubsetOrdering
  <2> QED
    BY <1>3, <2>2
<1> QED
  BY <1>4

\* The element of a set that the fold takes first.
First(S) == CHOOSE j \in S : TRUE

\* f is the recursive function of the fold over the subsets of S.
Folds(f, t, k, S) == f = [R \in SUBSET S |-> IF R = {} THEN 0
                                       ELSE t[First(R)][k] + f[R \ {First(R)}]]
Fold(t, k, S) == CHOOSE f : Folds(f, t, k, S)

LEMMA TotalIsFold == \A t, k, S : Total(t, S, k) = Fold(t, k, S)[S]
BY DEF Total, MapThenSumSet, MapThenFoldSet, Fold, Folds, First

\* The recursion is well defined, and folds of different sets agree.
LEMMA FoldsExist ==
  ASSUME NEW t, NEW k, NEW S \in SUBSET Worker
  PROVE  Folds(Fold(t, k, S), t, k, S) /\ \A R \in SUBSET S : Fold(t, k, S)[R] = Total(t, R, k)
<1> DEFINE P(T) == /\ Folds(Fold(t, k, T), t, k, T)
                   /\ \A R \in SUBSET T : Fold(t, k, T)[R] = Total(t, R, k)
           Bad == {T \in SUBSET Worker : ~ P(T)}
<1> SUFFICES ASSUME Bad # {} PROVE FALSE
  OBVIOUS
<1>1. PICK T \in Bad : \A R \in SUBSET T : R # T => R \notin Bad
  <2> HIDE DEF P
  <2>1. Bad \subseteq SUBSET Worker
    OBVIOUS
  <2> HIDE DEF Bad
  <2> QED
    BY <2>1, SmallestCounterexample
<1>2. ~ P(T) /\ T \in SUBSET Worker /\ \A R \in SUBSET T : R # T => P(R)
  <2> HIDE DEF P
  <2> QED
    BY <1>1
<1>3. ASSUME NEW R \in SUBSET T, R # T
      PROVE  Total(t, R, k) = IF R = {} THEN 0 ELSE t[First(R)][k] + Total(t, R \ {First(R)}, k)
  <2>1. Fold(t, k, R) = [Q \in SUBSET R |-> IF Q = {} THEN 0
                                      ELSE t[First(Q)][k] + Fold(t, k, R)[Q \ {First(Q)}]]
    BY <1>2, <1>3 DEF Folds
  <2>2. Fold(t, k, R)[R] = IF R = {} THEN 0 ELSE t[First(R)][k] + Fold(t, k, R)[R \ {First(R)}]
    BY <2>1
  <2>3. Fold(t, k, R)[R] = Total(t, R, k) /\ Fold(t, k, R)[R \ {First(R)}] = Total(t, R \ {First(R)}, k)
    BY <1>2, <1>3
  <2> QED
    BY <2>2, <2>3
<1>4. \A R \in SUBSET T : R # {} => First(R) \in R /\ R \ {First(R)} \in SUBSET T
                                     /\ R \ {First(R)} # T
  BY DEF First
<1> DEFINE g == [R \in SUBSET T |-> IF R = {} THEN 0
                                    ELSE t[First(R)][k] + Total(t, R \ {First(R)}, k)]
<1>5. Folds(g, t, k, T)
  <2>1. \A R \in SUBSET T : R # T => g[R] = Total(t, R, k)
    BY <1>3
  <2>2. \A R \in SUBSET T : R # {} => g[R \ {First(R)}] = Total(t, R \ {First(R)}, k)
    BY <1>4, <2>1
  <2> QED
    BY <2>2 DEF Folds
<1>6. Folds(Fold(t, k, T), t, k, T)
  BY <1>5 DEF Fold
<1>7. ASSUME NEW R \in SUBSET T
      PROVE  Fold(t, k, T)[R] = IF R = {} THEN 0 ELSE t[First(R)][k] + Fold(t, k, T)[R \ {First(R)}]
  BY <1>6 DEF Folds
<1> DEFINE Off == {R \in SUBSET T : Fold(t, k, T)[R] # Total(t, R, k)}
<1>8. Off # {}
  BY <1>2, <1>6
<1>9. PICK R \in Off : \A Q \in SUBSET R : Q # R => Q \notin Off
  <2>1. Off \subseteq SUBSET Worker
    BY <1>2
  <2> HIDE DEF Off
  <2> QED
    BY <1>8, <2>1, SmallestCounterexample
<1>10. R # T
  BY <1>9, TotalIsFold
<1>11. R # {} => Fold(t, k, T)[R \ {First(R)}] = Total(t, R \ {First(R)}, k)
  BY <1>4, <1>9
<1> QED
  BY <1>3, <1>7, <1>9, <1>10, <1>11

LEMMA TotalUnfolds ==
  ASSUME NEW t, NEW k, NEW S \in SUBSET Worker
  PROVE  /\ S = {} => Total(t, S, k) = 0
         /\ S # {} => First(S) \in S /\ Total(t, S, k) = t[First(S)][k] + Total(t, S \ {First(S)}, k)
<1>1. Fold(t, k, S) = [Q \in SUBSET S |-> IF Q = {} THEN 0
                                    ELSE t[First(Q)][k] + Fold(t, k, S)[Q \ {First(Q)}]]
  <2>1. Folds(Fold(t, k, S), t, k, S)
    BY FoldsExist
  <2> QED
    BY <2>1 DEF Folds
<1>2. Fold(t, k, S)[S] = IF S = {} THEN 0 ELSE t[First(S)][k] + Fold(t, k, S)[S \ {First(S)}]
  BY <1>1
<1>3. Fold(t, k, S)[S] = Total(t, S, k) /\ Fold(t, k, S)[S \ {First(S)}] = Total(t, S \ {First(S)}, k)
  BY FoldsExist
<1>4. S # {} => First(S) \in S
  BY DEF First
<1> QED
  BY <1>2, <1>3, <1>4


\* What is counted in a field is a number.
Numbers(t, k, S) == \A r \in S : t[r][k] \in Nat

\* A total is a number, and any element can be taken out of it.
LEMMA TotalTakes ==
  ASSUME NEW t, NEW k, NEW S \in SUBSET Worker, Numbers(t, k, S)
  PROVE  Total(t, S, k) \in Nat
         /\ \A r \in S : Total(t, S, k) = t[r][k] + Total(t, S \ {r}, k)
<1> DEFINE Tot(T) == Total(t, T, k)
           P(T) == Tot(T) \in Nat /\ \A r \in T : Tot(T) = t[r][k] + Tot(T \ {r})
           Bad == {T \in SUBSET S : ~ P(T)}
<1> SUFFICES ASSUME Bad # {} PROVE FALSE
  OBVIOUS
<1>1. PICK T \in Bad : \A R \in SUBSET T : R # T => R \notin Bad
  <2> HIDE DEF P
  <2>1. Bad \subseteq SUBSET Worker
    OBVIOUS
  <2> HIDE DEF Bad
  <2> QED
    BY <2>1, SmallestCounterexample
<1>2. ~ P(T) /\ T \in SUBSET S /\ \A R \in SUBSET T : R # T => P(R)
  <2> HIDE DEF P
  <2> QED
    BY <1>1
<1>3. /\ T = {} => Tot(T) = 0
      /\ T # {} => First(T) \in T /\ Tot(T) = t[First(T)][k] + Tot(T \ {First(T)})
  BY <1>2, TotalUnfolds
<1> HIDE DEF Tot
<1>4. T # {}
  BY <1>2, <1>3
<1> DEFINE c == First(T)
<1>5. c \in T /\ Tot(T) = t[c][k] + Tot(T \ {c})
  BY <1>3, <1>4
<1>6. \A r \in S : t[r][k] \in Nat
  BY DEF Numbers
<1> HIDE DEF c
<1>7. T \ {c} \in SUBSET T /\ T \ {c} # T
  BY <1>5
<1>8. Tot(T \ {c}) \in Nat /\ Tot(T) \in Nat
  BY <1>2, <1>5, <1>6, <1>7
<1>9. ASSUME NEW r \in T PROVE Tot(T) = t[r][k] + Tot(T \ {r})
  <2>1. CASE r = c
    BY <1>5, <2>1
  <2>2. CASE r # c
    <3> DEFINE n == Tot((T \ {c}) \ {r})
    <3>1. Tot(T \ {c}) = t[r][k] + n
      BY <1>2, <1>7, <2>2
    <3>2. T \ {r} \in SUBSET T /\ T \ {r} # T /\ c \in T \ {r}
      BY <1>5, <2>2
    <3>3. Tot(T \ {r}) = t[c][k] + Tot((T \ {r}) \ {c})
      BY <1>2, <3>2
    <3>4. Tot((T \ {r}) \ {c}) = n
      <4>1. (T \ {r}) \ {c} = (T \ {c}) \ {r}
        OBVIOUS
      <4> QED
        BY <4>1
    <3>5. n \in Nat
      <4>1. (T \ {c}) \ {r} \in SUBSET T /\ (T \ {c}) \ {r} # T
        BY <1>7
      <4> QED
        BY <1>2, <4>1
    <3>6. t[r][k] \in Nat /\ t[c][k] \in Nat
      BY <1>2, <1>5, <1>6
    <3> HIDE DEF n
    <3>7. Tot(T) = t[c][k] + (t[r][k] + n) /\ Tot(T \ {r}) = t[c][k] + n
      BY <1>5, <3>1, <3>3, <3>4
    <3> QED
      BY <3>5, <3>6, <3>7
  <2> QED
    BY <2>1, <2>2
<1> QED
  BY <1>2, <1>8, <1>9

\* Equal fields have equal totals.
LEMMA TotalAgrees ==
  ASSUME NEW t, NEW u, NEW k, NEW S \in SUBSET Worker, \A r \in S : t[r][k] = u[r][k]
  PROVE  Total(t, S, k) = Total(u, S, k)
<1> DEFINE P(T) == Total(t, T, k) = Total(u, T, k)
           Bad == {T \in SUBSET S : ~ P(T)}
<1> SUFFICES ASSUME Bad # {} PROVE FALSE
  OBVIOUS
<1>1. PICK T \in Bad : \A R \in SUBSET T : R # T => R \notin Bad
  <2> HIDE DEF P
  <2>1. Bad \subseteq SUBSET Worker
    OBVIOUS
  <2> HIDE DEF Bad
  <2> QED
    BY <2>1, SmallestCounterexample
<1>2. ~ P(T) /\ T \in SUBSET S /\ \A R \in SUBSET T : R # T => P(R)
  <2> HIDE DEF P
  <2> QED
    BY <1>1
<1>3. T \in SUBSET Worker
  BY <1>2
<1>4. /\ T = {} => Total(t, T, k) = 0
      /\ T # {} => /\ First(T) \in T
                   /\ Total(t, T, k) = t[First(T)][k] + Total(t, T \ {First(T)}, k)
  BY <1>3, TotalUnfolds
<1>5. /\ T = {} => Total(u, T, k) = 0
      /\ T # {} => Total(u, T, k) = u[First(T)][k] + Total(u, T \ {First(T)}, k)
  BY <1>3, TotalUnfolds
<1>6. T # {}
  BY <1>2, <1>4, <1>5
<1>7. P(T \ {First(T)})
  BY <1>2, <1>4, <1>6
<1> QED
  BY <1>2, <1>4, <1>5, <1>6, <1>7

\* A total lies between the least and the greatest value, times the number of values.
LEMMA TotalBetween ==
  ASSUME NEW t, NEW k, NEW S \in SUBSET Worker, NEW lo \in Nat, NEW hi \in Nat,
         \A r \in S : t[r][k] \in Nat /\ lo <= t[r][k] /\ t[r][k] <= hi
  PROVE  /\ Cardinality(S) \in Nat /\ Total(t, S, k) \in Nat
         /\ lo * Cardinality(S) <= Total(t, S, k)
         /\ Total(t, S, k) <= hi * Cardinality(S)
<1> DEFINE P(T) == lo * Cardinality(T) <= Total(t, T, k) /\ Total(t, T, k) <= hi * Cardinality(T)
           Bad == {T \in SUBSET S : ~ P(T)}
<1>0. \A T \in SUBSET S : IsFiniteSet(T) /\ Cardinality(T) \in Nat /\ Total(t, T, k) \in Nat
  <2> TAKE T \in SUBSET S
  <2>1. IsFiniteSet(T)
    BY JobReportAssumption, FS_Subset
  <2>2. Numbers(t, k, T)
    BY DEF Numbers
  <2> QED
    BY <2>1, <2>2, FS_CardinalityType, TotalTakes
<1> SUFFICES ASSUME Bad # {} PROVE FALSE
  BY <1>0
<1>1. PICK T \in Bad : \A R \in SUBSET T : R # T => R \notin Bad
  <2> HIDE DEF P
  <2>1. Bad \subseteq SUBSET Worker
    OBVIOUS
  <2> HIDE DEF Bad
  <2> QED
    BY <2>1, SmallestCounterexample
<1>2. ~ P(T) /\ T \in SUBSET S /\ \A R \in SUBSET T : R # T => P(R)
  <2> HIDE DEF P
  <2> QED
    BY <1>1
<1>3. /\ T = {} => Total(t, T, k) = 0
      /\ T # {} => /\ First(T) \in T
                   /\ Total(t, T, k) = t[First(T)][k] + Total(t, T \ {First(T)}, k)
  BY <1>2, TotalUnfolds
<1>4. T # {}
  <2>1. SUFFICES ASSUME T = {} PROVE P(T)
    BY <1>2
  <2>2. Cardinality(T) = 0 /\ Total(t, T, k) = 0
    BY <1>3, <2>1, FS_EmptySet
  <2> QED
    BY <2>2
<1> DEFINE c == First(T)
           n == Cardinality(T \ {c})
           s == Total(t, T \ {c}, k)
<1>5. c \in T /\ Total(t, T, k) = t[c][k] + s
  BY <1>3, <1>4
<1>6. n \in Nat /\ s \in Nat /\ lo * n <= s /\ s <= hi * n
  BY <1>0, <1>2, <1>5
<1>7. Cardinality(T) = n + 1
  BY <1>0, <1>2, <1>5, <1>6, FS_RemoveElement
<1>8. t[c][k] \in Nat /\ lo <= t[c][k] /\ t[c][k] <= hi
  BY <1>2, <1>5
<1> HIDE DEF c, n, s
<1>9. lo * (n + 1) = lo * n + lo /\ hi * (n + 1) = hi * n + hi
  BY <1>6
<1>10. lo * n \in Nat /\ hi * n \in Nat
  BY <1>6
<1> QED
  BY <1>2, <1>5, <1>6, <1>7, <1>8, <1>9, <1>10

-----------------------------------------------------------------------------
(* The row of a finished job.                                              *)

\* While summaries are counted, their replicas serve no more.
SummariesFinal == \A r \in Rows \cup run.of : worker[r] = "ended"

ReportInv ==
    /\ queue \in Nat
    /\ worker \in [Worker -> {"free", "busy", "building", "ended"}]
    /\ served \in [Worker -> Nat]
    /\ posted \in Seq(Worker) /\ run.of \subseteq Worker
    /\ SummariesFinal /\ RunIsOfItsReplicas

\* The least and the greatest of some lengths exist.
LEMMA Extremes ==
  ASSUME NEW S \in SUBSET Worker, S # {}
  PROVE  LET lengths == {Length[r] : r \in S}
         IN /\ Min(lengths) \in lengths /\ Max(lengths) \in lengths
            /\ \A n \in lengths : Min(lengths) <= n /\ n <= Max(lengths)
<1> DEFINE P(T) == T # {} => /\ \E r \in T : \A w \in T : Length[r] <= Length[w]
                             /\ \E r \in T : \A w \in T : Length[w] <= Length[r]
           Bad == {T \in SUBSET Worker : ~ P(T)}
           lengths == {Length[r] : r \in S}
<1>0. \A r \in Worker : Length[r] \in Nat
  BY JobReportAssumption
<1>1. Bad = {}
  <2> SUFFICES ASSUME Bad # {} PROVE FALSE
    OBVIOUS
  <2>1. PICK T \in Bad : \A R \in SUBSET T : R # T => R \notin Bad
    <3> HIDE DEF P
    <3>1. Bad \subseteq SUBSET Worker
      OBVIOUS
    <3> HIDE DEF Bad
    <3> QED
      BY <3>1, SmallestCounterexample
  <2>2. ~ P(T) /\ T \in SUBSET Worker /\ \A R \in SUBSET T : R # T => P(R)
    <3> HIDE DEF P
    <3> QED
      BY <2>1
  <2>3. PICK c \in T : TRUE
    BY <2>2
  <2>4. CASE T = {c}
    BY <1>0, <2>2, <2>4
  <2>5. CASE T # {c}
    <3>1. T \ {c} # {} /\ T \ {c} \in SUBSET T /\ T \ {c} # T
      BY <2>3, <2>5
    <3>2. P(T \ {c})
      BY <2>2, <3>1
    <3>3. PICK least \in T \ {c} : \A w \in T \ {c} : Length[least] <= Length[w]
      BY <3>1, <3>2
    <3>4. PICK most \in T \ {c} : \A w \in T \ {c} : Length[w] <= Length[most]
      BY <3>1, <3>2
    <3>5. \A w \in T : Length[w] \in Nat
      BY <1>0, <2>2
    <3>6. \E r \in T : \A w \in T : Length[r] <= Length[w]
      <4>1. CASE Length[c] <= Length[least]
        <5>1. \A w \in T : Length[c] <= Length[w]
          BY <3>3, <3>5, <4>1
        <5> QED
          BY <5>1
      <4>2. CASE ~ (Length[c] <= Length[least])
        <5>1. \A w \in T : Length[least] <= Length[w]
          BY <3>3, <3>5, <4>2
        <5> QED
          BY <5>1
      <4> QED
        BY <4>1, <4>2
    <3>7. \E r \in T : \A w \in T : Length[w] <= Length[r]
      <4>1. CASE Length[most] <= Length[c]
        <5>1. \A w \in T : Length[w] <= Length[c]
          BY <3>4, <3>5, <4>1
        <5> QED
          BY <5>1
      <4>2. CASE ~ (Length[most] <= Length[c])
        <5>1. \A w \in T : Length[w] <= Length[most]
          BY <3>4, <3>5, <4>2
        <5> QED
          BY <5>1
      <4> QED
        BY <4>1, <4>2
    <3> QED
      BY <2>2, <3>6, <3>7
  <2> QED
    BY <2>4, <2>5
<1>2. P(S)
  BY <1>1
<1>3. \E n \in lengths : \A m \in lengths : n <= m
  BY <1>2
<1>4. \E n \in lengths : \A m \in lengths : m <= n
  BY <1>2
<1>5. \A n \in lengths : n \in Nat
  BY <1>0
<1> HIDE DEF lengths
<1>6. \E n \in lengths : \A m \in lengths : n >= m
  BY <1>4, <1>5
<1>7. Min(lengths) \in lengths /\ \A m \in lengths : Min(lengths) <= m
  BY <1>3 DEF Min
<1>8. Max(lengths) \in lengths /\ \A m \in lengths : Max(lengths) >= m
  BY <1>6 DEF Max
<1>9. \A m \in lengths : m <= Max(lengths)
  BY <1>5, <1>8
<1> QED
  BY <1>7, <1>8, <1>9 DEF lengths

\* A quotient lies between the bounds of which the dividend lies between the multiples.
LEMMA QuotientBetween ==
  ASSUME NEW a \in Nat, NEW n \in Nat \ {0}, NEW lo \in Nat, NEW hi \in Nat,
         lo * n <= a, a <= hi * n
  PROVE  lo <= a \div n /\ a \div n <= hi
<1> DEFINE q == a \div n
<1>1. q \in Nat /\ n * q <= a /\ a < n * q + n
  OBVIOUS
<1> HIDE DEF q
<1>2. CASE q < lo
  <2>1. n * (q + 1) <= n * lo
    BY <1>1, <1>2
  <2> QED
    BY <1>1, <2>1
<1>3. CASE hi < q
  <2>1. n * (hi + 1) <= n * q
    BY <1>1, <1>3
  <2> QED
    BY <1>1, <2>1
<1> QED
  BY <1>1, <1>2, <1>3 DEF q

LEMMA ReportInit == JobReportInit => ReportInv
BY JobReportAssumption
DEF JobReportInit, ReportInv, SummariesFinal, RunIsOfItsReplicas, Rows, NoRun

\* What the summaries say of the replicas in a set.
LEMMA SummaryFields ==
  ASSUME served \in [Worker -> Nat], NEW r \in Worker
  PROVE  /\ Summaries[r]["requests"] = served[r] /\ Summaries[r].requests = served[r]
         /\ Summary(r).requests = served[r]
         /\ Summaries[r]["length"] = IF served[r] > 0 THEN Length[r] ELSE 0
BY DEF Summaries, Summary

LEMMA RowsAreWorkers ==
  ASSUME posted \in Seq(Worker)
  PROVE  Rows \subseteq Worker /\ IsFiniteSet(Rows)
<1>1. Rows \subseteq Worker
  BY DEF Rows
<1> QED
  BY <1>1, JobReportAssumption, FS_Subset

\* A replica posts its only row.
LEMMA StoredRows ==
  ASSUME posted \in Seq(Worker), NEW r \in Worker, r \notin Rows
  PROVE  /\ Stored(r) \in Seq(Worker)
         /\ {Stored(r)[i] : i \in 1 .. Len(Stored(r))} = Rows \cup {r}
<1>1. Stored(r) = Append(posted, r)
  BY DEF Stored, RemoveFirst, Rows
<1>2. Len(Append(posted, r)) = Len(posted) + 1 /\ Len(posted) \in Nat
  OBVIOUS
<1>3. \A i \in 1 .. Len(posted) : Append(posted, r)[i] = posted[i]
  OBVIOUS
<1>4. Append(posted, r)[Len(posted) + 1] = r
  OBVIOUS
<1>5. 1 .. Len(posted) + 1 = (1 .. Len(posted)) \cup {Len(posted) + 1}
  BY <1>2
<1>6. {Append(posted, r)[i] : i \in 1 .. Len(posted) + 1} = Rows \cup {r}
  BY <1>3, <1>4, <1>5 DEF Rows
<1> QED
  BY <1>1, <1>2, <1>6

\* A replica whose loop has ended changes no total.
LEMMA RunStays ==
  ASSUME ReportInv, run' = run, served' \in [Worker -> Nat],
         \A r \in run.of : served'[r] = served[r]
  PROVE  RunIsOfItsReplicas'
<1> SUFFICES ASSUME run # NoRun PROVE RunIsOfItsReplicas'
  BY DEF RunIsOfItsReplicas
<1> USE DEF ReportInv
<1>1. \A r \in run.of : Summaries'[r]["requests"] = Summaries[r]["requests"]
  <2> TAKE r \in run.of
  <2>1. r \in Worker
    OBVIOUS
  <2> QED
    BY <2>1 DEF Summaries, Summary
<1>2. Total(Summaries, run.of, "requests")' = Total(Summaries, run.of, "requests")
  <2>1. Total(Summaries', run.of, "requests") = Total(Summaries, run.of, "requests")
    BY <1>1, TotalAgrees
  <2> QED
    BY <2>1
<1>3. {w \in run.of : served'[w] > 0} = {w \in run.of : served[w] > 0}
  OBVIOUS
<1> QED
  BY <1>2, <1>3 DEF RunIsOfItsReplicas

\* The row that is written is that of the summaries there are.
LEMMA RunIsPushed ==
  ASSUME ReportInv, PushRun
  PROVE  run'.of \subseteq Rows \cup run.of /\ RunIsOfItsReplicas'
<1> USE DEF ReportInv
<1>1. UNCHANGED <<served, worker, posted>>
  BY DEF PushRun
<1>2. CASE posted = <<>>
  <2>1. run' = run
    BY <1>2 DEF PushRun
  <2> QED
    BY <1>1, <2>1, RunStays
<1>3. CASE posted # <<>>
  <2> DEFINE W == {r \in Rows : served[r] > 0}
             row == Aggregate(Rows)
             t == Summaries
  <2>1. run' = Derived(row)
    BY <1>3 DEF PushRun
  <2>2. Derived(row).requests = row.requests /\ Derived(row).length = row.length
        /\ Derived(row).of = row.of
    BY DEF Derived, Aggregate
  <2>3. row.requests = Total(t, Rows, "requests") /\ row.of = Rows
        /\ row.length = Total(t, Averaged(Rows), "length") \div Cardinality(Averaged(Rows))
    BY DEF Aggregate
  <2>4. Rows \subseteq Worker /\ IsFiniteSet(Rows)
    BY RowsAreWorkers
  <2>5. t' = t
    BY <1>1 DEF Summaries, Summary
  <2>6. ASSUME row.requests > 0 PROVE W # {}
    <3> SUFFICES ASSUME W = {} PROVE FALSE
      OBVIOUS
    <3>1. \A r \in Rows : t[r]["requests"] \in Nat /\ 0 <= t[r]["requests"] /\ t[r]["requests"] <= 0
      BY <2>4, SummaryFields
    <3> DEFINE n == Total(t, Rows, "requests")
               c == Cardinality(Rows)
    <3>2. n <= 0 * c /\ c \in Nat /\ n \in Nat
      BY <2>4, <3>1, TotalBetween
    <3>3. n > 0
      BY <2>3, <2>6
    <3> HIDE DEF n, c
    <3> QED
      BY <3>2, <3>3
  <2>7. ASSUME row.requests > 0
        PROVE  LET lengths == {Length[r] : r \in W}
               IN Min(lengths) <= row.length /\ row.length <= Max(lengths)
    <3> DEFINE lengths == {Length[r] : r \in W}
    <3>1. W # {} /\ W \in SUBSET Worker /\ IsFiniteSet(W)
      BY <2>4, <2>6, <2>7, FS_Subset
    <3>2. Averaged(Rows) = W
      BY <2>4, <3>1, SummaryFields DEF Averaged
    <3>3. \A r \in W : t[r]["length"] = Length[r]
      BY <2>4, SummaryFields
    <3> DEFINE lo == Min(lengths)
               hi == Max(lengths)
    <3>4. lo \in lengths /\ hi \in lengths /\ \A n \in lengths : lo <= n /\ n <= hi
      BY <3>1, Extremes
    <3>5. \A r \in W : Length[r] \in Nat /\ Length[r] \in lengths
      BY <3>1, JobReportAssumption
    <3>6. lo \in Nat /\ hi \in Nat
      BY <3>4, <3>5
    <3> HIDE DEF lo, hi
    <3>7. \A r \in W : t[r]["length"] \in Nat /\ lo <= t[r]["length"] /\ t[r]["length"] <= hi
      BY <3>3, <3>4, <3>5
    <3> HIDE DEF t
    <3>8. /\ Cardinality(W) \in Nat /\ Total(t, W, "length") \in Nat
          /\ lo * Cardinality(W) <= Total(t, W, "length")
          /\ Total(t, W, "length") <= hi * Cardinality(W)
      BY <3>1, <3>6, <3>7, TotalBetween
    <3>9. Cardinality(W) # 0
      BY <3>1, FS_EmptySet
    <3>10. lo <= Total(t, W, "length") \div Cardinality(W)
           /\ Total(t, W, "length") \div Cardinality(W) <= hi
      BY <3>6, <3>8, <3>9, QuotientBetween
    <3> QED
      BY <2>3, <3>2, <3>10 DEF lo, hi
  <2>8. RunIsOfItsReplicas'
    <3>1. run'.requests = row.requests /\ run'.length = row.length /\ run'.of = Rows
      BY <2>1, <2>2, <2>3
    <3>2. run'.requests = Total(t', run'.of, "requests")
      BY <2>3, <2>5, <3>1
    <3>3. {Length[r] : r \in {w \in run'.of : served'[w] > 0}} = {Length[r] : r \in W}
      BY <1>1, <3>1
    <3> HIDE DEF W, row, t
    <3> QED
      BY <2>7, <3>1, <3>2, <3>3 DEF RunIsOfItsReplicas, t
  <2> QED
    BY <2>1, <2>2, <2>3, <2>8
<1> QED
  BY <1>2, <1>3

LEMMA ReportStep == ReportInv /\ [JobReportNext]_reportVars => ReportInv'
<1> SUFFICES ASSUME ReportInv, [JobReportNext]_reportVars PROVE ReportInv'
  OBVIOUS
<1> USE DEF ReportInv
<1>1. ASSUME NEW r \in Worker, TakeChunk(r) \/ LoopEnds(r) \/ SummaryLost(r) PROVE ReportInv'
  <2>1. UNCHANGED <<served, posted, run>> /\ queue' \in Nat
    BY <1>1 DEF TakeChunk, LoopEnds, SummaryLost
  <2>2. worker' \in [Worker -> {"free", "busy", "building", "ended"}]
    BY <1>1 DEF TakeChunk, LoopEnds, SummaryLost
  <2>3. SummariesFinal'
    <3>1. \A w \in Worker : worker[w] = "ended" => worker'[w] = "ended"
      BY <1>1 DEF TakeChunk, LoopEnds, SummaryLost
    <3> QED
      BY <2>1, <3>1, RowsAreWorkers DEF SummariesFinal, Rows
  <2>4. RunIsOfItsReplicas'
    BY <2>1, RunStays
  <2> QED
    BY <2>1, <2>2, <2>3, <2>4
<1>2. ASSUME NEW r \in Worker, FinishChunk(r) PROVE ReportInv'
  <2>1. /\ UNCHANGED <<queue, posted, run>> /\ worker[r] = "busy"
        /\ worker' = [worker EXCEPT ![r] = "free"] /\ served' = [served EXCEPT ![r] = @ + 1]
    BY <1>2 DEF FinishChunk
  <2>2. served' \in [Worker -> Nat]
        /\ worker' \in [Worker -> {"free", "busy", "building", "ended"}]
    BY <2>1
  <2>3. r \notin Rows \cup run.of
    BY <2>1 DEF SummariesFinal
  <2>4. RunIsOfItsReplicas'
    BY <2>1, <2>2, <2>3, RunStays
  <2>5. SummariesFinal'
    BY <2>1, <2>3, RowsAreWorkers DEF SummariesFinal, Rows
  <2> QED
    BY <2>1, <2>2, <2>4, <2>5
<1>3. ASSUME NEW r \in Worker, PostSummary(r) PROVE ReportInv'
  <2>1. /\ UNCHANGED <<queue, served, run>>
        /\ worker' = [worker EXCEPT ![r] = "ended"] /\ posted' = Stored(r)
    BY <1>3 DEF PostSummary
  <2>2. posted' \in Seq(Worker) /\ Rows' = Rows \cup {r}
    <3>1. r \notin Rows
      BY <1>3 DEF PostSummary, SummariesFinal
    <3>2. Rows' = {Stored(r)[i] : i \in 1 .. Len(Stored(r))}
      BY <2>1 DEF Rows
    <3> QED
      BY <2>1, <3>1, <3>2, StoredRows
  <2>3. RunIsOfItsReplicas'
    BY <2>1, RunStays
  <2>4. SummariesFinal'
    BY <2>1, <2>2, RowsAreWorkers DEF SummariesFinal
  <2> QED
    BY <2>1, <2>2, <2>3, <2>4
<1>4. CASE PushRun
  <2>1. UNCHANGED <<queue, worker, served, posted>>
    BY <1>4 DEF PushRun
  <2>2. run'.of \subseteq Rows \cup run.of /\ RunIsOfItsReplicas'
    BY <1>4, RunIsPushed
  <2>3. SummariesFinal'
    BY <2>1, <2>2 DEF SummariesFinal, Rows
  <2> QED
    BY <2>1, <2>2, <2>3, RowsAreWorkers
<1>5. CASE UNCHANGED reportVars
  <2>1. UNCHANGED <<queue, worker, served, posted, run>>
    BY <1>5 DEF reportVars
  <2>2. RunIsOfItsReplicas'
    BY <2>1, RunStays
  <2> QED
    BY <2>1, <2>2 DEF SummariesFinal, Rows
<1> QED
  BY <1>1, <1>2, <1>3, <1>4, <1>5 DEF JobReportNext

\* A job's row is that of the replicas whose summaries were there: it counts the requests
\* that these completed, and its average lies between theirs, for any replicas and lengths,
\* in whatever order they ended and with however many that only idled.
THEOREM RunsAreOfTheirReplicas == JobReportSpec => []RunIsOfItsReplicas
<1>1. ReportInv => RunIsOfItsReplicas
  BY DEF ReportInv
<1> QED
  BY <1>1, ReportInit, ReportStep, PTL DEF JobReportSpec

-----------------------------------------------------------------------------
(* Where the chunks are: no replica can have served more than there are.   *)

Busy == {r \in Worker : worker[r] = "busy"}
ChunksCounted == Total(Summaries, Worker, "requests") + Cardinality(Busy) + queue = Work

LEMMA CountTypes ==
  ASSUME ReportInv
  PROVE  /\ Total(Summaries, Worker, "requests") \in Nat
         /\ IsFiniteSet(Busy) /\ Cardinality(Busy) \in Nat
         /\ \A r \in Worker :
               /\ Total(Summaries, Worker \ {r}, "requests") \in Nat
               /\ Total(Summaries, Worker, "requests")
                     = served[r] + Total(Summaries, Worker \ {r}, "requests")
<1>1. \A r \in Worker : Summaries[r]["requests"] = served[r] /\ served[r] \in Nat
  BY SummaryFields DEF ReportInv
<1>2. IsFiniteSet(Busy)
  BY JobReportAssumption, FS_Subset DEF Busy
<1>3. Numbers(Summaries, "requests", Worker)
  BY <1>1 DEF Numbers
<1>4. \A r \in Worker : Numbers(Summaries, "requests", Worker \ {r})
  BY <1>1 DEF Numbers
<1> QED
  BY <1>1, <1>2, <1>3, <1>4, TotalTakes, FS_CardinalityType

LEMMA CountInit == JobReportInit => ChunksCounted
<1> SUFFICES ASSUME JobReportInit PROVE ChunksCounted
  OBVIOUS
<1>1. ReportInv
  BY ReportInit
<1>2. Cardinality(Busy) = 0
  <2>1. Busy = {}
    BY DEF JobReportInit, Busy
  <2> QED
    BY <2>1, FS_EmptySet
<1>3. \A r \in Worker : Summaries[r]["requests"] = 0
  BY <1>1, SummaryFields DEF JobReportInit, ReportInv
<1> DEFINE n == Total(Summaries, Worker, "requests")
           c == Cardinality(Worker)
<1>4. n \in Nat /\ c \in Nat /\ n <= 0 * c
  BY <1>3, TotalBetween
<1>5. queue = Work /\ Work \in Nat
  BY JobReportAssumption DEF JobReportInit
<1> HIDE DEF n, c
<1>6. n + 0 + queue = Work
  BY <1>4, <1>5
<1> QED
  BY <1>2, <1>6 DEF n, ChunksCounted

LEMMA CountStep == ReportInv /\ ChunksCounted /\ [JobReportNext]_reportVars => ChunksCounted'
<1> SUFFICES ASSUME ReportInv, ChunksCounted, [JobReportNext]_reportVars PROVE ChunksCounted'
  OBVIOUS
<1> DEFINE n == Total(Summaries, Worker, "requests")
           c == Cardinality(Busy)
<1>0. n \in Nat /\ c \in Nat /\ queue \in Nat /\ n + c + queue = Work
  BY CountTypes DEF ReportInv, ChunksCounted
<1>1. ASSUME UNCHANGED <<queue, worker, served>> PROVE ChunksCounted'
  BY <1>1 DEF ChunksCounted, Summaries, Summary, Busy
<1>2. ASSUME NEW r \in Worker, TakeChunk(r) PROVE ChunksCounted'
  <2>1. n' = n
    BY <1>2 DEF TakeChunk, Summaries, Summary
  <2>2. r \notin Busy /\ Busy' = Busy \cup {r}
    BY <1>2 DEF TakeChunk, Busy, ReportInv
  <2>3. c' = c + 1
    BY <2>2, CountTypes, FS_AddElement
  <2>4. queue' = queue - 1 /\ queue > 0
    BY <1>2 DEF TakeChunk
  <2>5. n' + c' + queue' = Work
    <3> HIDE DEF n, c
    <3> QED
      BY <1>0, <2>1, <2>3, <2>4
  <2> QED
    BY <2>5 DEF ChunksCounted
<1>3. ASSUME NEW r \in Worker, FinishChunk(r) PROVE ChunksCounted'
  <2>1. /\ queue' = queue /\ worker[r] = "busy" /\ worker' = [worker EXCEPT ![r] = "free"]
        /\ served' = [served EXCEPT ![r] = @ + 1]
    BY <1>3 DEF FinishChunk
  <2>2. r \in Busy /\ Busy' = Busy \ {r}
    BY <2>1 DEF Busy, ReportInv
  <2>3. c' = c - 1 /\ c > 0
    <3>1. c' = c - 1
      BY <2>2, CountTypes, FS_RemoveElement
    <3>2. c # 0
      BY <2>2, CountTypes, FS_EmptySet
    <3> QED
      BY <1>0, <3>1, <3>2
  <2> DEFINE rest == Total(Summaries, Worker \ {r}, "requests")
             t == Summaries'
  <2>4. served' \in [Worker -> Nat] /\ served'[r] = served[r] + 1
        /\ \A w \in Worker \ {r} : served'[w] = served[w]
    BY <2>1 DEF ReportInv
  <2>5. \A w \in Worker : t[w]["requests"] = served'[w]
    BY DEF Summaries, Summary
  <2>6. \A w \in Worker : Summaries[w]["requests"] = served[w]
    BY SummaryFields DEF ReportInv
  <2>7. Total(t, Worker, "requests") = served'[r] + Total(t, Worker \ {r}, "requests")
    <3>1. Numbers(t, "requests", Worker)
      BY <2>4, <2>5 DEF Numbers
    <3> HIDE DEF t
    <3> QED
      BY <2>5, <3>1, TotalTakes
  <2>8. Total(t, Worker \ {r}, "requests") = rest
    <3> HIDE DEF t
    <3> QED
      BY <2>4, <2>5, <2>6, TotalAgrees
  <2>9. n = served[r] + rest /\ rest \in Nat /\ served[r] \in Nat
    BY CountTypes DEF ReportInv
  <2>10. n' = Total(t, Worker, "requests")
    OBVIOUS
  <2>11. n' + c' + queue' = Work
    <3> HIDE DEF n, c, rest, t
    <3>1. n' = served[r] + 1 + rest
      BY <2>4, <2>7, <2>8, <2>9, <2>10
    <3> QED
      BY <1>0, <2>1, <2>3, <2>9, <3>1
  <2> QED
    BY <2>11 DEF ChunksCounted
<1>4. ASSUME NEW r \in Worker, LoopEnds(r) \/ PostSummary(r) \/ SummaryLost(r)
      PROVE  ChunksCounted'
  <2>1. n' = n /\ queue' = queue
    BY <1>4 DEF LoopEnds, PostSummary, SummaryLost, Summaries, Summary
  <2>2. Busy' = Busy
    BY <1>4 DEF LoopEnds, PostSummary, SummaryLost, Busy, ReportInv
  <2> QED
    BY <2>1, <2>2 DEF ChunksCounted
<1>5. CASE PushRun
  BY <1>1, <1>5 DEF PushRun
<1>6. CASE UNCHANGED reportVars
  BY <1>1, <1>6 DEF reportVars
<1> QED
  BY <1>2, <1>3, <1>4, <1>5, <1>6 DEF JobReportNext

AssemblyOK == assembly \in {"none", "uploading", "done"}

\* Chunks are neither lost nor served twice between the queue, the runners and their
\* summaries; so every count stays within the job's.
THEOREM JobReportTypeCorrect == JobReportSpec => []JobReportTypeOK
<1>1. ReportInv /\ ChunksCounted /\ AssemblyOK => JobReportTypeOK
  <2> SUFFICES ASSUME ReportInv, ChunksCounted, AssemblyOK
               PROVE  JobReportTypeOK
    OBVIOUS
  <2> DEFINE n == Total(Summaries, Worker, "requests")
             c == Cardinality(Busy)
  <2>1. n \in Nat /\ c \in Nat /\ queue \in Nat /\ n + c + queue = Work
    BY CountTypes DEF ReportInv, ChunksCounted
  <2>2. Work \in Nat
    BY JobReportAssumption
  <2>3. queue \in 0 .. Work
    <3> HIDE DEF n, c
    <3> QED
      BY <2>1, <2>2
  <2>4. ASSUME NEW r \in Worker PROVE served[r] \in 0 .. Work
    <3> DEFINE rest == Total(Summaries, Worker \ {r}, "requests")
    <3>1. n = served[r] + rest /\ rest \in Nat /\ served[r] \in Nat
      BY CountTypes DEF ReportInv
    <3> HIDE DEF n, c, rest
    <3> QED
      BY <2>1, <2>2, <3>1
  <2>5. served \in [Worker -> 0 .. Work]
    BY <2>4 DEF ReportInv
  <2> QED
    BY <2>3, <2>5, RowsAreWorkers DEF ReportInv, AssemblyOK, JobReportTypeOK
<1>2. AssemblyOK /\ [JobReportNext]_reportVars => AssemblyOK'
  BY DEF AssemblyOK, JobReportNext, TakeChunk, FinishChunk, LoopEnds, PostSummary, SummaryLost, PushRun,
         reportVars
<1>3. JobReportInit => AssemblyOK
  BY DEF AssemblyOK, JobReportInit
<1> QED
  BY <1>1, <1>2, <1>3, ReportInit, ReportStep, CountInit, CountStep, PTL DEF JobReportSpec

-----------------------------------------------------------------------------
(* Engine: the lines that arrive.  A line of vLLM has a number, and the    *)
(* runner's own line is 0.                                                 *)

\* Line a may come before line b.
Precedes(a, b) == a < b \/ (b = 0 /\ a # 0)
Ordered(s) == \A k, m \in 1 .. Len(s) : k < m => Precedes(s[k], s[m])
Ahead(s, t) == \A k \in 1 .. Len(s), m \in 1 .. Len(t) : Precedes(s[k], t[m])
Within(s, lo, hi) == \A k \in 1 .. Len(s) : lo <= s[k] /\ s[k] <= hi

\* Lines that arrived, lines in the buffer, lines that nobody read: in this order.
InOrder(a, l, p) ==
    /\ Ordered(a) /\ Ordered(l) /\ Ordered(p)
    /\ Ahead(a, l) /\ Ahead(a, p) /\ Ahead(l, p)

\* Those of vLLM have been logged, and the runner's own is at most one line.
Known(a, l, p, n, printed) ==
    /\ Within(p, 1, n)
    /\ LET least == IF printed THEN 0 ELSE 1 IN Within(a, least, n) /\ Within(l, least, n)

LinesOK ==
    /\ logged \in Nat /\ own \in BOOLEAN
    /\ log \in Seq(Nat) /\ pipe \in Seq(Nat)
    /\ arrived.lines \in Seq(Nat)
    /\ InOrder(arrived.lines, log, pipe)
    /\ Known(arrived.lines, log, pipe, logged, own)

LEMMA AppendOrder ==
  ASSUME NEW s \in Seq(Nat), NEW x \in Nat
  PROVE  /\ Append(s, x) \in Seq(Nat)
         /\ Ordered(s) /\ (\A k \in 1 .. Len(s) : Precedes(s[k], x)) => Ordered(Append(s, x))
         /\ \A t \in Seq(Nat) : Ahead(t, s) /\ (\A k \in 1 .. Len(t) : Precedes(t[k], x))
                                  => Ahead(t, Append(s, x))
         /\ \A t \in Seq(Nat) : Ahead(s, t) /\ (\A k \in 1 .. Len(t) : Precedes(x, t[k]))
                                  => Ahead(Append(s, x), t)
         /\ \A lo, hi \in Nat : Within(s, lo, hi) /\ lo <= x /\ x <= hi
                                  => Within(Append(s, x), lo, hi)
<1>1. /\ Append(s, x) \in Seq(Nat) /\ Len(Append(s, x)) = Len(s) + 1 /\ Len(s) \in Nat
      /\ Append(s, x)[Len(s) + 1] = x
      /\ \A k \in 1 .. Len(s) : Append(s, x)[k] = s[k]
  OBVIOUS
<1> DEFINE u == Append(s, x)
           n == Len(s)
<1> HIDE DEF u
<1>2. /\ u \in Seq(Nat) /\ Len(u) = n + 1 /\ n \in Nat /\ u[n + 1] = x
      /\ \A k \in 1 .. n : u[k] = s[k]
  BY <1>1 DEF u
<1> HIDE DEF n
<1>3. \A k \in 1 .. n + 1 : k \in 1 .. n \/ k = n + 1
  BY <1>2
<1>4. ASSUME Ordered(s), \A k \in 1 .. n : Precedes(s[k], x) PROVE Ordered(u)
  <2> SUFFICES ASSUME NEW k \in 1 .. n + 1, NEW m \in 1 .. n + 1, k < m
               PROVE  Precedes(u[k], u[m])
    BY <1>2 DEF Ordered
  <2>1. k \in 1 .. n
    BY <1>2
  <2> QED
    BY <1>2, <1>3, <1>4, <2>1 DEF Ordered, n
<1>5. \A t \in Seq(Nat) : Ahead(t, s) /\ (\A k \in 1 .. Len(t) : Precedes(t[k], x)) => Ahead(t, u)
  BY <1>2, <1>3 DEF Ahead, n
<1>6. \A t \in Seq(Nat) : Ahead(s, t) /\ (\A k \in 1 .. Len(t) : Precedes(x, t[k])) => Ahead(u, t)
  BY <1>2, <1>3 DEF Ahead, n
<1>7. \A lo, hi \in Nat : Within(s, lo, hi) /\ lo <= x /\ x <= hi => Within(u, lo, hi)
  BY <1>2, <1>3 DEF Within, n
<1> QED
  BY <1>1, <1>4, <1>5, <1>6, <1>7 DEF u, n

LEMMA ConcatOrder ==
  ASSUME NEW s \in Seq(Nat), NEW t \in Seq(Nat)
  PROVE  /\ s \o t \in Seq(Nat)
         /\ Ordered(s) /\ Ordered(t) /\ Ahead(s, t) => Ordered(s \o t)
         /\ \A v \in Seq(Nat) : Ahead(s, v) /\ Ahead(t, v) => Ahead(s \o t, v)
         /\ \A lo, hi \in Nat : Within(s, lo, hi) /\ Within(t, lo, hi) => Within(s \o t, lo, hi)
<1> DEFINE u == s \o t
           n == Len(s)
           l == Len(t)
<1>1. /\ u \in Seq(Nat) /\ Len(u) = n + l /\ n \in Nat /\ l \in Nat
      /\ \A k \in 1 .. n : u[k] = s[k]
      /\ \A k \in n + 1 .. n + l : u[k] = t[k - n]
  OBVIOUS
<1> HIDE DEF u
<1>2. \A k \in 1 .. Len(u) : \/ k \in 1 .. n /\ u[k] = s[k]
                             \/ k \in n + 1 .. n + l /\ k - n \in 1 .. l /\ u[k] = t[k - n]
  BY <1>1
<1>3. ASSUME Ordered(s), Ordered(t), Ahead(s, t) PROVE Ordered(u)
  <2> SUFFICES ASSUME NEW k \in 1 .. Len(u), NEW m \in 1 .. Len(u), k < m
               PROVE  Precedes(u[k], u[m])
    BY DEF Ordered
  <2>1. CASE m \in 1 .. n
    <3>1. k \in 1 .. n
      BY <1>1, <2>1
    <3> QED
      BY <1>1, <1>3, <2>1, <3>1 DEF Ordered
  <2>2. CASE k \in 1 .. n /\ m \in n + 1 .. n + l
    BY <1>1, <1>2, <1>3, <2>2 DEF Ahead
  <2>3. CASE k \in n + 1 .. n + l
    <3>1. m \in n + 1 .. n + l /\ k - n < m - n
      BY <1>1, <2>3
    <3>2. /\ k - n \in 1 .. l /\ m - n \in 1 .. l
          /\ u[k] = t[k - n] /\ u[m] = t[m - n]
      BY <1>1, <1>2, <2>3, <3>1
    <3> QED
      BY <1>3, <3>1, <3>2 DEF Ordered
  <2> QED
    BY <1>1, <1>2, <2>1, <2>2, <2>3
<1>4. \A v \in Seq(Nat) : Ahead(s, v) /\ Ahead(t, v) => Ahead(u, v)
  BY <1>2 DEF Ahead
<1>5. \A lo, hi \in Nat : Within(s, lo, hi) /\ Within(t, lo, hi) => Within(u, lo, hi)
  BY <1>2 DEF Within
<1> QED
  BY <1>1, <1>3, <1>4, <1>5 DEF u

\* A drain cuts a sequence in two.
LEMMA Cut ==
  ASSUME NEW s \in Seq(Nat)
  PROVE  /\ FirstOf(s) \in Seq(Nat) /\ RestOf(s) \in Seq(Nat)
         /\ Ordered(s) => /\ Ordered(FirstOf(s)) /\ Ordered(RestOf(s))
                          /\ Ahead(FirstOf(s), RestOf(s))
         /\ \A t \in Seq(Nat) : /\ Ahead(t, s) => Ahead(t, FirstOf(s)) /\ Ahead(t, RestOf(s))
                                /\ Ahead(s, t) => Ahead(FirstOf(s), t) /\ Ahead(RestOf(s), t)
         /\ \A lo, hi \in Nat : Within(s, lo, hi)
                                  => Within(FirstOf(s), lo, hi) /\ Within(RestOf(s), lo, hi)
<1> DEFINE n == IF Len(s) < Drained THEN Len(s) ELSE Drained
           f == FirstOf(s)
           r == RestOf(s)
<1>1. n \in 0 .. Len(s) /\ Len(s) \in Nat
  BY EngineAssumption
<1>2. f = SubSeq(s, 1, n)
  BY DEF FirstOf
<1> HIDE DEF n
<1>3. f \in Seq(Nat) /\ Len(f) = n /\ \A k \in 1 .. n : f[k] = s[k]
  <2>1. SubSeq(s, 1, n) \in Seq(Nat) /\ Len(SubSeq(s, 1, n)) = n
        /\ \A k \in 1 .. n : SubSeq(s, 1, n)[k] = s[k]
    BY <1>1
  <2> QED
    BY <1>2, <2>1
<1>4. r = SubSeq(s, n + 1, Len(s))
  BY <1>3 DEF RestOf
<1>5. r \in Seq(Nat) /\ Len(r) = Len(s) - n /\ \A k \in 1 .. Len(s) - n : r[k] = s[n + k]
  <2>1. /\ SubSeq(s, n + 1, Len(s)) \in Seq(Nat)
        /\ Len(SubSeq(s, n + 1, Len(s))) = Len(s) - n
        /\ \A k \in 1 .. Len(s) - n : SubSeq(s, n + 1, Len(s))[k] = s[n + k]
    <3> DEFINE lo == n + 1
               hi == Len(s)
    <3>1. lo \in Int /\ hi \in Int /\ \A k \in lo .. hi : s[k] \in Nat
      BY <1>1
    <3> HIDE DEF lo, hi
    <3>a. /\ SubSeq(s, lo, hi) \in Seq(Nat)
          /\ Len(SubSeq(s, lo, hi)) = IF lo <= hi THEN hi - lo + 1 ELSE 0
          /\ \A k \in 1 .. hi - lo + 1 : SubSeq(s, lo, hi)[k] = s[lo + k - 1]
      BY <3>1, SubSeqProperties
    <3>2. /\ SubSeq(s, n + 1, Len(s)) \in Seq(Nat)
          /\ Len(SubSeq(s, n + 1, Len(s)))
                = IF n + 1 <= Len(s) THEN Len(s) - (n + 1) + 1 ELSE 0
          /\ \A k \in 1 .. Len(s) - (n + 1) + 1 :
                SubSeq(s, n + 1, Len(s))[k] = s[(n + 1) + k - 1]
      BY <3>a DEF lo, hi
    <3>3. Len(s) - (n + 1) + 1 = Len(s) - n
          /\ \A k \in 1 .. Len(s) - n : (n + 1) + k - 1 = n + k
      BY <1>1
    <3>4. Len(SubSeq(s, n + 1, Len(s))) = Len(s) - n
      <4>1. CASE n + 1 <= Len(s)
        BY <3>2, <3>3, <4>1
      <4>2. CASE ~ (n + 1 <= Len(s))
        BY <1>1, <3>2, <4>2
      <4> QED
        BY <4>1, <4>2
    <3> QED
      BY <3>2, <3>3, <3>4
  <2> QED
    BY <1>4, <2>1
<1> HIDE DEF f, r
<1>6. \A k \in 1 .. Len(f) : k \in 1 .. Len(s) /\ k <= n /\ f[k] = s[k]
  BY <1>1, <1>3
<1>7. \A k \in 1 .. Len(r) : n + k \in 1 .. Len(s) /\ n < n + k /\ r[k] = s[n + k]
  BY <1>1, <1>5
<1>8. ASSUME Ordered(s) PROVE Ordered(f) /\ Ordered(r) /\ Ahead(f, r)
  <2>1. Ordered(f)
    BY <1>6, <1>8 DEF Ordered
  <2>2. Ordered(r)
    <3> SUFFICES ASSUME NEW k \in 1 .. Len(r), NEW m \in 1 .. Len(r), k < m
                 PROVE  Precedes(r[k], r[m])
      BY DEF Ordered
    <3>1. n + k < n + m
      BY <1>1, <1>5
    <3> QED
      BY <1>7, <1>8, <3>1 DEF Ordered
  <2>3. Ahead(f, r)
    <3> SUFFICES ASSUME NEW k \in 1 .. Len(f), NEW m \in 1 .. Len(r)
                 PROVE  Precedes(f[k], r[m])
      BY DEF Ahead
    <3>1. k < n + m
      BY <1>1, <1>3, <1>5
    <3> QED
      BY <1>6, <1>7, <1>8, <3>1 DEF Ordered
  <2> QED
    BY <2>1, <2>2, <2>3
<1>9. \A t \in Seq(Nat) : /\ Ahead(t, s) => Ahead(t, f) /\ Ahead(t, r)
                          /\ Ahead(s, t) => Ahead(f, t) /\ Ahead(r, t)
  BY <1>6, <1>7 DEF Ahead
<1>10. \A lo, hi \in Nat : Within(s, lo, hi) => Within(f, lo, hi) /\ Within(r, lo, hi)
  BY <1>6, <1>7 DEF Within
<1> QED
  BY <1>3, <1>5, <1>8, <1>9, <1>10 DEF f, r

LEMMA LinesInit == EngineInit => LinesOK
<1> SUFFICES ASSUME EngineInit PROVE LinesOK
  OBVIOUS
<1>1. logged = 0 /\ own = FALSE /\ log = <<>> /\ pipe = <<>> /\ arrived.lines = <<>>
  BY DEF EngineInit
<1>2. <<>> \in Seq(Nat) /\ 1 .. Len(<<>>) = {}
  OBVIOUS
<1>3. InOrder(<<>>, <<>>, <<>>) /\ Known(<<>>, <<>>, <<>>, 0, FALSE)
  BY <1>2 DEF InOrder, Known, Ordered, Ahead, Within
<1> QED
  BY <1>1, <1>2, <1>3 DEF LinesOK

\* What each thread does to the three sequences.
LEMMA Logged ==
  ASSUME LinesOK, logged' = logged + 1, pipe' = pipe \/ pipe' = Append(pipe, logged + 1),
         UNCHANGED <<log, own, arrived>>
  PROVE  LinesOK'
<1> DEFINE x == logged + 1
           a == arrived.lines
<1>1. x \in Nat /\ logged <= x /\ 1 <= x
  BY DEF LinesOK
<1>2. /\ a \in Seq(Nat) /\ log \in Seq(Nat) /\ pipe \in Seq(Nat) /\ logged \in Nat
      /\ own \in BOOLEAN /\ InOrder(a, log, pipe) /\ Known(a, log, pipe, logged, own)
  BY DEF LinesOK
<1> HIDE DEF a, x
<1>3. /\ \A k \in 1 .. Len(a) : a[k] \in Nat /\ a[k] <= logged
      /\ \A k \in 1 .. Len(log) : log[k] \in Nat /\ log[k] <= logged
      /\ \A k \in 1 .. Len(pipe) : pipe[k] \in Nat /\ 1 <= pipe[k] /\ pipe[k] <= logged
  <2>1. \A t \in Seq(Nat) : \A k \in 1 .. Len(t) : t[k] \in Nat
    OBVIOUS
  <2> QED
    BY <1>2, <2>1 DEF Known, Within
<1>0. \A n \in Nat : n <= logged => n < x /\ n <= x
  BY <1>2 DEF x
<1>4. /\ \A k \in 1 .. Len(a) : Precedes(a[k], x)
      /\ \A k \in 1 .. Len(log) : Precedes(log[k], x)
      /\ \A k \in 1 .. Len(pipe) : Precedes(pipe[k], x)
  BY <1>0, <1>3 DEF Precedes
<1>5. InOrder(a, log, Append(pipe, x)) /\ Append(pipe, x) \in Seq(Nat)
  BY <1>1, <1>2, <1>4, AppendOrder DEF InOrder
<1>6. Within(pipe, 1, x) /\ \A least \in {0, 1} : /\ Within(a, least, logged) => Within(a, least, x)
                                                  /\ Within(log, least, logged) => Within(log, least, x)
  BY <1>0, <1>3 DEF Within
<1>7. Within(Append(pipe, x), 1, x)
  BY <1>1, <1>2, <1>6, AppendOrder
<1>8. Known(a, log, pipe, x, own) /\ Known(a, log, Append(pipe, x), x, own)
  BY <1>2, <1>6, <1>7 DEF Known
<1>9. InOrder(a, log, pipe') /\ Known(a, log, pipe', x, own) /\ pipe' \in Seq(Nat)
  BY <1>2, <1>5, <1>8, x = logged + 1 DEF x
<1> QED
  BY <1>1, <1>2, <1>9 DEF LinesOK, a, x

LEMMA LineRead ==
  ASSUME LinesOK, pipe # <<>>, pipe' = Tail(pipe), log' = Keep(Head(pipe)),
         UNCHANGED <<logged, own, arrived>>
  PROVE  LinesOK'
<1> DEFINE x == Head(pipe)
           p == Tail(pipe)
           a == arrived.lines
<1>1. /\ a \in Seq(Nat) /\ log \in Seq(Nat) /\ pipe \in Seq(Nat) /\ logged \in Nat
      /\ own \in BOOLEAN /\ InOrder(a, log, pipe) /\ Known(a, log, pipe, logged, own)
  BY DEF LinesOK
<1>2. /\ p \in Seq(Nat) /\ Len(p) = Len(pipe) - 1 /\ Len(pipe) \in Nat \ {0}
      /\ x = pipe[1] /\ x \in Nat /\ \A k \in 1 .. Len(p) : p[k] = pipe[k + 1]
  BY <1>1
<1>0. 1 \in 1 .. Len(pipe)
  BY <1>2
<1> HIDE DEF x, p, a
<1>3. \A k \in 1 .. Len(p) : k + 1 \in 1 .. Len(pipe) /\ 1 < k + 1 /\ p[k] = pipe[k + 1]
  BY <1>2
<1>4. Ordered(p) /\ \A k \in 1 .. Len(p) : Precedes(x, p[k])
  <2>1. \A k \in 1 .. Len(p) : Precedes(x, p[k])
    <3>1. \A k \in 1 .. Len(p) : Precedes(pipe[1], pipe[k + 1])
      BY <1>0, <1>1, <1>3 DEF InOrder, Ordered
    <3> QED
      BY <1>2, <1>3, <3>1
  <2>2. ASSUME NEW k \in 1 .. Len(p), NEW m \in 1 .. Len(p), k < m PROVE Precedes(p[k], p[m])
    <3>1. k + 1 < m + 1
      BY <1>2, <2>2
    <3> QED
      BY <1>1, <1>3, <3>1 DEF InOrder, Ordered
  <2> QED
    BY <2>1, <2>2 DEF Ordered
<1>5. Ahead(a, p) /\ Ahead(log, p)
  BY <1>1, <1>3 DEF InOrder, Ahead
<1>6. (\A k \in 1 .. Len(a) : Precedes(a[k], x)) /\ \A k \in 1 .. Len(log) : Precedes(log[k], x)
  BY <1>0, <1>1, <1>2 DEF InOrder, Ahead
<1>7. InOrder(a, log, p) /\ InOrder(a, Append(log, x), p) /\ Append(log, x) \in Seq(Nat)
  BY <1>1, <1>2, <1>4, <1>5, <1>6, AppendOrder DEF InOrder
<1>8. Within(p, 1, logged) /\ 1 <= x /\ x <= logged
  BY <1>0, <1>1, <1>2, <1>3 DEF Known, Within
<1>9. \A least \in {0, 1} : Within(log, least, logged) => Within(Append(log, x), least, logged)
  BY <1>1, <1>2, <1>8, AppendOrder
<1>10. Known(a, log, p, logged, own) /\ Known(a, Append(log, x), p, logged, own)
  BY <1>1, <1>8, <1>9 DEF Known
<1>11. log' = log \/ log' = Append(log, x)
  BY DEF Keep, x
<1>12. InOrder(a, log', p) /\ Known(a, log', p, logged, own) /\ log' \in Seq(Nat)
  BY <1>1, <1>7, <1>10, <1>11
<1> QED
  BY <1>1, <1>2, <1>12 DEF LinesOK, a, p

LEMMA LinePrinted ==
  ASSUME LinesOK, ~ own, own' = TRUE, log' = log \/ log' = Append(log, 0),
         UNCHANGED <<logged, pipe, arrived>>
  PROVE  LinesOK'
<1> DEFINE a == arrived.lines
<1>1. /\ a \in Seq(Nat) /\ log \in Seq(Nat) /\ pipe \in Seq(Nat) /\ logged \in Nat
      /\ InOrder(a, log, pipe) /\ Known(a, log, pipe, logged, own)
  BY DEF LinesOK
<1> HIDE DEF a
<1>2. Within(a, 1, logged) /\ Within(log, 1, logged) /\ Within(pipe, 1, logged)
  BY <1>1 DEF Known
<1>3. /\ \A k \in 1 .. Len(a) : Precedes(a[k], 0)
      /\ \A k \in 1 .. Len(log) : Precedes(log[k], 0)
      /\ \A k \in 1 .. Len(pipe) : Precedes(0, pipe[k])
  BY <1>1, <1>2 DEF Within, Precedes
<1>4. InOrder(a, Append(log, 0), pipe) /\ Append(log, 0) \in Seq(Nat)
  BY <1>1, <1>3, AppendOrder DEF InOrder
<1>5. Within(a, 0, logged) /\ Within(log, 0, logged)
  BY <1>1, <1>2 DEF Within
<1>6. Within(Append(log, 0), 0, logged)
  BY <1>1, <1>5, AppendOrder
<1>7. InOrder(a, log', pipe) /\ Known(a, log', pipe, logged, TRUE) /\ log' \in Seq(Nat)
  BY <1>1, <1>2, <1>4, <1>5, <1>6 DEF Known
<1> QED
  BY <1>1, <1>7 DEF LinesOK, a

LEMMA LinesDrained ==
  ASSUME LinesOK, log' = RestOf(log),
         arrived'.lines = arrived.lines \/ arrived'.lines = arrived.lines \o FirstOf(log),
         UNCHANGED <<logged, own, pipe>>
  PROVE  LinesOK'
<1> DEFINE a == arrived.lines
           f == FirstOf(log)
           r == RestOf(log)
           b == arrived'.lines
<1>1. /\ a \in Seq(Nat) /\ log \in Seq(Nat) /\ pipe \in Seq(Nat) /\ logged \in Nat
      /\ own \in BOOLEAN /\ InOrder(a, log, pipe) /\ Known(a, log, pipe, logged, own)
  BY DEF LinesOK
<1>2. /\ f \in Seq(Nat) /\ r \in Seq(Nat) /\ Ordered(f) /\ Ordered(r) /\ Ahead(f, r)
      /\ Ahead(a, f) /\ Ahead(a, r) /\ Ahead(f, pipe) /\ Ahead(r, pipe)
  BY <1>1, Cut DEF InOrder
<1>3. \A least \in {0, 1} : Within(log, least, logged)
                               => Within(f, least, logged) /\ Within(r, least, logged)
  BY <1>1, Cut
<1>4. b = a \/ b = a \o f
  OBVIOUS
<1> HIDE DEF a, f, r, b
<1>5. a \o f \in Seq(Nat) /\ Ordered(a \o f) /\ Ahead(a \o f, r) /\ Ahead(a \o f, pipe)
  BY <1>1, <1>2, ConcatOrder DEF InOrder
<1>6. InOrder(b, r, pipe) /\ b \in Seq(Nat)
  BY <1>1, <1>2, <1>4, <1>5 DEF InOrder
<1>7. \A least \in {0, 1} : Within(a, least, logged) /\ Within(f, least, logged)
                               => Within(a \o f, least, logged)
  BY <1>1, <1>2, ConcatOrder
<1>8. Known(b, r, pipe, logged, own)
  <2> DEFINE least == IF own THEN 0 ELSE 1
  <2>1. least \in {0, 1} /\ Within(a, least, logged) /\ Within(log, least, logged)
        /\ Within(pipe, 1, logged)
    BY <1>1 DEF Known
  <2>2. Within(b, least, logged) /\ Within(r, least, logged)
    BY <1>3, <1>4, <1>7, <2>1
  <2> QED
    BY <2>1, <2>2 DEF Known
<1> QED
  BY <1>1, <1>2, <1>6, <1>8 DEF LinesOK, b, r

LEMMA LinesKept == LinesOK /\ [EngineNext]_runnerVars => LinesOK'
<1> SUFFICES ASSUME LinesOK, [EngineNext]_runnerVars PROVE LinesOK'
  OBVIOUS
<1>1. CASE UNCHANGED <<logged, own, log, pipe, arrived>>
  BY <1>1 DEF LinesOK, InOrder, Known, Ordered, Ahead, Within
<1>2. CASE \E isOom \in BOOLEAN : Log(isOom) /\ UNCHANGED <<log, own, arrived>>
  BY <1>2, Logged DEF Log
<1>3. CASE ReadLine
  BY <1>3, LineRead DEF ReadLine, forwarderVars
<1>4. CASE RunnerPrints
  BY <1>4, LinePrinted DEF RunnerPrints, Keep, engineVars, forwarderVars
<1>5. CASE Drain /\ (Handled \/ UNCHANGED arrived) /\ UNCHANGED <<logged, pipe>>
  BY <1>5, LinesDrained DEF Drain, Handled
<1>6. ASSUME NEW i \in Requests, Request(i) PROVE LinesOK'
  <2>1. Send(i) \/ \E status, text : Returns(i, status, text)
    BY <1>6 DEF Request, Answered, AnsweredInPart, Rejected, ServerError, Breaks
  <2> QED
    BY <1>1, <2>1 DEF Send, Returns, engineVars, logVars, forwarderVars
<1>7. CASE EngineLogs \/ EngineOom
  BY <1>2, <1>7 DEF EngineLogs, EngineOom, logVars, forwarderVars
<1>8. CASE EngineReady \/ EngineFails \/ ServerReady \/ StartTimesOut \/ Generate \/ Scrape
  BY <1>1, <1>8
  DEF EngineReady, EngineFails, ServerReady, StartTimesOut, Generate, Scrape,
      engineVars, logVars, forwarderVars
<1>9. CASE NextChunk \/ Through \/ Join \/ Shutdown
  BY <1>1, <1>9 DEF NextChunk, Through, Join, Shutdown, engineVars, logVars, forwarderVars
<1>10. CASE ServerExited
  BY <1>1, <1>5, <1>10 DEF ServerExited, engineVars, logVars, forwarderVars
<1>11. CASE PushSnapshots
  BY <1>5, <1>11 DEF PushSnapshots, engineVars
<1>12. CASE SidecarEnds
  BY <1>1, <1>5, <1>12 DEF SidecarEnds, engineVars, logVars
<1>13. CASE UNCHANGED runnerVars
  BY <1>1, <1>13 DEF runnerVars, engineVars, logVars, forwarderVars
<1> QED
  BY <1>3, <1>4, <1>6, <1>7, <1>8, <1>9, <1>10, <1>11, <1>12, <1>13 DEF EngineNext

\* Log lines reach the control plane at most once, and those of vLLM in order.
THEOREM LinesArriveOnce == EngineSpec => []LogsOnce
<1>1. ASSUME LinesOK PROVE LogsOnce
  <2> DEFINE a == arrived.lines
  <2>1. a \in Seq(Nat) /\ Ordered(a)
    BY <1>1 DEF LinesOK, InOrder
  <2> HIDE DEF a
  <2>2. DOMAIN a = 1 .. Len(a)
    BY <2>1
  <2>3. \A k, m \in DOMAIN a : k < m => a[k] < a[m] \/ (a[m] = 0 /\ a[k] # 0)
    BY <2>1, <2>2 DEF Ordered, Precedes
  <2> QED
    BY <2>3 DEF LogsOnce, a
<1> QED
  BY <1>1, LinesInit, LinesKept, PTL DEF EngineSpec

-----------------------------------------------------------------------------
(* Engine: the output.  A request either has no result, or one that        *)
(* answers its line; the chunked runner calls it a success exactly if the  *)
(* server answered.                                                        *)

Answers(i, r) ==
    /\ r.of = Input[i]
    /\ mode = "chunked" => (r.status = "success") = (r.text # "none")

\* Lines of the input, and 0 for none.
Named == {Input[i] : i \in Requests} \cup {0}
Status == {"none", "success", "skipped", "error"}
Text == {"none", "part", "whole"}
Result == [of : Named, status : Status, text : Text]
OutputLine == [id : Named \cup Requests, of : Named, code : {200, 400}, text : Text]

\* The unchunked runner writes its output last, when it has all its results.
ResultsOK ==
    /\ mode \in {"chunked", "unchunked"}
    /\ result \in [Requests -> Result]
    /\ \A i \in Requests : result[i] # NoResult => Answers(i, result[i])
    /\ mode = "unchunked" /\ main = "joining" => \A i \in Requests : result[i] # NoResult

OutputOK ==
    /\ ResultsOK
    /\ output \in Seq([Requests -> OutputLine])
    /\ OutputAnswers

LEMMA OutputInit == EngineInit => OutputOK
<1> SUFFICES ASSUME EngineInit PROVE OutputOK
  OBVIOUS
<1>1. /\ mode \in {"chunked", "unchunked"} /\ main = "waiting"
      /\ result = [i \in Requests |-> NoResult] /\ output = <<>>
  BY DEF EngineInit, Nothing
<1>2. NoResult \in Result
  BY DEF Status, Text, NoResult, Result, Named
<1>3. ResultsOK
  BY <1>1, <1>2 DEF ResultsOK
<1>4. output \in Seq([Requests -> OutputLine]) /\ DOMAIN output = {}
  BY <1>1
<1> QED
  BY <1>3, <1>4 DEF OutputOK, OutputAnswers

\* A request returns.
LEMMA ResultComesIn ==
  ASSUME OutputOK, NEW i \in Requests, NEW status \in Status \ {"none"}, NEW text \in Text,
         Returns(i, status, text),
         mode = "chunked" => (status = "success") = (text # "none")
  PROVE  OutputOK'
<1> DEFINE r == [of |-> Input[i], status |-> status, text |-> text]
<1>1. /\ r \in Result /\ Answers(i, r) /\ r # NoResult
  BY DEF Result, Named, Answers, NoResult
<1>2. /\ result' = [result EXCEPT ![i] = r]
      /\ UNCHANGED <<mode, main, output>>
  BY DEF Returns, InPlace
<1> HIDE DEF r
<1>3. result' \in [Requests -> Result]
      /\ \A j \in Requests : result'[j] = IF j = i THEN r ELSE result[j]
  BY <1>1, <1>2 DEF OutputOK, ResultsOK
<1>4. \A j \in Requests : result'[j] # NoResult => Answers(j, result'[j])
  BY <1>1, <1>3 DEF OutputOK, ResultsOK
<1>5. ResultsOK'
  BY <1>1, <1>2, <1>3, <1>4 DEF OutputOK, ResultsOK, Answers
<1>6. (output \in Seq([Requests -> OutputLine]) /\ OutputAnswers)'
  BY <1>2 DEF OutputOK, OutputAnswers
<1> QED
  BY <1>5, <1>6 DEF OutputOK

\* What is written when all requests have a result.
LEMMA OutputIsRight ==
  ASSUME ResultsOK, \A i \in Requests : result[i] # NoResult
  PROVE  /\ Output \in [Requests -> OutputLine]
         /\ \A i \in Requests : /\ Output[i].of = Input[i]
                                /\ mode = "chunked" => (Output[i].code = 200) = (Output[i].text # "none")
<1> SUFFICES ASSUME NEW i \in Requests
             PROVE  /\ Line(i, result[i]) \in OutputLine
                    /\ Line(i, result[i]).of = Input[i]
                    /\ mode = "chunked" => (Line(i, result[i]).code = 200)
                                              = (Line(i, result[i]).text # "none")
  BY DEF Output
<1> DEFINE r == result[i]
<1>1. r \in Result /\ Answers(i, r)
  BY DEF ResultsOK
<1> HIDE DEF r
<1>2. /\ Line(i, r).id \in Named \cup Requests
      /\ Line(i, r).of = r.of /\ Line(i, r).text = r.text
      /\ Line(i, r).code = IF r.status = "success" THEN 200 ELSE 400
  BY <1>1 DEF Line, Result
<1>3. Line(i, r) \in OutputLine
  BY <1>1 DEF Line, Result, OutputLine
<1>4. mode = "chunked" => (Line(i, r).code = 200) = (Line(i, r).text # "none")
  BY <1>1, <1>2 DEF Answers
<1> QED
  BY <1>1, <1>2, <1>3, <1>4 DEF r, Answers

\* A step that writes no more than the results that are there, and keeps or drops them.
LEMMA OutputWritten ==
  ASSUME OutputOK, mode' = mode,
         \/ output' = output
         \/ output' = Append(output, Output) /\ \A i \in Requests : result[i] # NoResult,
         result' = result \/ result' = Nothing,
         mode = "unchunked" /\ main' = "joining" => \A i \in Requests : result'[i] # NoResult
  PROVE  OutputOK'
<1>1. ResultsOK'
  <2>1. CASE result' = result
    BY <2>1 DEF OutputOK, ResultsOK, Answers
  <2>2. CASE result' = Nothing
    <3>1. NoResult \in Result
      BY DEF Status, Text, NoResult, Result, Named
    <3> QED
      BY <2>2, <3>1 DEF OutputOK, ResultsOK, Nothing
  <2> QED
    BY <2>1, <2>2
<1>2. CASE output' = output
  BY <1>1, <1>2 DEF OutputOK, OutputAnswers
<1>3. CASE output' = Append(output, Output) /\ \A i \in Requests : result[i] # NoResult
  <2> DEFINE F == [Requests -> OutputLine]
             new == Output
  <2>1. output \in Seq(F)
    BY DEF OutputOK
  <2>2. new \in F /\ \A i \in Requests :
           new[i].of = Input[i] /\ (mode = "chunked" => (new[i].code = 200) = (new[i].text # "none"))
    BY <1>3, OutputIsRight DEF OutputOK
  <2>3. DOMAIN new = Requests
    BY <2>2
  <2>4. output' = Append(output, new)
    BY <1>3
  <2> HIDE DEF F, new
  <2>5. /\ output' \in Seq(F) /\ DOMAIN output' = DOMAIN output \cup {Len(output) + 1}
        /\ output'[Len(output) + 1] = new
        /\ \A k \in DOMAIN output : output'[k] = output[k]
    BY <2>1, <2>2, <2>4
  <2>6. \A k \in DOMAIN output' : output'[k] = new \/ (k \in DOMAIN output /\ output'[k] = output[k])
    BY <2>5
  <2>7. OutputAnswers'
    <3> SUFFICES ASSUME NEW k \in DOMAIN output'
                 PROVE  /\ DOMAIN output'[k] = Requests
                        /\ \A i \in Requests :
                              /\ output'[k][i].of = Input[i]
                              /\ mode = "chunked" => (output'[k][i].code = 200)
                                                        = (output'[k][i].text # "none")
      BY DEF OutputAnswers
    <3>1. CASE output'[k] = new
      BY <2>2, <2>3, <3>1
    <3>2. CASE k \in DOMAIN output /\ output'[k] = output[k]
      BY <3>2 DEF OutputOK, OutputAnswers
    <3> QED
      BY <2>6, <3>1, <3>2
  <2> QED
    BY <1>1, <2>5, <2>7 DEF OutputOK, F
<1> QED
  BY <1>2, <1>3

LEMMA OutputKept == OutputOK /\ [EngineNext]_runnerVars => OutputOK'
<1> SUFFICES ASSUME OutputOK, [EngineNext]_runnerVars PROVE OutputOK'
  OBVIOUS
<1>1. CASE UNCHANGED <<mode, result, output>> /\ (main' = main \/ main' # "joining")
  BY <1>1, OutputWritten DEF OutputOK, ResultsOK
<1>2. ASSUME NEW i \in Requests, Request(i) PROVE OutputOK'
  <2>1. CASE Send(i)
    BY <1>1, <2>1 DEF Send
  <2>2. CASE \E status \in Status \ {"none"}, text \in Text :
                /\ Returns(i, status, text)
                /\ mode = "chunked" => (status = "success") = (text # "none")
    BY <2>2, ResultComesIn
  <2>3. CASE Answered(i) \/ AnsweredInPart(i) \/ Breaks(i)
    BY <2>2, <2>3 DEF Answered, AnsweredInPart, Breaks, Status, Text
  <2>4. CASE Rejected(i)
    BY <2>2, <2>4 DEF Rejected, Status, Text
  <2>5. CASE ServerError(i)
    <3>1. CASE mode = "chunked"
      BY <2>2, <2>5, <3>1 DEF ServerError, Status, Text
    <3>2. CASE mode # "chunked"
      BY <2>2, <2>5, <3>2 DEF ServerError, Status, Text
    <3> QED
      BY <3>1, <3>2
  <2> QED
    BY <1>2, <2>1, <2>3, <2>4, <2>5 DEF Request
<1>3. CASE EngineLogs \/ EngineOom \/ EngineReady \/ EngineFails \/ ReadLine \/ RunnerPrints
           \/ Scrape \/ PushSnapshots \/ SidecarEnds \/ UNCHANGED runnerVars
  BY <1>1, <1>3
  DEF EngineLogs, EngineOom, EngineReady, EngineFails, ReadLine, RunnerPrints, Scrape,
      PushSnapshots, SidecarEnds, runnerVars, mainVars
<1>4. CASE ServerReady \/ ServerExited \/ StartTimesOut \/ Generate \/ Shutdown
  BY <1>1, <1>4 DEF ServerReady, ServerExited, StartTimesOut, Generate, Shutdown
<1>5. CASE NextChunk
  <2>1. /\ mode' = mode /\ mode # "unchunked" /\ (result' = result \/ result' = Nothing)
        /\ output' = Append(output, Output) /\ \A i \in Requests : result[i] # NoResult
    BY <1>5 DEF NextChunk, AllReturned
  <2> QED
    BY <2>1, OutputWritten
<1>6. CASE Through
  BY <1>6, OutputWritten DEF Through, AllReturned
<1>7. CASE Join
  BY <1>7, OutputWritten DEF Join, OutputOK, ResultsOK
<1> QED
  BY <1>2, <1>3, <1>4, <1>5, <1>6, <1>7 DEF EngineNext

\* The output of a chunk has a line for each request in the order of the input, whatever the
\* order of the answers; the chunked runner says 200 only of what the server answered, and
\* loses no answer.
THEOREM OutputIsAnswered == EngineSpec => []OutputAnswers
<1>1. OutputOK => OutputAnswers
  BY DEF OutputOK
<1> QED
  BY <1>1, OutputInit, OutputKept, PTL DEF EngineSpec
================================================================================
