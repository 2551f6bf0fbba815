--------------------------- MODULE ChunkQueueProofs ---------------------------
(***************************************************************************)
(* Proofs about ChunkQueue, for any set of chunks and replicas, any retry  *)
(* budget and any number of interrupted pulls.                             *)
(***************************************************************************)
EXTENDS ChunkQueue, FiniteSetTheorems, SequenceTheorems, TLAPS

-----------------------------------------------------------------------------
(* Sequences without repetition.                                           *)

\* An ordering of a finite set lists every element of it once.
LEMMA OrderingsEnumerate ==
  ASSUME NEW S, IsFiniteSet(S), NEW s \in SetToSeqs(S)
  PROVE  s \in Seq(S) /\ IsInjective(s) /\ Range(s) = S
<1> DEFINE n == Cardinality(S)
<1>1. n \in Nat
  BY FS_CardinalityType
<1>2. s \in [1..n -> S] /\ \A i, j \in 1..n : i # j => s[i] # s[j]
  BY DEF SetToSeqs
<1>3. s \in Seq(S) /\ IsInjective(s)
  BY <1>1, <1>2, SeqDef DEF IsInjective
<1>4. s \in Injection(1..n, S)
  BY <1>2 DEF Injection, IsInjective
<1>5. IsFiniteSet(1..n) /\ Cardinality(1..n) = n
  BY <1>1, FS_Interval
<1>6. s \in Surjection(1..n, S)
  BY <1>4, <1>5, FS_Injection
<1>7. Range(s) = S
  BY <1>2, <1>6 DEF Surjection, Range
<1> QED
  BY <1>3, <1>7

\* What RPUSH does to a list without repetitions.
LEMMA ConcatenationEnumerates ==
  ASSUME NEW T, NEW s \in Seq(T), NEW t \in Seq(T),
         IsInjective(s), IsInjective(t), Range(s) \cap Range(t) = {}
  PROVE  /\ s \o t \in Seq(T)
         /\ IsInjective(s \o t)
         /\ Range(s \o t) = Range(s) \cup Range(t)
<1>1. /\ s \o t \in Seq(T)
      /\ Len(s) \in Nat /\ Len(t) \in Nat
      /\ DOMAIN s = 1..Len(s) /\ DOMAIN t = 1..Len(t)
      /\ DOMAIN (s \o t) = 1..(Len(s) + Len(t))
      /\ \A i \in 1..(Len(s) + Len(t)) :
           (s \o t)[i] = IF i <= Len(s) THEN s[i] ELSE t[i - Len(s)]
  BY ConcatProperties, LenProperties
<1>2. Range(s \o t) = Range(s) \cup Range(t)
  BY RangeConcatenation
<1>3. ASSUME NEW i \in DOMAIN (s \o t), NEW j \in DOMAIN (s \o t),
             (s \o t)[i] = (s \o t)[j]
      PROVE  i = j
  <2>1. CASE i <= Len(s) /\ j <= Len(s)
    BY <1>1, <1>3, <2>1 DEF IsInjective
  <2>2. CASE i > Len(s) /\ j > Len(s)
    <3>1. i - Len(s) \in DOMAIN t /\ j - Len(s) \in DOMAIN t
      BY <1>1, <2>2
    <3>2. t[i - Len(s)] = t[j - Len(s)]
      BY <1>1, <1>3, <2>2
    <3> QED
      BY <1>1, <3>1, <3>2 DEF IsInjective
  <2>3. ASSUME NEW k \in DOMAIN (s \o t), NEW l \in DOMAIN (s \o t),
               k <= Len(s), l > Len(s)
        PROVE  (s \o t)[k] # (s \o t)[l]
    <3>1. (s \o t)[k] \in Range(s)
      BY <1>1, <2>3 DEF Range
    <3>2. l - Len(s) \in DOMAIN t /\ (s \o t)[l] = t[l - Len(s)]
      BY <1>1, <2>3
    <3>3. (s \o t)[l] \in Range(t)
      BY <3>2 DEF Range
    <3> QED
      BY <3>1, <3>3
  <2> QED
    BY <1>1, <1>3, <2>1, <2>2, <2>3
<1> QED
  BY <1>1, <1>2, <1>3 DEF IsInjective

\* What LPOP does to a non-empty list without repetitions.
LEMMA PopEnumerates ==
  ASSUME NEW T, NEW s \in Seq(T), s # <<>>, IsInjective(s)
  PROVE  /\ Head(s) \in T /\ Tail(s) \in Seq(T)
         /\ Head(s) \in Range(s)
         /\ IsInjective(Tail(s))
         /\ Range(Tail(s)) = Range(s) \ {Head(s)}
<1>1. /\ Len(s) \in Nat \ {0} /\ DOMAIN s = 1..Len(s)
      /\ Head(s) = s[1] /\ Head(s) \in T
      /\ Tail(s) \in Seq(T) /\ Len(Tail(s)) = Len(s) - 1
      /\ DOMAIN Tail(s) = 1..(Len(s) - 1)
      /\ \A i \in 1..(Len(s) - 1) : Tail(s)[i] = s[i + 1]
  BY EmptySeq, LenProperties, HeadTailProperties
<1>2. IsInjective(Tail(s))
  <2> SUFFICES ASSUME NEW i \in 1..(Len(s) - 1), NEW j \in 1..(Len(s) - 1),
                      Tail(s)[i] = Tail(s)[j]
               PROVE  i = j
    BY <1>1 DEF IsInjective
  <2>1. s[i + 1] = s[j + 1] /\ i + 1 \in DOMAIN s /\ j + 1 \in DOMAIN s
    BY <1>1
  <2> QED
    BY <1>1, <2>1 DEF IsInjective
<1>3. Range(Tail(s)) \subseteq Range(s) \ {Head(s)}
  <2> SUFFICES ASSUME NEW i \in 1..(Len(s) - 1)
               PROVE  Tail(s)[i] \in Range(s) \ {Head(s)}
    BY <1>1 DEF Range
  <2>1. i + 1 \in DOMAIN s /\ 1 \in DOMAIN s /\ Tail(s)[i] = s[i + 1] /\ i + 1 # 1
    BY <1>1
  <2> QED
    BY <1>1, <2>1 DEF Range, IsInjective
<1>4. Range(s) \ {Head(s)} \subseteq Range(Tail(s))
  <2> SUFFICES ASSUME NEW k \in DOMAIN s, s[k] # s[1]
               PROVE  s[k] \in Range(Tail(s))
    BY <1>1 DEF Range
  <2>1. k - 1 \in 1..(Len(s) - 1) /\ Tail(s)[k - 1] = s[k]
    BY <1>1
  <2> QED
    BY <1>1, <2>1 DEF Range
<1>5. Head(s) \in Range(s)
  BY <1>1 DEF Range
<1> QED
  BY <1>1, <1>2, <1>3, <1>4, <1>5

LEMMA EmptyRange ==
  ASSUME NEW T, NEW s \in Seq(T), Range(s) = {}
  PROVE  s = <<>>
<1> SUFFICES ASSUME s # <<>> PROVE FALSE
  OBVIOUS
<1>1. 1 \in DOMAIN s
  BY EmptySeq, LenProperties
<1> QED
  BY <1>1 DEF Range

-----------------------------------------------------------------------------
(* The inductive invariant: the invariants TLC checks, and what makes a     *)
(* report plausible.                                                       *)

\* A replica was given a chunk only by a lease, which still stands, was lost (and
\* counted as a retry) or ended in a completion.
PulledWasLeased ==
    meta => \A r \in Replicas, c \in Chunks :
              <<r, c>> \in pulled => \/ c \in inflight \cup completed
                                    \/ retry_count[c] > 0

IInv == /\ TypeOK
        /\ SingleCustody
        /\ RetryBudget
        /\ HashAgreesWithSets
        /\ CleanedStaysIdle
        /\ NoChunkLost
        /\ PulledWasLeased

LEMMA QueuedAreChunks == TypeOK => Queued \subseteq Chunks
BY LenProperties, ElementOfSeq DEF TypeOK, Queued, Range

\* Both scripts and the passive reclaim of a pull put back a duplicate-free list.
LEMMA ReclaimedQueue ==
  ASSUME IInv, NEW S, S \subseteq inflight,
         NEW back \in SetToSeqs(S \ Exhausted(S))
  PROVE  /\ pending \o back \in Seq(Chunks)
         /\ IsInjective(pending \o back)
         /\ Range(pending \o back) = Queued \cup (S \ Exhausted(S))
<1> DEFINE B == S \ Exhausted(S)
<1>1. B \subseteq Chunks /\ IsFiniteSet(B)
  BY ChunkQueueAssumption, FS_Subset DEF IInv, TypeOK, Exhausted
<1>2. back \in Seq(B) /\ IsInjective(back) /\ Range(back) = B
  BY <1>1, OrderingsEnumerate
<1>3. back \in Seq(Chunks)
  BY <1>1, <1>2, SeqMonotonic
<1>4. Queued \cap B = {}
  BY DEF IInv, SingleCustody
<1> QED
  BY <1>2, <1>3, <1>4, ConcatenationEnumerates DEF IInv, TypeOK, SingleCustody, Queued

LEMMA FewerUnaccounted ==
  ASSUME IInv, meta, Unaccounted' \subseteq Unaccounted
  PROVE  Cardinality(Unaccounted') <= interrupts
<1>1. IsFiniteSet(Unaccounted)
  BY ChunkQueueAssumption, FS_Subset DEF Unaccounted
<1>2. Cardinality(Unaccounted') <= Cardinality(Unaccounted)
  BY <1>1, FS_Subset
<1>3. IsFiniteSet(Unaccounted')
  BY <1>1, FS_Subset
<1>4. Cardinality(Unaccounted) \in Nat /\ Cardinality(Unaccounted') \in Nat
  BY <1>1, <1>3, FS_CardinalityType
<1> QED
  BY <1>2, <1>4 DEF IInv, NoChunkLost, TypeOK

-----------------------------------------------------------------------------
(* One lemma for the initial state and one per operation.                  *)

LEMMA InitIInv == Init => IInv
<1> SUFFICES ASSUME Init PROVE IInv
  OBVIOUS
<1>1. pending \in Seq(Chunks) /\ IsInjective(pending) /\ Queued = Chunks
  BY ChunkQueueAssumption, OrderingsEnumerate DEF Init, Queued
<1>2. TypeOK
  BY <1>1, ChunkQueueAssumption DEF Init, TypeOK, Statuses, Leases
<1>3. SingleCustody /\ RetryBudget /\ HashAgreesWithSets /\ CleanedStaysIdle
  BY <1>1, ChunkQueueAssumption
     DEF Init, SingleCustody, RetryBudget, HashAgreesWithSets, CleanedStaysIdle
<1>4. Unaccounted = {}
  BY <1>1 DEF Unaccounted
<1>5. NoChunkLost /\ PulledWasLeased
  BY <1>4, FS_EmptySet DEF Init, NoChunkLost, PulledWasLeased
<1> QED
  BY <1>2, <1>3, <1>5 DEF IInv

LEMMA ReclaimIInv ==
  ASSUME IInv, NEW S, S \subseteq inflight, Reclaim(S)
  PROVE  IInv'
<1> USE DEF Exhausted, FailedAfter, StatusAfter, LeaseAfter, RetriesAfter
<1>0. PICK back \in SetToSeqs(S \ Exhausted(S)) : pending' = pending \o back
  BY DEF Reclaim
<1>1. /\ pending' \in Seq(Chunks) /\ IsInjective(pending')
      /\ Queued' = Queued \cup (S \ Exhausted(S))
  BY <1>0, ReclaimedQueue DEF Queued
<1>2. S \subseteq Chunks /\ \A c \in S : retry_count[c] < MaxRetries
  BY DEF IInv, TypeOK, RetryBudget
<1>3. TypeOK'
  <2>1. retry_count' \in [Chunks -> 0..MaxRetries]
    BY <1>2, ChunkQueueAssumption DEF Reclaim, IInv, TypeOK
  <2>2. status' \in [Chunks -> Statuses] /\ lease_until' \in [Chunks -> Leases]
    BY DEF Reclaim, IInv, TypeOK, Statuses, Leases
  <2> QED
    BY <1>1, <1>2, <2>1, <2>2 DEF Reclaim, IInv, TypeOK
<1>4. SingleCustody'
  BY <1>1 DEF Reclaim, IInv, SingleCustody
<1>5. RetryBudget'
  <2>1. ASSUME NEW c \in Queued' \cup inflight'
        PROVE  retry_count'[c] < MaxRetries
    <3>1. c \in Chunks /\ c \in Queued \cup inflight /\ retry_count[c] \in Nat
      BY <1>1, <2>1, QueuedAreChunks DEF Reclaim, IInv, TypeOK
    <3>2. CASE c \in S
      <4>1. retry_count[c] + 1 < MaxRetries
        BY <1>1, <2>1, <3>1, <3>2, ChunkQueueAssumption
           DEF Reclaim, IInv, SingleCustody
      <4> QED
        BY <3>1, <3>2, <4>1 DEF Reclaim
    <3>3. CASE c \notin S
      BY <3>1, <3>3 DEF Reclaim, IInv, RetryBudget
    <3> QED
      BY <3>2, <3>3
  <2>2. ASSUME NEW c \in failed'
        PROVE  retry_count'[c] = MaxRetries
    <3>1. c \in Chunks /\ retry_count[c] \in Nat
      BY <1>2, <2>2 DEF Reclaim, IInv, TypeOK
    <3>2. CASE c \in S
      <4>1. retry_count[c] + 1 = MaxRetries
        BY <1>2, <2>2, <3>1, <3>2, ChunkQueueAssumption
           DEF Reclaim, IInv, SingleCustody
      <4> QED
        BY <3>1, <3>2, <4>1 DEF Reclaim
    <3>3. CASE c \notin S
      BY <2>2, <3>1, <3>3 DEF Reclaim, IInv, RetryBudget
    <3> QED
      BY <3>2, <3>3
  <2> QED
    BY <2>1, <2>2 DEF RetryBudget
<1>6. HashAgreesWithSets'
  BY <1>2 DEF Reclaim, IInv, TypeOK, SingleCustody, HashAgreesWithSets
<1>7. CleanedStaysIdle'
  BY <1>1, EmptyRange DEF Reclaim, IInv, CleanedStaysIdle, Queued, Range
<1>8. NoChunkLost'
  <2>1. Unaccounted' \subseteq Unaccounted
    BY <1>1 DEF Reclaim, Unaccounted
  <2> QED
    BY <2>1, FewerUnaccounted DEF Reclaim, NoChunkLost
<1>9. PulledWasLeased'
  BY <1>2, ChunkQueueAssumption DEF Reclaim, IInv, TypeOK, PulledWasLeased
<1> QED
  BY <1>3, <1>4, <1>5, <1>6, <1>7, <1>8, <1>9 DEF IInv

\* pull_chunk, whole (last = "HSET") or cut short, and the passive reclaim in it.
LEMMA PullIInv ==
  ASSUME IInv, NEW r \in Replicas, NEW last \in {"LPOP", "SADD", "HSET"},
         PullThrough(r, last), interrupts' \in 0..MaxInterrupts,
         interrupts' = IF last = "HSET" THEN interrupts ELSE interrupts + 1
  PROVE  IInv'
<1> USE DEF Exhausted, FailedAfter, StatusAfter, LeaseAfter, RetriesAfter
<1> DEFINE S == PassiveReclaim
           K == S \ Exhausted(S)
<1>1. S \subseteq inflight /\ S \subseteq Chunks /\ (S # {} => pending = <<>>)
  BY DEF PassiveReclaim, Expired, IInv, TypeOK
<1>2. PICK back \in SetToSeqs(K) : Hand(r, last, S, pending \o back)
  BY DEF PullThrough
<1> DEFINE queue == pending \o back
           c == Head(queue)
<1>3. queue \in Seq(Chunks) /\ IsInjective(queue) /\ Range(queue) = Queued \cup K
  BY <1>1, ReclaimedQueue
<1>4. queue # <<>> /\ pending' = Tail(queue)
  BY <1>2 DEF Hand
<1>5. /\ c \in Chunks /\ c \in Queued \cup K
      /\ pending' \in Seq(Chunks) /\ IsInjective(pending')
      /\ Queued' = (Queued \cup K) \ {c}
  BY <1>3, <1>4, PopEnumerates DEF Queued
<1>6. /\ failed' = failed \cup Exhausted(S)
      /\ retry_count' = RetriesAfter(S)
      /\ inflight' = (inflight \ S) \cup (IF last = "LPOP" THEN {} ELSE {c})
      /\ completed' = completed /\ meta' = meta
  BY <1>2 DEF Hand
<1>7. c \in Queued => S = {}
  BY <1>1 DEF Queued, Range
<1>8. c \notin failed' /\ c \notin Queued'
  BY <1>1, <1>5, <1>6, <1>7 DEF IInv, SingleCustody
<1>9. \A d \in S : retry_count[d] < MaxRetries
  BY <1>1 DEF IInv, RetryBudget
<1>10. interrupts' = 0 => last = "HSET" /\ interrupts = 0
  BY DEF IInv, TypeOK
<1>11. \/ /\ last = "HSET" /\ interrupts' = interrupts
          /\ status' = [StatusAfter(S) EXCEPT ![c] = "inflight"]
          /\ lease_until' = [LeaseAfter(S) EXCEPT ![c] = "live"]
          /\ replica_id' = [replica_id EXCEPT ![c] = r]
          /\ pulled' = pulled \cup {<<r, c>>}
       \/ /\ last # "HSET" /\ interrupts' = interrupts + 1
          /\ status' = StatusAfter(S)
          /\ lease_until' = LeaseAfter(S)
          /\ replica_id' = replica_id /\ pulled' = pulled
  BY <1>2 DEF Hand
<1> HIDE DEF S, queue, c
<1>12. TypeOK'
  <2>1. retry_count' \in [Chunks -> 0..MaxRetries]
    <3>1. retry_count' = [d \in Chunks |-> IF d \in S THEN retry_count[d] + 1
                                           ELSE retry_count[d]]
      BY <1>6
    <3>2. \A d \in Chunks : /\ retry_count[d] \in 0..MaxRetries
                            /\ d \in S => retry_count[d] < MaxRetries
      BY <1>9 DEF IInv, TypeOK
    <3>3. \A d \in Chunks : (IF d \in S THEN retry_count[d] + 1 ELSE retry_count[d])
                              \in 0..MaxRetries
      BY <3>2, ChunkQueueAssumption
    <3> QED
      BY <3>1, <3>3
  <2>2. status' \in [Chunks -> Statuses] /\ lease_until' \in [Chunks -> Leases]
    <3>1. StatusAfter(S) \in [Chunks -> Statuses] /\ LeaseAfter(S) \in [Chunks -> Leases]
      BY DEF IInv, TypeOK, Statuses, Leases
    <3>2. "inflight" \in Statuses /\ "live" \in Leases
      BY DEF Statuses, Leases
    <3> HIDE DEF StatusAfter, LeaseAfter
    <3> QED
      BY <1>5, <1>11, <3>1, <3>2
  <2>3. replica_id' \in [Chunks -> Replicas \cup {NoReplica}]
    BY <1>5, <1>11 DEF IInv, TypeOK
  <2>4. pulled' \subseteq Replicas \X Chunks
    BY <1>5, <1>11 DEF IInv, TypeOK
  <2>5. inflight' \subseteq Chunks /\ failed' \subseteq Chunks
    BY <1>1, <1>5, <1>6 DEF IInv, TypeOK
  <2> QED
    BY <1>5, <1>6, <2>1, <2>2, <2>3, <2>4, <2>5 DEF IInv, TypeOK
<1>13. SingleCustody'
  BY <1>1, <1>5, <1>6, <1>8 DEF IInv, SingleCustody
<1>14. RetryBudget'
  <2>1. ASSUME NEW d \in Queued' \cup inflight'
        PROVE  retry_count'[d] < MaxRetries
    <3>1. d \in Chunks /\ retry_count[d] \in Nat /\ d \in Queued \cup inflight
      BY <1>1, <1>5, <1>6, <2>1, QueuedAreChunks DEF IInv, TypeOK
    <3>2. CASE d \in S
      <4>1. retry_count[d] + 1 < MaxRetries
        BY <1>1, <1>5, <1>6, <1>7, <2>1, <3>1, <3>2, ChunkQueueAssumption
           DEF IInv, SingleCustody
      <4> QED
        BY <1>6, <3>1, <3>2, <4>1
    <3>3. CASE d \notin S
      BY <1>6, <3>1, <3>3 DEF IInv, RetryBudget
    <3> QED
      BY <3>2, <3>3
  <2>2. ASSUME NEW d \in failed'
        PROVE  retry_count'[d] = MaxRetries
    <3>1. d \in Chunks /\ retry_count[d] \in Nat
      BY <1>1, <1>6, <2>2 DEF IInv, TypeOK
    <3>2. CASE d \in S
      <4>1. retry_count[d] + 1 = MaxRetries
        BY <1>1, <1>6, <1>9, <2>2, <3>1, <3>2, ChunkQueueAssumption
           DEF IInv, SingleCustody
      <4> QED
        BY <1>6, <3>1, <3>2, <4>1
    <3>3. CASE d \notin S
      BY <1>6, <2>2, <3>1, <3>3 DEF IInv, RetryBudget
    <3> QED
      BY <3>2, <3>3
  <2> QED
    BY <2>1, <2>2 DEF RetryBudget
<1>15. HashAgreesWithSets'
  <2>1. ASSUME NEW d \in Chunks, status'[d] = "inflight"
        PROVE  d \in inflight'
    BY <1>1, <1>5, <1>6, <1>7, <1>11, <2>1
       DEF IInv, TypeOK, HashAgreesWithSets
  <2>2. ASSUME NEW d \in Chunks
        PROVE  status'[d] = "failed" <=> d \in failed'
    <3>1. failed \subseteq Chunks /\ (status[d] = "failed" <=> d \in failed)
      BY DEF IInv, TypeOK, HashAgreesWithSets
    <3>2. d \in failed' <=> d \in failed \/ d \in Exhausted(S)
      BY <1>6
    <3>3. S \cap failed = {}
      BY <1>1 DEF IInv, SingleCustody
    <3>4. StatusAfter(S)[d] = "failed" <=> d \in failed'
      BY <3>1, <3>2, <3>3
    <3>5. CASE d = c
      <4>1. d \notin failed' /\ StatusAfter(S)[d] # "failed"
        BY <1>8, <3>4, <3>5
      <4>2. status'[d] \in {StatusAfter(S)[d], "inflight"}
        BY <1>5, <1>11, <3>5
      <4> QED
        BY <4>1, <4>2
    <3>6. CASE d # c
      <4>1. status'[d] = StatusAfter(S)[d]
        BY <1>11, <3>6
      <4> QED
        BY <3>4, <4>1
    <3> QED
      BY <3>5, <3>6
  <2>3. ASSUME interrupts' = 0, NEW d \in inflight'
        PROVE  status'[d] = "inflight" /\ replica_id'[d] # NoReplica /\ lease_until'[d] # "none"
    <3>1. last = "HSET" /\ interrupts = 0 /\ d \in Chunks
      BY <1>1, <1>5, <1>6, <1>10, <2>3 DEF IInv, TypeOK
    <3>2. CASE d = c
      BY <1>5, <1>11, <3>1, <3>2, ChunkQueueAssumption DEF IInv, TypeOK
    <3>3. CASE d # c
      <4>1. d \in inflight /\ d \notin S
        BY <1>6, <2>3, <3>3
      <4> QED
        BY <1>11, <3>1, <3>3, <4>1 DEF IInv, TypeOK, HashAgreesWithSets
    <3> QED
      BY <3>2, <3>3
  <2> QED
    BY <2>1, <2>2, <2>3 DEF HashAgreesWithSets
<1>16. CleanedStaysIdle'
  <2>1. meta
    BY <1>1, <1>5 DEF IInv, CleanedStaysIdle, Queued, Range
  <2> QED
    BY <1>6, <2>1 DEF CleanedStaysIdle
<1>17. NoChunkLost'
  <2> SUFFICES ASSUME meta
               PROVE  Cardinality(Unaccounted') <= interrupts'
    BY <1>6 DEF NoChunkLost
  <2>1. CASE last = "HSET"
    <3>1. Unaccounted' \subseteq Unaccounted
      BY <1>1, <1>5, <1>6, <2>1 DEF Unaccounted
    <3> QED
      BY <1>11, <2>1, <3>1, FewerUnaccounted
  <2>2. CASE last # "HSET"
    <3> DEFINE U == Unaccounted \cup {c}
    <3>1. Unaccounted' \subseteq U
      BY <1>1, <1>5, <1>6 DEF Unaccounted
    <3>2. IsFiniteSet(Unaccounted)
      BY ChunkQueueAssumption, FS_Subset DEF Unaccounted
    <3>3. IsFiniteSet(U) /\ Cardinality(U) <= Cardinality(Unaccounted) + 1
      <4>1. /\ IsFiniteSet(U)
            /\ \/ Cardinality(U) = Cardinality(Unaccounted)
               \/ Cardinality(U) = Cardinality(Unaccounted) + 1
        BY <3>2, FS_AddElement
      <4>2. Cardinality(Unaccounted) \in Nat
        BY <3>2, FS_CardinalityType
      <4> QED
        BY <4>1, <4>2
    <3>4. IsFiniteSet(Unaccounted') /\ Cardinality(Unaccounted') <= Cardinality(U)
      BY <3>1, <3>3, FS_Subset
    <3>5. /\ Cardinality(Unaccounted) \in Nat /\ Cardinality(Unaccounted') \in Nat
          /\ Cardinality(U) \in Nat
      BY <3>2, <3>3, <3>4, FS_CardinalityType
    <3>6. Cardinality(Unaccounted) <= interrupts
      BY DEF IInv, NoChunkLost
    <3> QED
      BY <1>11, <2>2, <3>3, <3>4, <3>5, <3>6 DEF IInv, TypeOK
  <2> QED
    BY <2>1, <2>2
<1>18. PulledWasLeased'
  <2> SUFFICES ASSUME meta, NEW q \in Replicas, NEW d \in Chunks, <<q, d>> \in pulled'
               PROVE  d \in inflight' \cup completed' \/ retry_count'[d] > 0
    BY <1>6 DEF PulledWasLeased
  <2>1. CASE last = "HSET" /\ d = c
    BY <1>6, <2>1
  <2>2. CASE ~(last = "HSET" /\ d = c)
    <3>1. <<q, d>> \in pulled
      BY <1>11, <2>2
    <3>2. d \in inflight \cup completed \/ retry_count[d] > 0
      BY <3>1 DEF IInv, PulledWasLeased
    <3> QED
      BY <1>6, <3>2 DEF IInv, TypeOK
  <2> QED
    BY <2>1, <2>2
<1> QED
  BY <1>12, <1>13, <1>14, <1>15, <1>16, <1>17, <1>18 DEF IInv

\* renew_lease and the passing of time change nothing but the lease of a chunk that
\* keeps one.
LEMMA LeaseIInv ==
  ASSUME IInv, NEW c \in Chunks, NEW l \in {"live", "expired"},
         lease_until' = [lease_until EXCEPT ![c] = l],
         UNCHANGED <<pending, inflight, completed, failed, status, replica_id,
                     retry_count, meta, pulled, interrupts>>
  PROVE  IInv'
<1>1. TypeOK'
  BY DEF IInv, TypeOK, Leases
<1>2. Queued' = Queued /\ Unaccounted' = Unaccounted
  BY DEF Queued, Unaccounted
<1>3. SingleCustody'
  BY <1>2 DEF IInv, SingleCustody
<1>4. RetryBudget'
  BY <1>2 DEF IInv, RetryBudget
<1>5. HashAgreesWithSets'
  BY DEF IInv, TypeOK, HashAgreesWithSets
<1>6. CleanedStaysIdle' /\ PulledWasLeased'
  BY DEF IInv, CleanedStaysIdle, PulledWasLeased
<1>7. NoChunkLost'
  BY <1>2 DEF IInv, NoChunkLost
<1> QED
  BY <1>1, <1>3, <1>4, <1>5, <1>6, <1>7 DEF IInv

LEMMA CompleteIInv ==
  ASSUME IInv, NEW r \in Replicas, NEW c \in Chunks, CompleteChunk(r, c)
  PROVE  IInv'
<1> USE DEF CompleteChunk
<1>1. TypeOK'
  BY DEF IInv, TypeOK, Statuses
<1>2. Queued' = Queued
  BY DEF Queued
<1>3. SingleCustody' /\ RetryBudget'
  BY <1>2 DEF IInv, SingleCustody, RetryBudget
<1>4. HashAgreesWithSets'
  BY DEF IInv, TypeOK, HashAgreesWithSets
<1>5. CleanedStaysIdle' /\ PulledWasLeased'
  BY DEF IInv, CleanedStaysIdle, PulledWasLeased
<1>6. NoChunkLost'
  <2>1. Unaccounted' \subseteq Unaccounted
    BY <1>2 DEF Unaccounted
  <2> QED
    BY <2>1, FewerUnaccounted DEF NoChunkLost
<1> QED
  BY <1>1, <1>3, <1>4, <1>5, <1>6 DEF IInv

LEMMA CleanupIInv == IInv /\ CleanupJob => IInv'
<1> SUFFICES ASSUME IInv, CleanupJob PROVE IInv'
  OBVIOUS
<1> USE DEF CleanupJob, DeleteKeys, DeleteSetsAndHashes
<1>1. TypeOK'
  <2>1. pending' \in Seq(Chunks)
    BY EmptySeq
  <2>2. status' \in [Chunks -> Statuses] /\ lease_until' \in [Chunks -> Leases]
    BY DEF IInv, TypeOK, Statuses, Leases
  <2>3. /\ replica_id' \in [Chunks -> Replicas \cup {NoReplica}]
        /\ retry_count' \in [Chunks -> 0..MaxRetries]
    BY ChunkQueueAssumption
  <2> QED
    BY <2>1, <2>2, <2>3 DEF IInv, TypeOK
<1>2. Queued' = {}
  BY DEF Queued, Range
<1>3. SingleCustody' /\ RetryBudget' /\ CleanedStaysIdle'
  BY <1>2 DEF SingleCustody, RetryBudget, CleanedStaysIdle, IsInjective
<1>4. \A c \in Chunks : status'[c] \notin {"inflight", "failed"}
  BY DEF IInv, TypeOK, HashAgreesWithSets, CleanedStaysIdle
<1>5. HashAgreesWithSets'
  BY <1>4 DEF HashAgreesWithSets
<1>6. NoChunkLost' /\ PulledWasLeased'
  BY DEF NoChunkLost, PulledWasLeased
<1> QED
  BY <1>1, <1>3, <1>5, <1>6 DEF IInv

LEMMA NextIInv == IInv /\ [Next]_vars => IInv'
<1> SUFFICES ASSUME IInv, [Next]_vars PROVE IInv'
  OBVIOUS
<1>1. ASSUME NEW r \in Replicas, PullChunk(r) PROVE IInv'
  <2>1. CASE PullThrough(r, "HSET") /\ UNCHANGED interrupts
    BY <2>1, PullIInv DEF IInv, TypeOK
  <2>2. CASE PullNothing
    BY <2>2, ReclaimIInv DEF PullNothing, Expired
  <2> QED
    BY <1>1, <2>1, <2>2 DEF PullChunk
<1>2. ASSUME NEW r \in Replicas, PullInterrupted(r) PROVE IInv'
  <2>1. interrupts' = interrupts + 1 /\ interrupts' \in 0..MaxInterrupts
    BY <1>2, ChunkQueueAssumption DEF PullInterrupted, IInv, TypeOK
  <2>2. PICK last \in {"LPOP", "SADD"} : PullThrough(r, last)
    BY <1>2 DEF PullInterrupted
  <2> QED
    BY <2>1, <2>2, PullIInv
<1>3. ASSUME NEW r \in Replicas, NEW c \in Chunks, RenewLease(r, c) PROVE IInv'
  BY <1>3, LeaseIInv DEF RenewLease
<1>4. ASSUME NEW r \in Replicas, NEW c \in Chunks, CompleteChunk(r, c) PROVE IInv'
  BY <1>4, CompleteIInv
<1>5. ASSUME NEW R \in SUBSET Replicas, ForceReclaim(R) PROVE IInv'
  BY <1>5, ReclaimIInv DEF ForceReclaim, OwnedBy
<1>6. ASSUME NEW c \in Chunks, LeaseExpires(c) PROVE IInv'
  BY <1>6, LeaseIInv DEF LeaseExpires
<1>7. CASE ReclaimExpiredChunks
  BY <1>7, ReclaimIInv DEF ReclaimExpiredChunks, Expired
<1>8. CASE CleanupJob
  BY <1>8, CleanupIInv
<1>9. CASE UNCHANGED vars
  BY <1>9 DEF vars, IInv, TypeOK, SingleCustody, RetryBudget, HashAgreesWithSets,
              CleanedStaysIdle, NoChunkLost, PulledWasLeased, Queued, Unaccounted
<1> QED
  BY <1>1, <1>2, <1>3, <1>4, <1>5, <1>6, <1>7, <1>8, <1>9 DEF Next

-----------------------------------------------------------------------------
(* The invariants of every run of one job's queue.                         *)

LEMMA Invariance == Spec => []IInv
BY InitIInv, NextIInv, PTL DEF Spec

\* Every key of the queue holds what its type says, retry counts stay within
\* CHUNK_MAX_RETRIES, and only chunks and replicas of the job appear anywhere.
THEOREM TypeCorrect == Spec => []TypeOK
BY Invariance, PTL DEF IInv

\* No chunk is queued twice, or queued, leased and failed at once, however pulls,
\* reclaims and late reports interleave.
THEOREM Custody == Spec => []SingleCustody
BY Invariance, PTL DEF IInv

\* Every chunk stays in one of the four keys until cleanup, except at most one for
\* each pull_chunk cut short.
THEOREM NothingLost == Spec => []NoChunkLost
BY Invariance, PTL DEF IInv

\* A chunk in play has retries left and a failed one has none.
THEOREM RetriesBounded == Spec => []RetryBudget
BY Invariance, PTL DEF IInv

\* The hash fields that _RENEW_LUA and the reclaim scripts trust agree with the sets.
THEOREM HashesTrusted == Spec => []HashAgreesWithSets
BY Invariance, PTL DEF IInv

\* Late calls after cleanup_job revive nothing that could be handed out.
THEOREM CleanedIdle == Spec => []CleanedStaysIdle
BY Invariance, PTL DEF IInv

-----------------------------------------------------------------------------
(* What a step may not do.                                                 *)

\* A completion and a reclaim never lower |completed| + |failed|.
LEMMA SumGrows ==
  ASSUME IInv, [Next]_vars, meta'
  PROVE  Cardinality(completed') + Cardinality(failed')
           >= Cardinality(completed) + Cardinality(failed)
<1> DEFINE Finite == IsFiniteSet(completed) /\ IsFiniteSet(failed)
<1>1. IsFiniteSet(completed) /\ IsFiniteSet(failed)
  BY ChunkQueueAssumption, FS_Subset DEF IInv, TypeOK
<1>2. IsFiniteSet(completed') /\ IsFiniteSet(failed')
  BY NextIInv, ChunkQueueAssumption, FS_Subset DEF IInv, TypeOK
<1>3. /\ Cardinality(completed) \in Nat /\ Cardinality(failed) \in Nat
      /\ Cardinality(completed') \in Nat /\ Cardinality(failed') \in Nat
  BY <1>1, <1>2, FS_CardinalityType
<1>4. CASE completed \subseteq completed' /\ failed \subseteq failed'
  <2>1. Cardinality(completed) <= Cardinality(completed')
    BY <1>2, <1>4, FS_Subset
  <2>2. Cardinality(failed) <= Cardinality(failed')
    BY <1>2, <1>4, FS_Subset
  <2> QED
    BY <1>3, <2>1, <2>2
<1>5. ASSUME NEW r \in Replicas, NEW c \in Chunks, CompleteChunk(r, c)
      PROVE  Cardinality(completed') + Cardinality(failed')
               >= Cardinality(completed) + Cardinality(failed)
  <2>1. Cardinality(completed') = Cardinality(completed) + 1
    BY <1>1, <1>5, FS_AddElement DEF CompleteChunk
  <2>2. Cardinality(failed') >= Cardinality(failed) - 1
    <3>1. failed' = failed \ {c}
      BY <1>5 DEF CompleteChunk
    <3>2. \/ Cardinality(failed') = Cardinality(failed)
          \/ Cardinality(failed') = Cardinality(failed) - 1
      BY <1>1, <3>1, FS_RemoveElement
    <3> QED
      BY <1>3, <3>2
  <2> QED
    BY <1>3, <2>1, <2>2
<1>6. \/ completed \subseteq completed' /\ failed \subseteq failed'
      \/ \E r \in Replicas, c \in Chunks : CompleteChunk(r, c)
  BY DEF Next, vars, PullChunk, PullNothing, PullInterrupted, PullThrough, Hand, Reclaim,
         ReclaimExpiredChunks, ForceReclaim, FailedAfter, RenewLease, LeaseExpires,
         CleanupJob, DeleteKeys, DeleteSetsAndHashes
<1> QED
  BY <1>4, <1>5, <1>6

LEMMA AllDoneKept ==
  ASSUME IInv, [Next]_vars, AllDone, meta'
  PROVE  AllDone'
<1>1. /\ IsFiniteSet(completed) /\ IsFiniteSet(failed) /\ IsFiniteSet(Chunks)
      /\ IsFiniteSet(completed') /\ IsFiniteSet(failed')
  BY NextIInv, ChunkQueueAssumption, FS_Subset DEF IInv, TypeOK
<1>2. /\ Cardinality(completed) \in Nat /\ Cardinality(failed) \in Nat
      /\ Cardinality(completed') \in Nat /\ Cardinality(failed') \in Nat
      /\ Cardinality(Chunks) \in Nat
  BY <1>1, FS_CardinalityType
<1> QED
  BY <1>2, SumGrows DEF AllDone

\* Once get_progress reports all_done it goes on doing so until the job is cleaned.
THEOREM AllDoneStays == Spec => AllDoneStable
<1>1. IInv /\ [Next]_vars => [AllDone /\ meta' => AllDone']_vars
  BY AllDoneKept
<1> QED
  BY <1>1, Invariance, PTL DEF Spec, AllDoneStable

\* A pull that finds the list empty takes back expired leases only: a chunk that stays
\* inflight under a live lease keeps its owner.
THEOREM LeasesRespected == Spec => LiveLeaseKept
<1> DEFINE Kept == \A c \in inflight \cap inflight' :
                      lease_until[c] = "live" => replica_id'[c] = replica_id[c]
<1>1. IInv /\ [Next]_vars => Kept
  <2> SUFFICES ASSUME IInv, [Next]_vars, NEW c \in inflight, c \in inflight',
                      lease_until[c] = "live"
               PROVE  replica_id'[c] = replica_id[c]
    OBVIOUS
  <2>1. ASSUME NEW r \in Replicas, NEW last, PullThrough(r, last)
        PROVE  replica_id'[c] = replica_id[c]
    <3>1. PICK back \in SetToSeqs(PassiveReclaim \ Exhausted(PassiveReclaim)) :
             Hand(r, last, PassiveReclaim, pending \o back)
      BY <2>1 DEF PullThrough
    <3>2. PassiveReclaim \subseteq inflight
      BY DEF PassiveReclaim, Expired
    <3> DEFINE queue == pending \o back
    <3>3. Head(queue) \in Queued \cup PassiveReclaim
      <4>1. /\ queue \in Seq(Chunks) /\ IsInjective(queue)
            /\ Range(queue) \subseteq Queued \cup PassiveReclaim
        BY <3>2, ReclaimedQueue
      <4>2. queue # <<>>
        BY <3>1 DEF Hand
      <4> HIDE DEF queue
      <4> QED
        BY <4>1, <4>2, PopEnumerates
    <3>4. c \notin Queued \cup PassiveReclaim
      BY DEF IInv, SingleCustody, PassiveReclaim, Expired
    <3>5. c \in Chunks /\ replica_id \in [Chunks -> Replicas \cup {NoReplica}]
      BY DEF IInv, TypeOK
    <3> QED
      BY <3>1, <3>3, <3>4, <3>5 DEF Hand
  <2>2. CASE UNCHANGED replica_id
    BY <2>2
  <2>3. CASE CleanupJob
    BY <2>3 DEF CleanupJob, DeleteKeys, DeleteSetsAndHashes
  <2>4. \/ UNCHANGED replica_id
        \/ CleanupJob
        \/ \E r \in Replicas, last \in {"LPOP", "SADD", "HSET"} : PullThrough(r, last)
    BY DEF Next, vars, PullChunk, PullNothing, PullInterrupted, Reclaim,
           ReclaimExpiredChunks, ForceReclaim, RenewLease, CompleteChunk, LeaseExpires
  <2> QED
    BY <2>1, <2>2, <2>3, <2>4
<1>2. IInv /\ [Next]_vars => [Kept]_vars
  BY <1>1
<1> QED
  BY <1>2, Invariance, PTL DEF Spec, LiveLeaseKept

-----------------------------------------------------------------------------
(* The queue implements TaskPool.                                          *)

\* A chunk in custody of one key is in the state that key stands for.
LEMMA StateOf ==
  ASSUME IInv, meta, NEW c \in Chunks, c \notin completed
  PROVE  /\ c \in inflight => TaskState(c) = "leased"
         /\ c \in failed => TaskState(c) = "failed"
         /\ c \notin inflight \cup failed => TaskState(c) = "ready"
         /\ TaskTries(c) = retry_count[c] /\ retry_count[c] \in Nat
BY DEF IInv, TypeOK, SingleCustody, TaskState, TaskTries

LEMMA ReclaimLoses ==
  ASSUME IInv, NEW S, S # {}, S \subseteq inflight, Reclaim(S)
  PROVE  Pool!PoolNext
<1> DEFINE T == S \ completed
<1>1. meta /\ S \subseteq Chunks /\ meta' = meta /\ completed' = completed
  BY DEF IInv, CleanedStaysIdle, TypeOK, Reclaim
<1>2. \A c \in T : TaskState(c) = "leased"
  BY <1>1, StateOf
<1>3. ASSUME NEW c \in Chunks
      PROVE  TaskState(c)' = IF c \in T THEN (IF TaskTries(c) + 1 < MaxRetries
                                             THEN "ready" ELSE "failed")
                             ELSE TaskState(c)
  <2>1. CASE c \in completed
    BY <1>1, <2>1 DEF TaskState
  <2>2. CASE c \notin completed /\ c \in S
    <3>1. c \notin inflight' /\ (c \in failed' <=> ~(retry_count[c] + 1 < MaxRetries))
      BY <2>2, ChunkQueueAssumption
         DEF Reclaim, FailedAfter, Exhausted, IInv, SingleCustody, TypeOK
    <3>2. TaskTries(c) = retry_count[c]
      BY <1>1, <2>2, StateOf
    <3> QED
      BY <1>1, <2>2, <3>1, <3>2 DEF TaskState
  <2>3. CASE c \notin completed /\ c \notin S
    BY <1>1, <2>3 DEF TaskState, Reclaim, FailedAfter, Exhausted
  <2> QED
    BY <2>1, <2>2, <2>3
<1>4. ASSUME NEW c \in Chunks
      PROVE  TaskTries(c)' = IF c \in T THEN TaskTries(c) + 1 ELSE TaskTries(c)
  BY <1>1 DEF TaskTries, Reclaim, RetriesAfter
<1>5. Pool!Lose(T)
  BY <1>1, <1>2, <1>3, <1>4 DEF Pool!Lose, Pool!Lost, Pool!AfterLoss, Pool!CountLost
<1> QED
  BY <1>1, <1>5 DEF Pool!PoolNext

LEMMA PullRelets ==
  ASSUME IInv, NEW r \in Replicas, NEW last \in {"LPOP", "SADD", "HSET"},
         PullThrough(r, last)
  PROVE  Pool!PoolNext
<1> DEFINE S == PassiveReclaim
           T == S \ completed
<1>1. PICK back \in SetToSeqs(S \ Exhausted(S)) : Hand(r, last, S, pending \o back)
  BY DEF PullThrough
<1>2. S \subseteq inflight /\ S \subseteq Chunks
  BY DEF PassiveReclaim, Expired, IInv, TypeOK
<1>3. PICK c \in Chunks : c = Head(pending \o back) /\ c \in Queued \cup (S \ Exhausted(S))
  <2> DEFINE queue == pending \o back
  <2>1. /\ queue \in Seq(Chunks) /\ IsInjective(queue)
        /\ Range(queue) = Queued \cup (S \ Exhausted(S))
    BY <1>2, ReclaimedQueue
  <2>2. queue # <<>>
    BY <1>1 DEF Hand
  <2> HIDE DEF queue, S
  <2>3. Head(queue) \in Chunks /\ Head(queue) \in Queued \cup (S \ Exhausted(S))
    BY <2>1, <2>2, PopEnumerates
  <2> QED
    BY <2>3 DEF queue
<1>4. meta
  BY <1>2, <1>3 DEF IInv, CleanedStaysIdle, Queued, Range
<1>5. /\ meta' = meta /\ completed' = completed
      /\ failed' = failed \cup Exhausted(S)
      /\ retry_count' = RetriesAfter(S)
      /\ inflight' = (inflight \ S) \cup (IF last = "LPOP" THEN {} ELSE {c})
  BY <1>1, <1>3 DEF Hand, FailedAfter
<1> HIDE DEF S
<1>6. \A t \in T : TaskState(t) = "leased"
  BY <1>2, <1>4, StateOf
<1> DEFINE L(d) == IF d \in T THEN (IF TaskTries(d) + 1 < MaxRetries THEN "ready" ELSE "failed")
                   ELSE TaskState(d)
<1>7. ASSUME NEW d \in Chunks, d \in S, d \notin completed
      PROVE  d \in failed' <=> ~(TaskTries(d) + 1 < MaxRetries)
  <2>1. TaskTries(d) = retry_count[d] /\ retry_count[d] \in Nat
    BY <1>4, <1>7, StateOf
  <2>2. d \notin failed
    BY <1>2, <1>7 DEF IInv, SingleCustody
  <2> QED
    BY <1>5, <1>7, <2>1, <2>2, ChunkQueueAssumption DEF Exhausted
<1>8. ASSUME NEW d \in Chunks, d # c \/ last = "LPOP"
      PROVE  TaskState(d)' = L(d)
  <2>1. CASE d \in completed
    BY <1>4, <1>5, <2>1 DEF TaskState
  <2>2. CASE d \notin completed /\ d \in S
    BY <1>4, <1>5, <1>7, <1>8, <2>2 DEF TaskState
  <2>3. CASE d \notin completed /\ d \notin S
    BY <1>4, <1>5, <1>8, <2>3 DEF TaskState, Exhausted
  <2> QED
    BY <2>1, <2>2, <2>3
<1>9. ASSUME NEW d \in Chunks
      PROVE  TaskTries(d)' = IF d \in T THEN TaskTries(d) + 1 ELSE TaskTries(d)
  BY <1>4, <1>5 DEF TaskTries, RetriesAfter
<1>10. CASE last = "LPOP"
  <2>1. Pool!Lose(T)
    BY <1>2, <1>6, <1>8, <1>9, <1>10 DEF Pool!Lose, Pool!Lost, Pool!AfterLoss, Pool!CountLost
  <2> QED
    BY <1>2, <2>1 DEF Pool!PoolNext
<1>11. CASE last # "LPOP" /\ c \in completed
  <2>1. TaskState(c)' = L(c)
    BY <1>4, <1>5, <1>11 DEF TaskState
  <2>2. Pool!Lose(T)
    BY <1>2, <1>6, <1>8, <1>9, <2>1 DEF Pool!Lose, Pool!Lost, Pool!AfterLoss, Pool!CountLost
  <2> QED
    BY <1>2, <2>2 DEF Pool!PoolNext
<1>12. CASE last # "LPOP" /\ c \notin completed
  <2>1. c \notin failed'
    BY <1>2, <1>3, <1>5, <1>12 DEF IInv, SingleCustody, PassiveReclaim, Expired, Exhausted
  <2>2. TaskState(c)' = "leased"
    BY <1>4, <1>5, <1>12, <2>1 DEF TaskState
  <2>3. L(c) = "ready"
    <3>1. CASE c \in S
      BY <1>3, <1>7, <1>12, <2>1, <3>1
    <3>2. CASE c \notin S
      BY <1>3, <1>4, <1>12, <3>2, StateOf DEF IInv, SingleCustody
    <3> QED
      BY <3>1, <3>2
  <2>4. Pool!Relet(T, c)
    BY <1>2, <1>3, <1>6, <1>8, <1>9, <2>2, <2>3
       DEF Pool!Relet, Pool!Lost, Pool!AfterLoss, Pool!CountLost
  <2> QED
    BY <1>2, <1>3, <2>4 DEF Pool!PoolNext
<1> QED
  BY <1>10, <1>11, <1>12

LEMMA CompletionFinishes ==
  ASSUME IInv, NEW r \in Replicas, NEW c \in Chunks, CompleteChunk(r, c)
  PROVE  Pool!PoolNext \/ UNCHANGED Pool!poolVars
<1> USE DEF CompleteChunk
<1>1. CASE ~meta
  BY <1>1 DEF TaskState, TaskTries, Pool!poolVars
<1>2. CASE meta
  <2>1. c \in inflight \/ retry_count[c] > 0
    BY <1>2 DEF IInv, PulledWasLeased
  <2>2. \/ TaskState(c) = "leased"
        \/ TaskState(c) \in {"ready", "failed"} /\ TaskTries(c) > 0
    BY <1>2, <2>1, StateOf
  <2>3. \A d \in Chunks : TaskState(d)' = IF d = c THEN "done" ELSE TaskState(d)
    BY <1>2 DEF TaskState
  <2>4. \A d \in Chunks : TaskTries(d)' = IF d = c THEN 0 ELSE TaskTries(d)
    BY <1>2 DEF TaskTries
  <2>5. Pool!Finish(c)
    BY <2>2, <2>3, <2>4 DEF Pool!Finish
  <2> QED
    BY <2>5 DEF Pool!PoolNext
<1> QED
  BY <1>1, <1>2 DEF IInv, TypeOK

\* Every behaviour of the Redis queue, with its crashes, late reports and duplicated
\* chunks, is a behaviour of the pool of leased tasks.
THEOREM QueueImplementsPool == Spec => ImplementsTaskPool
<1>1. Init => Pool!PoolInit
  BY ChunkQueueAssumption DEF Init, Pool!PoolInit, TaskState, TaskTries
<1>2. IInv /\ [Next]_vars => [Pool!PoolNext]_(Pool!poolVars)
  <2> SUFFICES ASSUME IInv, [Next]_vars
               PROVE  Pool!PoolNext \/ UNCHANGED Pool!poolVars
    OBVIOUS
  <2>1. ASSUME NEW r \in Replicas, NEW last \in {"LPOP", "SADD", "HSET"},
               PullThrough(r, last)
        PROVE  Pool!PoolNext
    BY <2>1, PullRelets
  <2>2. ASSUME NEW S, S # {}, S \subseteq inflight, Reclaim(S) PROVE Pool!PoolNext
    BY <2>2, ReclaimLoses
  <2>3. ASSUME NEW r \in Replicas, NEW c \in Chunks, CompleteChunk(r, c)
        PROVE  Pool!PoolNext \/ UNCHANGED Pool!poolVars
    BY <2>3, CompletionFinishes
  <2>4. CASE CleanupJob
    <3>1. Pool!Retire
      BY <2>4 DEF CleanupJob, DeleteKeys, DeleteSetsAndHashes, Pool!Retire, TaskState, TaskTries
    <3> QED
      BY <3>1 DEF Pool!PoolNext
  <2>5. ASSUME UNCHANGED <<inflight, completed, failed, retry_count, meta>>
        PROVE  UNCHANGED Pool!poolVars
    BY <2>5 DEF Pool!poolVars, TaskState, TaskTries
  <2>6. \/ \E r \in Replicas, last \in {"LPOP", "SADD", "HSET"} : PullThrough(r, last)
        \/ \E S \in SUBSET inflight : S # {} /\ Reclaim(S)
        \/ \E r \in Replicas, c \in Chunks : CompleteChunk(r, c)
        \/ CleanupJob
        \/ UNCHANGED <<inflight, completed, failed, retry_count, meta>>
    BY DEF Next, vars, PullChunk, PullNothing, PullInterrupted, ReclaimExpiredChunks,
           ForceReclaim, RenewLease, LeaseExpires, Expired, OwnedBy
  <2> QED
    BY <2>1, <2>2, <2>3, <2>4, <2>5, <2>6
<1> QED
  BY <1>1, <1>2, Invariance, PTL DEF Spec, ImplementsTaskPool, Pool!PoolSpec
===============================================================================
