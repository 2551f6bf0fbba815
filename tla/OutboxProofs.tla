------------------------------ MODULE OutboxProofs ------------------------------
(***************************************************************************)
(* What Outbox and Heartbeats, the two ways in which Koi is told, promise, *)
(* for every set of events and replicas and every bound.                   *)
(*                                                                         *)
(* The outbox: the invariant says where the publisher stands: the rows it  *)
(* has claimed and not finished are the first that are due, every due row  *)
(* is pending and due once, and each event has a budget of deliveries, one *)
(* that every event starts with and one for each fault.                    *)
(*                                                                         *)
(* The heartbeats: a thread finds no entry but that of its own attempt: a  *)
(* stop waits until the thread has begun to post or has ended, and sets    *)
(* the event that a posting thread waits for next.  So only the thread of  *)
(* an attempt can be late with a beat of it, and only with the one that it *)
(* was posting.                                                            *)
(***************************************************************************)
EXTENDS Outbox, Heartbeats, SequenceTheorems, TLAPS

\* Every row that is due is pending, and due once.
DueOK == /\ \A i \in 1 .. Len(due) : rows[due[i]] = "pending"
         /\ \A i, j \in 1 .. Len(due) : due[i] = due[j] => i = j

\* The claimed rows are the first that are due.
BatchOK == /\ thread \/ batch = <<>>
           /\ batch = <<>> => answer = "none"
           /\ Len(batch) <= Len(due)
           /\ \A i \in 1 .. Len(batch) : batch[i] = due[i]
           /\ server = "down" => ~ thread

\* Koi has processed the post of k, and the row does not say so yet.
Marking(k) == thread /\ answer = "accepted" /\ Head(batch) = k

\* What was delivered, or is about to be marked, has been processed.
HeardOK == \A k \in Keys :
              /\ rows[k] = "delivered" \/ Marking(k) => got[k] > 0
              /\ k \in stored => rows[k] = "pending" \/ got[k] > 0

\* The deliveries an event has had, and the one it will get unless it was delivered.
Cost(k) == got[k] + (IF rows[k] = "delivered" THEN 0 ELSE 1)

\* After stop() a publisher that still runs may spend one delivery that nothing records.
Budget(k) == IF Marking(k)
             THEN (IF server = "up" THEN got[k] ELSE Cost(k)) <= 1 + faults
             ELSE Cost(k) <= (IF thread /\ server # "up" THEN faults ELSE 1 + faults)

BudgetOK == \A k \in Keys : Budget(k)

IInv == TypeOK /\ DueOK /\ BatchOK /\ HeardOK /\ BudgetOK

LEMMA InitInv == Init => IInv
  BY DEF Init, IInv, TypeOK, DueOK, BatchOK, HeardOK, BudgetOK, Budget, Cost, Marking

\* The first of the claimed rows is the first that is due, and pending.
LEMMA HeadClaimed ==
  ASSUME TypeOK, DueOK, BatchOK, batch # <<>>
  PROVE  /\ due # <<>> /\ Len(due) >= 1 /\ Len(batch) >= 1
         /\ Head(batch) \in Keys /\ Head(batch) = Head(due) /\ Head(due) = due[1]
         /\ rows[Head(batch)] = "pending"
<1>1. batch \in Seq(Keys) /\ due \in Seq(Keys) /\ Len(batch) \in Nat /\ Len(due) \in Nat
  BY LenProperties DEF TypeOK
<1>2. Len(batch) >= 1
  BY <1>1, EmptySeq
<1>3. Len(due) >= 1
  BY <1>1, <1>2 DEF BatchOK
<1>4. Head(batch) = batch[1] /\ Head(due) = due[1] /\ batch[1] = due[1]
  BY <1>1, <1>2, <1>3 DEF BatchOK
<1>5. batch[1] \in Keys /\ rows[due[1]] = "pending"
  BY <1>1, <1>2, <1>3, ElementOfSeq DEF DueOK
<1> QED
  BY <1>1, <1>2, <1>3, <1>4, <1>5, EmptySeq

\* What a post leaves behind, whatever Koi's state is.
LEMMA PostDoes ==
  ASSUME Post
  PROVE  /\ thread /\ batch # <<>> /\ answer = "none"
         /\ \/ /\ got' = [got EXCEPT ![Head(batch)] = @ + 1]
               /\ \/ answer' = "accepted" /\ faults' = faults
                  \/ answer' = "failed" /\ faults' = faults + 1
            \/ answer' = "failed" /\ got' = got /\ faults' = faults
         /\ UNCHANGED <<server, rows, due, thread, batch, koi, reports, stored, dropped, outages>>
  BY DEF Post, Fault

LEMMA TypeKept == TypeOK /\ DueOK /\ BatchOK /\ [Next]_vars => TypeOK'
<1> SUFFICES ASSUME TypeOK, DueOK, BatchOK, [Next]_vars PROVE TypeOK'
  OBVIOUS
<1> USE OutboxAssumption
<1>1. ASSUME NEW k \in Keys, Report(k) PROVE TypeOK'
  <2>1. /\ rows' \in [Keys -> {"absent", "pending", "delivered"}]
        /\ due' \in Seq(Keys)
        /\ stored' \subseteq Keys /\ dropped' \subseteq Keys
    <3>1. Append(due, k) \in Seq(Keys)
      BY AppendProperties DEF TypeOK
    <3>2. CASE Enqueue(k)
      BY <3>1, <3>2 DEF TypeOK, Enqueue
    <3>3. CASE PostDirectly(k)
      <4>1. UNCHANGED <<rows, due, stored>> /\ (dropped' = dropped \/ dropped' = dropped \cup {k})
        BY <3>3 DEF PostDirectly
      <4> QED
        BY <4>1 DEF TypeOK
    <3> QED
      BY <1>1, <3>2, <3>3 DEF Report
  <2>2. /\ reports' \in [Keys -> Nat]
        /\ UNCHANGED <<server, thread, batch, answer, koi, got, faults, outages>>
    BY <1>1 DEF TypeOK, Report, publisher
  <2> QED
    BY <2>1, <2>2 DEF TypeOK
<1>2. ASSUME NEW k \in Keys, ComesDue(k) PROVE TypeOK'
  BY <1>2, AppendProperties DEF TypeOK, ComesDue, publisher
<1>3. CASE ClaimBatch
  <2>1. batch' \in Seq(Keys)
    <3> DEFINE n == IF Len(due) < BatchSize THEN Len(due) ELSE BatchSize
    <3>1. due \in Seq(Keys) /\ Len(due) \in Nat /\ n \in Nat /\ n <= Len(due)
      BY LenProperties DEF TypeOK
    <3>2. SubSeq(due, 1, n) \in Seq(Keys)
      BY <3>1, SubSeqProperties
    <3> QED
      BY <1>3, <3>2 DEF ClaimBatch
  <2> QED
    BY <1>3, <2>1 DEF TypeOK, ClaimBatch
<1>4. CASE Post
  <2>1. batch # <<>>
    BY <1>4 DEF Post
  <2>2. Head(batch) \in Keys
    BY <2>1, HeadClaimed
  <2>3. got' \in [Keys -> Nat] /\ faults' \in Nat
    BY <1>4, <2>2 DEF TypeOK, Post, Fault
  <2>4. /\ answer' \in {"none", "accepted", "failed"}
        /\ UNCHANGED <<server, rows, due, thread, batch, koi, reports, stored, dropped, outages>>
    BY <1>4 DEF Post
  <2> QED
    BY <2>3, <2>4 DEF TypeOK
<1>5. CASE Mark
  <2>1. batch # <<>>
    BY <1>5 DEF Mark, BatchOK
  <2>2. Tail(batch) \in Seq(Keys) /\ Tail(due) \in Seq(Keys)
    BY <2>1, HeadClaimed, HeadTailProperties DEF TypeOK
  <2> QED
    <3>1. Head(batch) \in Keys
      BY <2>1, HeadClaimed
    <3>2. rows' \in [Keys -> {"absent", "pending", "delivered"}]
      BY <1>5, <3>1 DEF TypeOK, Mark
    <3>3. /\ due' = Tail(due) /\ batch' = Tail(batch) /\ answer' = "none"
          /\ UNCHANGED <<server, thread, koi, got, reports, stored, dropped, faults, outages>>
      BY <1>5 DEF Mark
    <3> QED
      BY <2>2, <3>2, <3>3 DEF TypeOK
<1>6. CASE MarkRaises \/ PublisherEnds
  <2>1. /\ thread' \in BOOLEAN /\ batch' \in Seq(Keys)
        /\ answer' \in {"none", "accepted", "failed"}
    BY <1>6, EmptySeq DEF TypeOK, MarkRaises, PublisherEnds
  <2>2. UNCHANGED <<server, rows, due, koi, got, reports, stored, dropped, faults, outages>>
    BY <1>6 DEF MarkRaises, PublisherEnds
  <2> QED
    BY <2>1, <2>2 DEF TypeOK
<1>7. CASE Prune
  BY <1>7 DEF TypeOK, Prune, Fault, publisher
<1>8. CASE KoiDown \/ KoiUp
  <2>1. koi' \in BOOLEAN
    BY <1>8 DEF KoiDown, KoiUp
  <2>2. outages' \in Nat
    BY <1>8 DEF TypeOK, KoiDown, KoiUp
  <2>3. /\ UNCHANGED <<server, rows, due, thread, batch, answer, got, reports, stored, dropped,
                       faults>>
    BY <1>8 DEF KoiDown, KoiUp, publisher
  <2> QED
    BY <2>1, <2>2, <2>3 DEF TypeOK
<1>9. CASE Stop \/ Crash \/ Lifecycle
  <2>1. /\ thread' \in BOOLEAN /\ batch' \in Seq(Keys)
        /\ answer' \in {"none", "accepted", "failed"}
    BY <1>9, EmptySeq
    DEF TypeOK, Stop, Crash, Lifecycle, Close, Exit, Restart, Gone, publisher
  <2>2. faults' \in Nat
    BY <1>9 DEF TypeOK, Stop, Crash, Lifecycle, Close, Exit, Restart, Fault
  <2>3. /\ server' \in {"up", "stopping", "closed", "down"}
        /\ UNCHANGED <<rows, due, koi, got, reports, stored, dropped, outages>>
    BY <1>9 DEF Stop, Crash, Lifecycle, Close, Exit, Restart
  <2> QED
    BY <2>1, <2>2, <2>3 DEF TypeOK
<1>10. CASE UNCHANGED vars
  BY <1>10 DEF TypeOK, vars, publisher
<1> QED
  BY <1>1, <1>2, <1>3, <1>4, <1>5, <1>6, <1>7, <1>8, <1>9, <1>10 DEF Next, Publisher

\* A row that becomes due comes after those that are.
LEMMA AppendKept ==
  ASSUME TypeOK, DueOK, BatchOK, NEW k \in Keys, rows' \in [Keys -> {"absent", "pending", "delivered"}],
         rows'[k] = "pending", \A x \in Keys \ {k} : rows'[x] = rows[x],
         \A i \in 1 .. Len(due) : due[i] # k,
         due' = Append(due, k), UNCHANGED <<server, thread, batch, answer>>
  PROVE  DueOK' /\ BatchOK'
<1>1. due \in Seq(Keys) /\ Len(due) \in Nat /\ batch \in Seq(Keys) /\ Len(batch) \in Nat
  BY LenProperties DEF TypeOK
<1>2. /\ due' \in Seq(Keys) /\ Len(due') = Len(due) + 1
      /\ \A i \in 1 .. Len(due) : due'[i] = due[i]
      /\ due'[Len(due) + 1] = k
  BY <1>1, AppendProperties
<1>3. \A i \in 1 .. Len(due) : due[i] \in Keys
  BY <1>1, ElementOfSeq
<1>4. \A i \in 1 .. Len(due') : i \in 1 .. Len(due) \/ i = Len(due) + 1
  BY <1>1, <1>2
<1>5. DueOK'
  <2>1. \A i \in 1 .. Len(due') : rows'[due'[i]] = "pending"
    BY <1>2, <1>3, <1>4 DEF DueOK
  <2>2. ASSUME NEW i \in 1 .. Len(due'), NEW j \in 1 .. Len(due'), due'[i] = due'[j]
        PROVE  i = j
    BY <2>2, <1>2, <1>4 DEF DueOK
  <2> QED
    BY <2>1, <2>2 DEF DueOK
<1>6. BatchOK'
  BY <1>1, <1>2 DEF BatchOK
<1> QED
  BY <1>5, <1>6

LEMMA QueueKept == TypeOK /\ DueOK /\ BatchOK /\ HeardOK /\ [Next]_vars => DueOK' /\ BatchOK'
<1> SUFFICES ASSUME TypeOK, DueOK, BatchOK, HeardOK, [Next]_vars PROVE DueOK' /\ BatchOK'
  OBVIOUS
<1> USE OutboxAssumption
<1>d. due \in Seq(Keys) /\ Len(due) \in Nat /\ batch \in Seq(Keys) /\ Len(batch) \in Nat
  BY LenProperties DEF TypeOK
<1>e. \A i \in 1 .. Len(due) : due[i] \in Keys
  BY <1>d, ElementOfSeq
<1>1. ASSUME NEW k \in Keys, Report(k) PROVE DueOK' /\ BatchOK'
  <2>1. CASE rows' = [rows EXCEPT ![k] = "pending"] /\ due' = Append(due, k) /\ rows[k] = "absent"
    <3>1. \A i \in 1 .. Len(due) : due[i] # k
      BY <2>1 DEF DueOK
    <3>2. UNCHANGED <<server, thread, batch, answer>>
      BY <1>1 DEF Report, publisher
    <3>3. /\ rows'[k] = "pending" /\ \A x \in Keys \ {k} : rows'[x] = rows[x]
          /\ rows' \in [Keys -> {"absent", "pending", "delivered"}]
      BY <2>1 DEF TypeOK
    <3> QED
      BY <2>1, <3>1, <3>2, <3>3, AppendKept
  <2>2. CASE UNCHANGED <<rows, due>>
    BY <1>1, <2>2 DEF Report, publisher, DueOK, BatchOK
  <2> QED
    BY <1>1, <2>1, <2>2 DEF Report, Enqueue, PostDirectly
<1>2. ASSUME NEW k \in Keys, ComesDue(k) PROVE DueOK' /\ BatchOK'
  <2>1. /\ rows' = rows /\ rows[k] = "pending" /\ due' = Append(due, k)
        /\ \A i \in 1 .. Len(due) : due[i] # k
        /\ UNCHANGED <<server, thread, batch, answer>>
    BY <1>2 DEF ComesDue, publisher
  <2>2. rows' \in [Keys -> {"absent", "pending", "delivered"}]
    BY <2>1 DEF TypeOK
  <2> QED
    BY <2>1, <2>2, AppendKept
<1>3. CASE ClaimBatch
  <2> DEFINE n == IF Len(due) < BatchSize THEN Len(due) ELSE BatchSize
  <2>1. n \in Nat /\ n <= Len(due) /\ batch' = SubSeq(due, 1, n)
    BY <1>3, <1>d DEF ClaimBatch
  <2>2. Len(batch') = n /\ \A i \in 1 .. n : batch'[i] = due[i]
    <3>1. /\ Len(SubSeq(due, 1, n)) = IF 1 <= n THEN n - 1 + 1 ELSE 0
          /\ \A i \in 1 .. n - 1 + 1 : SubSeq(due, 1, n)[i] = due[1 + i - 1]
      BY <1>d, <2>1, SubSeqProperties
    <3> HIDE DEF n
    <3>2. \A i \in 1 .. n : SubSeq(due, 1, n)[i] = due[i]
      BY <2>1, <3>1
    <3> QED
      BY <2>1, <3>1, <3>2
  <2>3. batch' = <<>> => answer' = "none"
    BY <1>3 DEF ClaimBatch, BatchOK
  <2> HIDE DEF n
  <2> QED
    BY <1>3, <1>d, <2>1, <2>2, <2>3 DEF ClaimBatch, DueOK, BatchOK
<1>4. CASE Post
  BY <1>4 DEF Post, DueOK, BatchOK
<1>5. CASE Mark
  <2>1. batch # <<>> /\ Len(batch) >= 1 /\ Len(due) >= 1
    BY <1>5, HeadClaimed DEF Mark, BatchOK
  <2>2. /\ Len(due') = Len(due) - 1 /\ Len(batch') = Len(batch) - 1
        /\ \A i \in 1 .. Len(due') : due'[i] = due[i + 1]
        /\ \A i \in 1 .. Len(batch') : batch'[i] = batch[i + 1]
    <3>1. due' = Tail(due) /\ batch' = Tail(batch) /\ due # <<>>
      BY <1>5, <2>1, HeadClaimed DEF Mark
    <3> QED
      BY <3>1, <2>1, <1>d, HeadTailProperties
  <2>3. \A i \in 1 .. Len(due') : i + 1 \in 1 .. Len(due)
    BY <1>d, <2>2
  <2>4. \A x \in Keys \ {due[1]} : rows'[x] = rows[x]
    BY <1>5, <2>1, HeadClaimed DEF Mark, TypeOK
  <2>5. \A i \in 1 .. Len(due') : due'[i] \in Keys \ {due[1]}
    BY <1>d, <1>e, <2>1, <2>2, <2>3 DEF DueOK
  <2>6. DueOK'
    <3>1. \A i \in 1 .. Len(due') : rows'[due'[i]] = "pending"
      BY <2>2, <2>3, <2>4, <2>5 DEF DueOK
    <3>2. ASSUME NEW i \in 1 .. Len(due'), NEW j \in 1 .. Len(due'), due'[i] = due'[j]
          PROVE  i = j
      <4>1. i + 1 = j + 1
        BY <3>2, <2>2, <2>3 DEF DueOK
      <4> QED
        BY <4>1, <1>d, <2>2
    <3> QED
      BY <3>1, <3>2 DEF DueOK
  <2>7. BatchOK'
    <3>1. \A i \in 1 .. Len(batch') : i + 1 \in 1 .. Len(batch) /\ i \in 1 .. Len(due')
      BY <1>d, <2>1, <2>2 DEF BatchOK
    <3>2. \A i \in 1 .. Len(batch') : batch'[i] = due'[i]
      BY <3>1, <2>2 DEF BatchOK
    <3>3. Len(batch') <= Len(due')
      BY <1>d, <2>2 DEF BatchOK
    <3> QED
      BY <1>5, <3>2, <3>3 DEF Mark, BatchOK
  <2> QED
    BY <2>6, <2>7
<1>6. CASE MarkRaises \/ PublisherEnds
  BY <1>6, <1>d, EmptySeq DEF MarkRaises, PublisherEnds, DueOK, BatchOK
<1>7. CASE Prune
  <2>1. PICK k \in Keys : rows[k] = "delivered" /\ rows' = [rows EXCEPT ![k] = "absent"]
    BY <1>7 DEF Prune
  <2>2. \A i \in 1 .. Len(due) : rows'[due[i]] = rows[due[i]]
    BY <2>1, <1>e DEF DueOK, TypeOK
  <2> QED
    BY <1>7, <2>2 DEF Prune, publisher, DueOK, BatchOK
<1>8. CASE KoiDown \/ KoiUp
  BY <1>8 DEF KoiDown, KoiUp, publisher, DueOK, BatchOK
<1>9. CASE Stop \/ Crash \/ Lifecycle
  BY <1>9, <1>d, EmptySeq
  DEF Stop, Crash, Lifecycle, Close, Exit, Restart, Gone, publisher, DueOK, BatchOK
<1>10. CASE UNCHANGED vars
  BY <1>10 DEF vars, publisher, DueOK, BatchOK
<1> QED
  BY <1>1, <1>2, <1>3, <1>4, <1>5, <1>6, <1>7, <1>8, <1>9, <1>10 DEF Next, Publisher

LEMMA HeardKept == TypeOK /\ DueOK /\ BatchOK /\ HeardOK /\ [Next]_vars => HeardOK'
<1> SUFFICES ASSUME TypeOK, DueOK, BatchOK, HeardOK, [Next]_vars, NEW k \in Keys
             PROVE  /\ rows'[k] = "delivered" \/ Marking(k)' => got'[k] > 0
                    /\ k \in stored' => rows'[k] = "pending" \/ got'[k] > 0
  BY DEF HeardOK
<1> DEFINE Goal == /\ rows'[k] = "delivered" \/ Marking(k)' => got'[k] > 0
                   /\ k \in stored' => rows'[k] = "pending" \/ got'[k] > 0
<1>0. got[k] \in Nat /\ rows[k] \in {"absent", "pending", "delivered"}
  BY DEF TypeOK
<1>1. ASSUME NEW x \in Keys, Report(x) PROVE Goal
  BY <1>0, <1>1 DEF TypeOK, HeardOK, Report, Enqueue, PostDirectly, publisher, Marking
<1>2. ASSUME NEW x \in Keys, ComesDue(x) PROVE Goal
  BY <1>2 DEF HeardOK, ComesDue, publisher, Marking
<1>3. CASE ClaimBatch
  BY <1>3 DEF HeardOK, ClaimBatch, BatchOK, Marking
<1>4. CASE Post
  <2>1. batch # <<>>
    BY <1>4 DEF Post
  <2>2. Head(batch) \in Keys /\ rows[Head(batch)] = "pending"
    BY <2>1, HeadClaimed
  <2> QED
    <3>1. CASE got' = [got EXCEPT ![Head(batch)] = @ + 1]
      <4>1. got'[k] = (IF k = Head(batch) THEN got[k] + 1 ELSE got[k]) /\ got[k] \in Nat
        BY <3>1, <2>2 DEF TypeOK
      <4>2. batch' = batch /\ rows' = rows /\ stored' = stored /\ answer = "none"
        BY <1>4, PostDoes
      <4>3. /\ rows[k] = "delivered" => got[k] > 0
            /\ k \in stored => rows[k] = "pending" \/ got[k] > 0
        BY DEF HeardOK
      <4> QED
        BY <4>1, <4>2, <4>3 DEF Marking
    <3>2. CASE answer' = "failed" /\ got' = got
      BY <1>4, <3>2, PostDoes DEF HeardOK, Marking
    <3> QED
      BY <1>4, <3>1, <3>2, PostDoes
<1>5. CASE Mark
  <2>1. batch # <<>>
    BY <1>5 DEF Mark, BatchOK
  <2> QED
    <3>1. Head(batch) \in Keys /\ rows[Head(batch)] = "pending"
      BY <2>1, HeadClaimed
    <3> QED
      BY <1>0, <1>5, <3>1 DEF TypeOK, HeardOK, Mark, Marking
<1>6. CASE MarkRaises \/ PublisherEnds
  BY <1>6 DEF HeardOK, MarkRaises, PublisherEnds, Marking
<1>7. CASE Prune
  BY <1>0, <1>7 DEF TypeOK, HeardOK, Prune, publisher, Marking
<1>8. CASE KoiDown \/ KoiUp
  BY <1>8 DEF HeardOK, KoiDown, KoiUp, publisher, Marking
<1>9. CASE Stop \/ Crash \/ Lifecycle
  BY <1>9 DEF HeardOK, BatchOK, Stop, Crash, Lifecycle, Close, Exit, Restart, Gone, publisher, Marking
<1>10. CASE UNCHANGED vars
  BY <1>10 DEF HeardOK, vars, publisher, Marking
<1> QED
  BY <1>1, <1>2, <1>3, <1>4, <1>5, <1>6, <1>7, <1>8, <1>9, <1>10 DEF Next, Publisher

LEMMA BudgetKept == TypeOK /\ DueOK /\ BatchOK /\ BudgetOK /\ [Next]_vars => BudgetOK'
<1> SUFFICES ASSUME TypeOK, DueOK, BatchOK, BudgetOK, [Next]_vars, NEW k \in Keys
             PROVE  Budget(k)'
  BY DEF BudgetOK
<1>0. /\ got[k] \in Nat /\ rows[k] \in {"absent", "pending", "delivered"}
      /\ faults \in Nat /\ Budget(k) /\ thread \in BOOLEAN
  BY DEF TypeOK, BudgetOK
<1>1. ASSUME NEW x \in Keys, Report(x) PROVE Budget(k)'
  BY <1>0, <1>1 DEF TypeOK, Report, Enqueue, PostDirectly, publisher, Marking, Budget, Cost
<1>2. ASSUME NEW x \in Keys, ComesDue(x) PROVE Budget(k)'
  BY <1>0, <1>2 DEF ComesDue, publisher, Marking, Budget, Cost
<1>3. CASE ClaimBatch
  BY <1>0, <1>3 DEF ClaimBatch, BatchOK, Marking, Budget, Cost
<1>4. CASE Post
  <2>1. batch # <<>> /\ ~ Marking(k)
    BY <1>4 DEF Post, Marking
  <2>h. Head(batch) \in Keys /\ rows[Head(batch)] = "pending"
    BY <2>1, HeadClaimed
  <2>2. /\ UNCHANGED <<server, rows, thread, batch>> /\ answer = "none" /\ thread
        /\ faults' \in Nat /\ faults' >= faults
    BY <1>0, <1>4, PostDoes
  <2>3. CASE answer' = "failed" /\ got' = got /\ faults' = faults
    BY <1>0, <2>1, <2>2, <2>3 DEF Marking, Budget, Cost
  <2>4. CASE got' = [got EXCEPT ![Head(batch)] = @ + 1]
    <3>1. got'[k] = (IF k = Head(batch) THEN got[k] + 1 ELSE got[k])
      BY <2>4, <2>h DEF TypeOK
    <3>2. \/ answer' = "accepted" /\ faults' = faults
          \/ answer' = "failed" /\ faults' = faults + 1
          \/ got' = got
      BY <1>4, PostDoes
    <3>3. got' # got
      BY <2>4, <2>h DEF TypeOK
    <3>4. Cost(k) <= (IF server # "up" THEN faults ELSE 1 + faults)
      BY <1>0, <2>1, <2>2 DEF Budget
    <3>5. Cost(k)' = Cost(k) + (IF k = Head(batch) THEN 1 ELSE 0)
      BY <1>0, <2>2, <3>1 DEF Cost
    <3>6. k = Head(batch) => Cost(k) = got[k] + 1
      BY <2>h DEF Cost
    <3>7. Marking(k)' <=> answer' = "accepted" /\ k = Head(batch)
      BY <2>2 DEF Marking
    <3>8. Cost(k) \in Nat
      BY <1>0 DEF Cost
    <3> QED
      BY <1>0, <2>2, <3>1, <3>2, <3>3, <3>4, <3>5, <3>6, <3>7, <3>8 DEF Budget
  <2> QED
    BY <1>4, <2>3, <2>4, PostDoes
<1>5. CASE Mark
  <2>1. batch # <<>> /\ ~ Marking(k)'
    BY <1>5 DEF Mark, BatchOK, Marking
  <2>h. Head(batch) \in Keys /\ rows[Head(batch)] = "pending"
    BY <2>1, HeadClaimed
  <2>2. CASE Head(batch) = k
    BY <1>0, <1>5, <2>1, <2>2, <2>h DEF TypeOK, Mark, DatabaseOpen, Marking, Budget, Cost
  <2>3. CASE Head(batch) # k
    BY <1>0, <1>5, <2>1, <2>3, <2>h DEF TypeOK, Mark, Marking, Budget, Cost
  <2> QED
    BY <2>2, <2>3
<1>6. CASE MarkRaises \/ PublisherEnds
  BY <1>0, <1>6 DEF MarkRaises, PublisherEnds, DatabaseOpen, BatchOK, Marking, Budget, Cost
<1>7. CASE Prune
  BY <1>0, <1>7 DEF TypeOK, Prune, Fault, publisher, BatchOK, Marking, Budget, Cost
<1>8. CASE KoiDown \/ KoiUp
  BY <1>0, <1>8 DEF KoiDown, KoiUp, publisher, Marking, Budget, Cost
<1>9. CASE Stop \/ Crash
  BY <1>0, <1>9 DEF Stop, Crash, Gone, Fault, publisher, Marking, Budget, Cost
<1>10. CASE Lifecycle
  BY <1>0, <1>10 DEF Lifecycle, Close, Exit, Restart, Gone, BatchOK, publisher, Marking, Budget, Cost
<1>11. CASE UNCHANGED vars
  BY <1>0, <1>11 DEF vars, publisher, Marking, Budget, Cost
<1> QED
  BY <1>1, <1>2, <1>3, <1>4, <1>5, <1>6, <1>7, <1>8, <1>9, <1>10, <1>11 DEF Next, Publisher

LEMMA InvKept == Spec => []IInv
<1>1. IInv /\ [Next]_vars => IInv'
  BY TypeKept, QueueKept, HeardKept, BudgetKept DEF IInv
<1> QED
  BY InitInv, <1>1, PTL DEF Spec

\* No write of the outbox, its publisher or a restart leaves the table ill-formed.
THEOREM TypeCorrect == Spec => []TypeOK
<1>1. IInv => TypeOK
  BY DEF IInv
<1> QED
  BY <1>1, InvKept, PTL

\* An enqueued event stays in the table until Koi has processed it, however often the
\* server crashes or shuts down and Koi goes away.
THEOREM NothingIsForgotten == Spec => []NothingForgotten
<1>1. IInv => NothingForgotten
  BY DEF IInv, TypeOK, HeardOK, NothingForgotten
<1> QED
  BY <1>1, InvKept, PTL

\* Koi processes an event once, and at most once more for each fault.
THEOREM DuplicatesAreCaused == Spec => []DuplicatesHaveCauses
<1>1. IInv => DuplicatesHaveCauses
  <2> SUFFICES ASSUME IInv, NEW k \in Keys PROVE got[k] <= 1 + faults
    BY DEF DuplicatesHaveCauses
  <2>1. got[k] \in Nat /\ faults \in Nat /\ Budget(k)
    BY DEF IInv, TypeOK, BudgetOK
  <2> QED
    BY <2>1 DEF Budget, Cost
<1> QED
  BY <1>1, InvKept, PTL

-----------------------------------------------------------------------------
(* Heartbeats.                                                             *)

\* The registry holds the entry of the attempt in hand, if any, and its event is not set.
EntryOK(r) ==
    /\ entry[r].attempt # 0 =>
           /\ entry[r].attempt = tries[r] /\ tries[r] \notin stopped[r]
           /\ step[r] \in {"launching", "provisioning", "registering", "monitoring"}
    /\ step[r] \in {"launching", "provisioning"} => entry[r].attempt = tries[r]
    /\ step[r] = "stopping" => tries[r] \in stopped[r]

\* What the runner has reported: nothing before its launch has returned.
ModelOK(r) ==
    /\ model[r] # "off" => step[r] \in {"registering", "monitoring", "ended"}
    /\ model[r] = "loading" => entry[r].attempt = tries[r]
    /\ model[r] = "notifying" => tries[r] \in stopped[r]

\* Attempts that were not begun have no thread, and those before the current one are
\* stopped.
AttemptsOK(r) ==
    \A a \in AttemptNo :
        /\ a > tries[r] \/ (a = tries[r] /\ step[r] = "trying") =>
               beater[r][a] = "none" /\ a \notin stopped[r] /\ a \notin over[r]
        /\ a < tries[r] => a \in stopped[r] /\ beater[r][a] # "starting"

\* A thread has found the entry of its own attempt.
ThreadsOK(r) ==
    \A a \in AttemptNo : beater[r][a] \in {"posting", "waiting"} => found[r][a] = a

\* Koi is told of an attempt after its heartbeat was stopped, and the late beat was the one
\* that its thread was posting.
LateOK(r) ==
    \A a \in AttemptNo :
        /\ a \in over[r] => a \in stopped[r] /\ beater[r][a] # "starting"
        /\ late[r][a] <= 1
        /\ late[r][a] = 1 => a \in over[r] /\ beater[r][a] # "posting"

BeatInv == /\ HeartbeatsTypeOK
        /\ \A r \in Launching : EntryOK(r) /\ ModelOK(r) /\ AttemptsOK(r) /\ ThreadsOK(r)
                                /\ LateOK(r)

LEMMA InitBeatInv == HeartbeatsInit => BeatInv
<1> SUFFICES ASSUME HeartbeatsInit PROVE BeatInv
  OBVIOUS
<1> USE HeartbeatsAssumption DEF HeartbeatsInit, HeartbeatsInitOf, NoEntry, AttemptNo, Alive
<1>1. HeartbeatsTypeOK
  BY DEF HeartbeatsTypeOK
<1>2. ASSUME NEW r \in Launching
      PROVE  EntryOK(r) /\ ModelOK(r) /\ AttemptsOK(r) /\ ThreadsOK(r) /\ LateOK(r)
  BY DEF EntryOK, ModelOK, AttemptsOK, ThreadsOK, LateOK
<1> QED
  BY <1>1, <1>2 DEF BeatInv

-----------------------------------------------------------------------------
(* A step is one replica's: it is enough to look at that replica.          *)

\* The part of HeartbeatsTypeOK that is about one replica.
TypeOfOne(r) ==
    /\ step[r] \in {"trying", "launching", "provisioning", "registering", "monitoring",
                    "stopping", "ended"}
    /\ tries[r] \in AttemptNo
    /\ model[r] \in {"off", "loading", "notifying", "ready", "unnoticed", "gone"}
    /\ entry[r] \in [attempt : 0..Attempts, phase : BeatPhases \cup {"none"}]
    /\ stopped[r] \in SUBSET AttemptNo
    /\ beater[r] \in [AttemptNo -> Alive \cup {"none", "ended"}]
    /\ found[r] \in [AttemptNo -> 0..Attempts]
    /\ over[r] \in SUBSET AttemptNo
    /\ late[r] \in [AttemptNo -> 0..2]

\* A step changes nothing but what belongs to r.
OnlyOf(r) ==
    /\ step' = [step EXCEPT ![r] = step'[r]]
    /\ tries' = [tries EXCEPT ![r] = tries'[r]]
    /\ model' = [model EXCEPT ![r] = model'[r]]
    /\ entry' = [entry EXCEPT ![r] = entry'[r]]
    /\ stopped' = [stopped EXCEPT ![r] = stopped'[r]]
    /\ beater' = [beater EXCEPT ![r] = beater'[r]]
    /\ found' = [found EXCEPT ![r] = found'[r]]
    /\ over' = [over EXCEPT ![r] = over'[r]]
    /\ late' = [late EXCEPT ![r] = late'[r]]

InvOf(r) == TypeOfOne(r) /\ EntryOK(r) /\ ModelOK(r) /\ AttemptsOK(r) /\ ThreadsOK(r) /\ LateOK(r)

LEMMA OfOne == ASSUME BeatInv, NEW r \in Launching PROVE InvOf(r)
  BY DEF BeatInv, InvOf, HeartbeatsTypeOK, TypeOfOne

LEMMA OneReplica ==
  ASSUME BeatInv, NEW r \in Launching, OnlyOf(r), slow' \in 0..MaxSlow, InvOf(r)'
  PROVE  BeatInv'
<1>1. HeartbeatsTypeOK'
  BY DEF BeatInv, HeartbeatsTypeOK, OnlyOf, InvOf, TypeOfOne
<1>2. ASSUME NEW q \in Launching, q # r
      PROVE  EntryOK(q)' /\ ModelOK(q)' /\ AttemptsOK(q)' /\ ThreadsOK(q)' /\ LateOK(q)'
  <2>1. /\ step'[q] = step[q] /\ tries'[q] = tries[q] /\ model'[q] = model[q]
        /\ entry'[q] = entry[q] /\ stopped'[q] = stopped[q] /\ beater'[q] = beater[q]
        /\ found'[q] = found[q] /\ over'[q] = over[q] /\ late'[q] = late[q]
    BY <1>2 DEF BeatInv, HeartbeatsTypeOK, OnlyOf
  <2> QED
    BY <2>1 DEF BeatInv, EntryOK, ModelOK, AttemptsOK, ThreadsOK, LateOK
<1> QED
  BY <1>1, <1>2 DEF BeatInv, InvOf

LEMMA StartHeartbeatKeeps ==
  ASSUME BeatInv, NEW r \in Launching, StartHeartbeat(r)
  PROVE  BeatInv'
<1> USE HeartbeatsAssumption DEF AttemptNo
<1>1. HeartbeatsTypeOK /\ InvOf(r)
  BY OfOne DEF BeatInv
<1>2. OnlyOf(r) /\ slow' \in 0..MaxSlow
  BY <1>1 DEF HeartbeatsTypeOK, OnlyOf, StartHeartbeat
<1>3. TypeOfOne(r)'
  BY <1>1 DEF HeartbeatsTypeOK, InvOf, TypeOfOne, EntryOK, Alive, BeatPhases, StartHeartbeat
<1> USE <1>1 DEF HeartbeatsTypeOK, InvOf, TypeOfOne, Alive
<1>4. EntryOK(r)' /\ ModelOK(r)'
  BY DEF EntryOK, ModelOK, AttemptsOK, StartHeartbeat
<1>5. AttemptsOK(r)'
  BY DEF AttemptsOK, EntryOK, ModelOK, StartHeartbeat
<1>6. ThreadsOK(r)'
  BY DEF ThreadsOK, EntryOK, AttemptsOK, StartHeartbeat
<1>7. LateOK(r)'
  BY DEF LateOK, EntryOK, ModelOK, AttemptsOK, ThreadsOK, StartHeartbeat
<1> HIDE <1>1 DEF HeartbeatsTypeOK, TypeOfOne
<1> QED
  BY <1>2, <1>3, <1>4, <1>5, <1>6, <1>7, OneReplica DEF InvOf

LEMMA ProgressKeeps ==
  ASSUME BeatInv, NEW r \in Launching, Progress(r)
  PROVE  BeatInv'
<1> USE HeartbeatsAssumption DEF AttemptNo
<1>1. HeartbeatsTypeOK /\ InvOf(r)
  BY OfOne DEF BeatInv
<1>2. OnlyOf(r) /\ slow' \in 0..MaxSlow
  BY <1>1 DEF HeartbeatsTypeOK, OnlyOf, Progress, Update
<1>3. TypeOfOne(r)'
  <2>1. entry[r] \in [attempt : 0..Attempts, phase : BeatPhases \cup {"none"}]
    BY <1>1 DEF InvOf, TypeOfOne
  <2>2. \E p \in BeatPhases : entry'[r] = [entry[r] EXCEPT !.phase = IF @ = "none" THEN @ ELSE p]
    BY <1>1 DEF HeartbeatsTypeOK, BeatPhases, Progress, Update
  <2>3. entry'[r] \in [attempt : 0..Attempts, phase : BeatPhases \cup {"none"}]
    BY <2>1, <2>2
  <2> QED
    BY <1>1, <2>3 DEF HeartbeatsTypeOK, InvOf, TypeOfOne, Progress
<1> USE <1>1 DEF HeartbeatsTypeOK, InvOf, TypeOfOne, Alive
<1>4. EntryOK(r)' /\ ModelOK(r)'
  BY DEF EntryOK, ModelOK, AttemptsOK, Progress, Update
<1>5. AttemptsOK(r)'
  BY DEF AttemptsOK, EntryOK, ModelOK, Progress, Update
<1>6. ThreadsOK(r)'
  BY DEF ThreadsOK, EntryOK, AttemptsOK, Progress, Update
<1>7. LateOK(r)'
  BY DEF LateOK, EntryOK, ModelOK, AttemptsOK, ThreadsOK, Progress, Update
<1> HIDE <1>1 DEF HeartbeatsTypeOK, TypeOfOne
<1> QED
  BY <1>2, <1>3, <1>4, <1>5, <1>6, <1>7, OneReplica DEF InvOf

LEMMA LaunchRaisesKeeps ==
  ASSUME BeatInv, NEW r \in Launching, LaunchRaises(r)
  PROVE  BeatInv'
<1> USE HeartbeatsAssumption DEF AttemptNo
<1>1. HeartbeatsTypeOK /\ InvOf(r)
  BY OfOne DEF BeatInv
<1>2. OnlyOf(r) /\ slow' \in 0..MaxSlow
  BY <1>1 DEF HeartbeatsTypeOK, OnlyOf, LaunchRaises, PopAndSet, NoEntry
<1>3. TypeOfOne(r)'
  BY <1>1 DEF HeartbeatsTypeOK, InvOf, TypeOfOne, EntryOK, Alive, BeatPhases, LaunchRaises, PopAndSet, NoEntry
<1> USE <1>1 DEF HeartbeatsTypeOK, InvOf, TypeOfOne, Alive
<1>4. EntryOK(r)' /\ ModelOK(r)'
  BY DEF EntryOK, ModelOK, AttemptsOK, LaunchRaises, PopAndSet, NoEntry
<1>5. AttemptsOK(r)'
  BY DEF AttemptsOK, EntryOK, ModelOK, LaunchRaises, PopAndSet, NoEntry
<1>6. ThreadsOK(r)'
  BY DEF ThreadsOK, EntryOK, AttemptsOK, LaunchRaises, PopAndSet, NoEntry
<1>7. LateOK(r)'
  BY DEF LateOK, EntryOK, ModelOK, AttemptsOK, ThreadsOK, LaunchRaises, PopAndSet, NoEntry
<1> HIDE <1>1 DEF HeartbeatsTypeOK, TypeOfOne
<1> QED
  BY <1>2, <1>3, <1>4, <1>5, <1>6, <1>7, OneReplica DEF InvOf

LEMMA AttemptFailsKeeps ==
  ASSUME BeatInv, NEW r \in Launching, AttemptFails(r)
  PROVE  BeatInv'
<1> USE HeartbeatsAssumption DEF AttemptNo
<1>1. HeartbeatsTypeOK /\ InvOf(r)
  BY OfOne DEF BeatInv
<1>2. OnlyOf(r) /\ slow' \in 0..MaxSlow
  BY <1>1 DEF HeartbeatsTypeOK, OnlyOf, AttemptFails, Joined
<1>3. TypeOfOne(r)'
  BY <1>1 DEF HeartbeatsTypeOK, InvOf, TypeOfOne, EntryOK, Alive, BeatPhases, AttemptFails, Joined
<1> USE <1>1 DEF HeartbeatsTypeOK, InvOf, TypeOfOne, Alive
<1>4. EntryOK(r)' /\ ModelOK(r)'
  BY DEF EntryOK, ModelOK, AttemptsOK, AttemptFails, Joined
<1>5. AttemptsOK(r)'
  BY DEF AttemptsOK, EntryOK, ModelOK, AttemptFails, Joined
<1>6. ThreadsOK(r)'
  BY DEF ThreadsOK, EntryOK, AttemptsOK, AttemptFails, Joined
<1>7. LateOK(r)'
  BY DEF LateOK, EntryOK, ModelOK, AttemptsOK, ThreadsOK, AttemptFails, Joined
<1> HIDE <1>1 DEF HeartbeatsTypeOK, TypeOfOne
<1> QED
  BY <1>2, <1>3, <1>4, <1>5, <1>6, <1>7, OneReplica DEF InvOf

LEMMA MonitorEndsKeeps ==
  ASSUME BeatInv, NEW r \in Launching, MonitorEnds(r)
  PROVE  BeatInv'
<1> USE HeartbeatsAssumption DEF AttemptNo
<1>1. HeartbeatsTypeOK /\ InvOf(r)
  BY OfOne DEF BeatInv
<1>2. OnlyOf(r) /\ slow' \in 0..MaxSlow
  BY <1>1 DEF HeartbeatsTypeOK, OnlyOf, MonitorEnds, PopAndSet, NoEntry
<1>3. TypeOfOne(r)'
  BY <1>1 DEF HeartbeatsTypeOK, InvOf, TypeOfOne, EntryOK, Alive, BeatPhases, MonitorEnds, PopAndSet, NoEntry
<1> USE <1>1 DEF HeartbeatsTypeOK, InvOf, TypeOfOne, Alive
<1>4. EntryOK(r)' /\ ModelOK(r)'
  BY DEF EntryOK, ModelOK, AttemptsOK, MonitorEnds, PopAndSet, NoEntry
<1>5. AttemptsOK(r)'
  BY DEF AttemptsOK, EntryOK, ModelOK, MonitorEnds, PopAndSet, NoEntry
<1>6. ThreadsOK(r)'
  BY DEF ThreadsOK, EntryOK, AttemptsOK, MonitorEnds, PopAndSet, NoEntry
<1>7. LateOK(r)'
  BY DEF LateOK, EntryOK, ModelOK, AttemptsOK, ThreadsOK, MonitorEnds, PopAndSet, NoEntry
<1> HIDE <1>1 DEF HeartbeatsTypeOK, TypeOfOne
<1> QED
  BY <1>2, <1>3, <1>4, <1>5, <1>6, <1>7, OneReplica DEF InvOf

LEMMA ModelReadyKeeps ==
  ASSUME BeatInv, NEW r \in Launching, ModelReady(r)
  PROVE  BeatInv'
<1> USE HeartbeatsAssumption DEF AttemptNo
<1>1. HeartbeatsTypeOK /\ InvOf(r)
  BY OfOne DEF BeatInv
<1>2. OnlyOf(r) /\ slow' \in 0..MaxSlow
  BY <1>1 DEF HeartbeatsTypeOK, OnlyOf, ModelReady, PopAndSet, NoEntry
<1>3. TypeOfOne(r)'
  BY <1>1 DEF HeartbeatsTypeOK, InvOf, TypeOfOne, EntryOK, Alive, BeatPhases, ModelReady, PopAndSet, NoEntry
<1> USE <1>1 DEF HeartbeatsTypeOK, InvOf, TypeOfOne, Alive
<1>4. EntryOK(r)' /\ ModelOK(r)'
  BY DEF EntryOK, ModelOK, AttemptsOK, ModelReady, PopAndSet, NoEntry
<1>5. AttemptsOK(r)'
  BY DEF AttemptsOK, EntryOK, ModelOK, ModelReady, PopAndSet, NoEntry
<1>6. ThreadsOK(r)'
  BY DEF ThreadsOK, EntryOK, AttemptsOK, ModelReady, PopAndSet, NoEntry
<1>7. LateOK(r)'
  BY DEF LateOK, EntryOK, ModelOK, AttemptsOK, ThreadsOK, ModelReady, PopAndSet, NoEntry
<1> HIDE <1>1 DEF HeartbeatsTypeOK, TypeOfOne
<1> QED
  BY <1>2, <1>3, <1>4, <1>5, <1>6, <1>7, OneReplica DEF InvOf

LEMMA NotifyKeeps ==
  ASSUME BeatInv, NEW r \in Launching, Notify(r)
  PROVE  BeatInv'
<1> USE HeartbeatsAssumption DEF AttemptNo
<1>1. HeartbeatsTypeOK /\ InvOf(r)
  BY OfOne DEF BeatInv
<1>2. OnlyOf(r) /\ slow' \in 0..MaxSlow
  BY <1>1 DEF HeartbeatsTypeOK, OnlyOf, Notify, Joined
<1>3. TypeOfOne(r)'
  BY <1>1 DEF HeartbeatsTypeOK, InvOf, TypeOfOne, EntryOK, Alive, BeatPhases, Notify, Joined
<1> USE <1>1 DEF HeartbeatsTypeOK, InvOf, TypeOfOne, Alive
<1>4. EntryOK(r)' /\ ModelOK(r)'
  BY DEF EntryOK, ModelOK, AttemptsOK, Notify, Joined
<1>5. AttemptsOK(r)'
  BY DEF AttemptsOK, EntryOK, ModelOK, Notify, Joined
<1>6. ThreadsOK(r)'
  BY DEF ThreadsOK, EntryOK, AttemptsOK, Notify, Joined
<1>7. LateOK(r)'
  BY DEF LateOK, EntryOK, ModelOK, AttemptsOK, ThreadsOK, Notify, Joined
<1> HIDE <1>1 DEF HeartbeatsTypeOK, TypeOfOne
<1> QED
  BY <1>2, <1>3, <1>4, <1>5, <1>6, <1>7, OneReplica DEF InvOf

LEMMA LookUpKeeps ==
  ASSUME BeatInv, NEW r \in Launching, NEW b \in AttemptNo, LookUp(r, b)
  PROVE  BeatInv'
<1> USE HeartbeatsAssumption DEF AttemptNo
<1>1. HeartbeatsTypeOK /\ InvOf(r)
  BY OfOne DEF BeatInv
<1>2. OnlyOf(r) /\ slow' \in 0..MaxSlow
  BY <1>1 DEF HeartbeatsTypeOK, OnlyOf, LookUp
<1>a. /\ beater'[r] = [beater[r] EXCEPT ![b] = IF entry[r].attempt = 0 THEN "ended" ELSE "posting"]
      /\ found'[r] = IF entry[r].attempt = 0 THEN found[r]
                     ELSE [found[r] EXCEPT ![b] = entry[r].attempt]
  BY <1>1 DEF HeartbeatsTypeOK, LookUp
<1>b. entry[r].attempt # 0 => b = tries[r]
  BY <1>1 DEF InvOf, TypeOfOne, EntryOK, AttemptsOK, ThreadsOK, LookUp
<1>3. TypeOfOne(r)'
  BY <1>1, <1>a DEF InvOf, TypeOfOne, Alive, LookUp
<1> USE <1>1 DEF HeartbeatsTypeOK, InvOf, TypeOfOne, Alive
<1>4. EntryOK(r)' /\ ModelOK(r)'
  BY DEF EntryOK, ModelOK, AttemptsOK, LookUp
<1>5. AttemptsOK(r)'
  BY <1>a DEF AttemptsOK, LookUp
<1>6. ThreadsOK(r)'
  BY <1>a, <1>b DEF ThreadsOK, EntryOK
<1>7. LateOK(r)'
  BY <1>a, <1>b DEF LateOK, EntryOK, LookUp
<1> HIDE <1>1 DEF HeartbeatsTypeOK, TypeOfOne
<1> QED
  BY <1>2, <1>3, <1>4, <1>5, <1>6, <1>7, OneReplica DEF InvOf

LEMMA BeatKeeps ==
  ASSUME BeatInv, NEW r \in Launching, NEW b \in AttemptNo, Beat(r, b)
  PROVE  BeatInv'
<1> USE HeartbeatsAssumption DEF AttemptNo
<1>1. HeartbeatsTypeOK /\ InvOf(r)
  BY OfOne DEF BeatInv
<1>2. OnlyOf(r) /\ slow' \in 0..MaxSlow
  BY <1>1 DEF HeartbeatsTypeOK, OnlyOf, Beat
<1>a. found[r][b] = b /\ beater'[r] = [beater[r] EXCEPT ![b] = "waiting"]
  BY <1>1 DEF HeartbeatsTypeOK, InvOf, ThreadsOK, Beat
<1>b. late'[r] = [late[r] EXCEPT ![b] = IF b \in over[r] THEN 1 ELSE 0]
  <2>1. late[r][b] = 0
    BY <1>1 DEF InvOf, TypeOfOne, LateOK, Beat
  <2>2. late'[r] = [late[r] EXCEPT ![b] = IF b \in over[r] /\ late[r][b] < 2
                                          THEN late[r][b] + 1 ELSE late[r][b]]
    BY <1>1, <1>a DEF HeartbeatsTypeOK, Beat
  <2> QED
    BY <2>1, <2>2
<1>3. TypeOfOne(r)'
  BY <1>1, <1>a, <1>b DEF InvOf, TypeOfOne, Alive, Beat
<1> USE <1>1 DEF HeartbeatsTypeOK, InvOf, TypeOfOne, Alive
<1>4. EntryOK(r)' /\ ModelOK(r)'
  BY DEF EntryOK, ModelOK, AttemptsOK, Beat
<1>5. AttemptsOK(r)'
  BY DEF AttemptsOK, EntryOK, ModelOK, Beat
<1>6. ThreadsOK(r)'
  BY DEF ThreadsOK, EntryOK, AttemptsOK, Beat
<1>7. LateOK(r)'
  BY <1>a, <1>b DEF LateOK, Beat
<1> HIDE <1>1 DEF HeartbeatsTypeOK, TypeOfOne
<1> QED
  BY <1>2, <1>3, <1>4, <1>5, <1>6, <1>7, OneReplica DEF InvOf

LEMMA ToldKeeps ==
  ASSUME BeatInv, NEW r \in Launching, NEW b \in AttemptNo, Told(r, b)
  PROVE  BeatInv'
<1> USE HeartbeatsAssumption DEF AttemptNo
<1>1. HeartbeatsTypeOK /\ InvOf(r)
  BY OfOne DEF BeatInv
<1>2. OnlyOf(r) /\ slow' \in 0..MaxSlow
  BY <1>1 DEF HeartbeatsTypeOK, OnlyOf, Told
<1>3. TypeOfOne(r)'
  BY <1>1 DEF HeartbeatsTypeOK, InvOf, TypeOfOne, EntryOK, Alive, BeatPhases, Told
<1> USE <1>1 DEF HeartbeatsTypeOK, InvOf, TypeOfOne, Alive
<1>4. EntryOK(r)' /\ ModelOK(r)'
  BY DEF EntryOK, ModelOK, AttemptsOK, Told
<1>5. AttemptsOK(r)'
  BY DEF AttemptsOK, EntryOK, ModelOK, Told
<1>6. ThreadsOK(r)'
  BY DEF ThreadsOK, EntryOK, AttemptsOK, Told
<1>7. LateOK(r)'
  BY DEF LateOK, EntryOK, ModelOK, AttemptsOK, ThreadsOK, Told
<1> HIDE <1>1 DEF HeartbeatsTypeOK, TypeOfOne
<1> QED
  BY <1>2, <1>3, <1>4, <1>5, <1>6, <1>7, OneReplica DEF InvOf

LEMMA StepBeatInv == BeatInv /\ [HeartbeatsNext]_heartbeatVars => BeatInv'
<1> SUFFICES ASSUME BeatInv, [HeartbeatsNext]_heartbeatVars PROVE BeatInv'
  OBVIOUS
<1>1. ASSUME NEW r \in Launching, LaunchThread(r) PROVE BeatInv'
  BY <1>1, StartHeartbeatKeeps, ProgressKeeps, LaunchRaisesKeeps, AttemptFailsKeeps
     DEF LaunchThread
<1>2. ASSUME NEW r \in Launching, MonitorEnds(r) \/ ModelReady(r) \/ Notify(r) PROVE BeatInv'
  BY <1>2, MonitorEndsKeeps, ModelReadyKeeps, NotifyKeeps
<1>3. ASSUME NEW r \in Launching, NEW a \in AttemptNo, BeatThread(r, a) PROVE BeatInv'
  BY <1>3, LookUpKeeps, BeatKeeps, ToldKeeps DEF BeatThread
<1>4. CASE UNCHANGED heartbeatVars
  BY <1>4 DEF heartbeatVars, BeatInv, HeartbeatsTypeOK, EntryOK, ModelOK, AttemptsOK, ThreadsOK,
              LateOK
<1> QED
  BY <1>1, <1>2, <1>3, <1>4 DEF HeartbeatsNext

\* The registry, the threads and what Koi was told keep their types: in particular no
\* replica tries a configuration beyond the last, whatever its attempts end with.
THEOREM HeartbeatsTypeCorrect == HeartbeatsSpec => []HeartbeatsTypeOK
<1>1. BeatInv => HeartbeatsTypeOK
  BY DEF BeatInv
<1> QED
  BY InitBeatInv, StepBeatInv, <1>1, PTL DEF HeartbeatsSpec

\* Koi is sent at most one beat of an attempt after it was told of its end, for any number
\* of replicas and attempts and any number of posts that outlast the stop.
THEOREM OneBeatIsLate == HeartbeatsSpec => []OneLateBeat
<1>1. BeatInv => OneLateBeat
  BY DEF BeatInv, LateOK, OneLateBeat
<1> QED
  BY InitBeatInv, StepBeatInv, <1>1, PTL DEF HeartbeatsSpec
================================================================================
