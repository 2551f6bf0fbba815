---------------------------- MODULE SupervisorProofs ----------------------------
(***************************************************************************)
(* What Supervisor promises, for every set of jobs and keys, every hash of *)
(* keys to ports, and every bound.  A process belongs to a desired key,    *)
(* and desired keys of different jobs have different ports as long as      *)
(* reconcile refuses the others, so the ports of a job lead to its own     *)
(* processes.                                                              *)
(*                                                                         *)
(* And what Telemetry promises, for every machine and every shape that the *)
(* collector can read: its rows are of the pods that hold the GPUs.        *)
(***************************************************************************)
EXTENDS Supervisor, Telemetry, FiniteSetTheorems, TLAPS

\* What the check of reconcile keeps true of _desired.
ClaimsOK == Refuses => \A k, q \in desired : SamePort(k, q) => JobOf[k] = JobOf[q]

IInv == TypeOK /\ OnlyDesiredRuns /\ ClaimsOK

LEMMA InitInv == Init => IInv
  BY DEF Init, IInv, TypeOK, OnlyDesiredRuns, ClaimsOK

LEMMA ReconcileKeeps ==
  ASSUME IInv, NEW j \in Job, NEW S \in SUBSET Key, Reconcile(j, S)
  PROVE  IInv'
<1> USE SupervisorAssumption
<1>1. /\ S \subseteq KeysOf(j) /\ (Refuses => Unclaimed(j, S))
      /\ desired' = (desired \ KeysOf(j)) \cup S
      /\ process' = [k \in Key |-> IF k \in (desired \cap KeysOf(j)) \ S THEN "none"
                                   ELSE process[k]]
      /\ UNCHANGED <<main, thread, orphans, exits, errors, crashes>>
  BY DEF Reconcile, ReplaceJob
<1>2. TypeOK'
  BY <1>1 DEF IInv, TypeOK
<1>3. OnlyDesiredRuns'
  BY <1>1 DEF IInv, TypeOK, OnlyDesiredRuns
<1>4. ClaimsOK'
  <2> SUFFICES ASSUME Refuses, NEW k \in desired', NEW q \in desired', SamePort(k, q)
               PROVE  JobOf[k] = JobOf[q]
    BY DEF ClaimsOK, SamePort
  <2>1. \A x \in S : JobOf[x] = j
    BY <1>1 DEF KeysOf
  <2>2. CASE k \in S
    BY <1>1, <2>1, <2>2 DEF Unclaimed
  <2>3. CASE q \in S
    BY <1>1, <2>1, <2>3 DEF Unclaimed, SamePort
  <2>4. CASE k \in desired /\ q \in desired
    BY <2>4 DEF IInv, ClaimsOK
  <2> QED
    BY <1>1, <2>2, <2>3, <2>4
<1> QED
  BY <1>2, <1>3, <1>4 DEF IInv

LEMMA StepKeeps == IInv /\ [Next]_vars => IInv'
<1> SUFFICES ASSUME IInv, [Next]_vars PROVE IInv'
  OBVIOUS
<1> USE SupervisorAssumption DEF IInv, TypeOK, OnlyDesiredRuns, ClaimsOK
<1>1. ASSUME NEW j \in Job, NEW S \in SUBSET Key, Reconcile(j, S) PROVE IInv'
  BY <1>1, ReconcileKeeps
<1>2. CASE Close
  BY <1>2 DEF Close
<1>3. CASE CloseStops
  BY <1>3 DEF CloseStops
<1>4. CASE Exit \/ Killed
  BY <1>4 DEF Exit, Killed, Gone
<1>5. CASE Restart
  BY <1>5 DEF Restart
<1>6. CASE Test \/ Wake
  BY <1>6 DEF Test, Wake
<1>7. CASE Pass
  BY <1>7 DEF Pass, Started, Missing
<1>8. CASE PassRaises
  BY <1>8 DEF PassRaises, Started, Missing
<1>9. ASSUME NEW k \in Key, Bind(k) \/ Exits(k) PROVE IInv'
  BY <1>9 DEF Bind, Exits
<1>10. ASSUME NEW k \in Key, OrphanExits(k) PROVE IInv'
  BY <1>10 DEF OrphanExits
<1>11. CASE UNCHANGED vars
  BY <1>11 DEF vars
<1> QED
  BY <1>1, <1>2, <1>3, <1>4, <1>5, <1>6, <1>7, <1>8, <1>9, <1>10, <1>11 DEF Next, Thread

LEMMA Invariance == Spec => []IInv
  BY InitInv, StepKeeps, PTL DEF Spec

-----------------------------------------------------------------------------
(* The theorems.                                                           *)

\* Type correctness of the supervisor.
THEOREM TypeCorrect == Spec => []TypeOK
  BY Invariance, PTL DEF IInv

\* A process of a rank or a job that reconcile took away does not run.
THEOREM NothingStaleRuns == Spec => []OnlyDesiredRuns
  BY Invariance, PTL DEF IInv

\* The port that a job's router is told for a rank leads to no other job.
THEOREM PortsLeadHome == Spec => []PortsGoHome
<1>1. IInv => PortsGoHome
  <2> SUFFICES ASSUME IInv, Refuses, NEW k \in desired, NEW q \in Key, Alive(q), SamePort(k, q)
               PROVE  JobOf[q] = JobOf[k]
    BY DEF PortsGoHome
  <2>1. q \in desired
    BY DEF IInv, OnlyDesiredRuns, Alive
  <2> QED
    BY <2>1 DEF IInv, ClaimsOK
<1> QED
  BY Invariance, <1>1, PTL

-----------------------------------------------------------------------------
(* Telemetry.                                                              *)

\* The collector knows how many nodes a chain has: a shape that spreads a chain over
\* several says so by node_count, the only one of its two names that it reads.
ShapesAreRead == \A r \in Ranks : KnownNodes(r) = NodeCount(r)

NodeGpus(m) == {g \in Gpu : g[1] = m}

\* A pod is one of those compiled for its rank, and has what it asked for on one node.
PodOK(p) == /\ p.rank \in Ranks /\ Divides(p.rank)
            /\ p.chain \in 0 .. Rank[p.rank].n - 1 /\ p.member \in 0 .. NodeCount(p.rank) - 1
            /\ p.node \in DOMAIN Gpus /\ p.gpus \subseteq NodeGpus(p.node)
            /\ Cardinality(p.gpus) = PodGpus(p.rank)

\* The pods that there are, or were when they were listed: one in each place.
PodsOK(S) == /\ \A p \in S : PodOK(p)
             /\ \A p, q \in S : Slot(p) = Slot(q) => p = q

TelemetryInv == PodsOK(pods) /\ PodsOK(index) /\ RowsFit

\* Shapes are numbers, and a pod's share of a chain of count GPUs is a whole one.
LEMMA Shapes ==
  ASSUME NEW r \in Ranks
  PROVE  /\ NodeCount(r) \in Nat \ {0} /\ Rank[r].count \in Nat \ {0} /\ Rank[r].n \in Nat \ {0}
         /\ PodGpus(r) \in Nat
         /\ Divides(r) => NodeCount(r) * PodGpus(r) = Rank[r].count
<1>1. NodeCount(r) \in Nat \ {0} /\ Rank[r].count \in Nat \ {0} /\ Rank[r].n \in Nat \ {0}
  BY TelemetryAssumption DEF NodeCount
<1> DEFINE a == Rank[r].count
           n == NodeCount(r)
<1> HIDE DEF a, n
<1>2. a \in Nat /\ n \in Nat \ {0}
  BY <1>1 DEF a, n
<1>3. a \div n \in Nat /\ (a % n = 0 => n * (a \div n) = a)
  BY <1>2
<1> QED
  BY <1>1, <1>3 DEF a, n, PodGpus, Divides

\* A GPU is a node and a number, in order of the numbers.
LEMMA GpusAreOrdered ==
  ASSUME NEW g \in Gpu
  PROVE  /\ g[1] \in DOMAIN Gpus /\ g[1] \in Nat /\ g[2] \in 0 .. Gpus[g[1]] - 1
         /\ g = <<g[1], g[2]>>
         /\ ~ Before(g, g)
         /\ \A h \in Gpu : /\ g # h => Before(g, h) \/ Before(h, g)
                           /\ \A e \in Gpu : Before(g, h) /\ Before(h, e) => Before(g, e)
<1>1. \A h \in Gpu : /\ h[1] \in DOMAIN Gpus /\ h[1] \in Nat /\ h[2] \in 0 .. Gpus[h[1]] - 1
                     /\ h = <<h[1], h[2]>> /\ h[2] \in Int
  BY TelemetryAssumption DEF Gpu
<1>2. \A h \in Gpu : h[1] = g[1] /\ h[2] = g[2] => h = g
  BY <1>1
<1> QED
  BY <1>1, <1>2 DEF Before

LEMMA NodeHasItsGpus ==
  ASSUME NEW m \in DOMAIN Gpus
  PROVE  IsFiniteSet(NodeGpus(m)) /\ Cardinality(NodeGpus(m)) = Gpus[m]
<1> DEFINE f == [i \in 0 .. Gpus[m] - 1 |-> <<m, i>>]
<1>1. Gpus[m] \in Nat
  BY TelemetryAssumption
<1>2. \A i \in 0 .. Gpus[m] - 1 : <<m, i>> \in NodeGpus(m)
  BY DEF NodeGpus, Gpu
<1>3. \A g \in NodeGpus(m) : g[2] \in 0 .. Gpus[m] - 1 /\ g = <<m, g[2]>>
  BY GpusAreOrdered DEF NodeGpus
<1>4. f \in Bijection(0 .. Gpus[m] - 1, NodeGpus(m))
  <2>1. f \in [0 .. Gpus[m] - 1 -> NodeGpus(m)]
    BY <1>2
  <2>2. \A i, k \in 0 .. Gpus[m] - 1 : f[i] = f[k] => i = k
    OBVIOUS
  <2>3. \A g \in NodeGpus(m) : \E i \in 0 .. Gpus[m] - 1 : f[i] = g
    BY <1>3
  <2> QED
    BY <2>1, <2>2, <2>3 DEF Bijection, Injection, Surjection, IsInjective
<1>5. IsFiniteSet(0 .. Gpus[m] - 1) /\ Cardinality(0 .. Gpus[m] - 1) = Gpus[m]
  BY <1>1, FS_Interval
<1> QED
  BY <1>4, <1>5, FS_Bijection DEF ExistsBijection

\* What the labels tell of a pod: its chain, and its place in a chain of several pods.
LEMMA LabelsTell ==
  ASSUME NEW p, PodOK(p)
  PROVE  /\ ChainOf(p) = p.chain
         /\ MemberOf(p) = IF NodeCount(p.rank) > 1 THEN p.member ELSE None
<1>1. p.chain \in Nat /\ p.member \in Nat /\ NodeCount(p.rank) \in Nat \ {0}
  BY Shapes DEF PodOK
<1>2. Rank[p.rank].kind \in {"online", "batch"}
  BY TelemetryAssumption DEF PodOK
<1> QED
  BY <1>1, <1>2 DEF ChainOf, MemberOf, Labels, None

-----------------------------------------------------------------------------
\* A pod as it was listed, of which the rows of a tick are written.
Counted(p) == /\ p \in index /\ Accepted(known, p)
              /\ \A q \in pods : Name(q) = Name(p) => q.gpus = p.gpus

\* The GPUs that the collector takes for those of p.
Owned(p) == {g \in Gpu : Owner(g) = {Name(p)}}

LEMMA ShareIsKnown ==
  ASSUME ShapesAreRead, PodsOK(index), NEW p, Counted(p)
  PROVE  PodOK(p) /\ GpusPerNode(p) = PodGpus(p.rank)
BY DEF ShapesAreRead, PodsOK, PodOK, Counted, GpusPerNode, PodGpus

\* They are its GPUs: dcgm-exporter says so, or it has the node to itself.
LEMMA OwnedAreHeld ==
  ASSUME ShapesAreRead, PodsOK(index), NEW p, Counted(p), NEW h \in Owned(p)
  PROVE  h \in p.gpus
<1>1. h \in Gpu /\ Owner(h) = {Name(p)} /\ p \in index /\ PodOK(p)
  BY ShareIsKnown DEF Owned, Counted
<1>2. CASE attributed /\ Holder(h) # {}
  <2>1. PICK q \in pods : h \in q.gpus /\ Name(q) = Name(p)
    BY <1>1, <1>2 DEF Owner, Holder
  <2> QED
    BY <2>1 DEF Counted
<1>3. CASE ~ (attributed /\ Holder(h) # {})
  <2> DEFINE there == {q \in index : q.node = h[1]}
             alone == {q \in there : GpusPerNode(q) = Gpus[h[1]]}
  <2>0. Name(p) \in {Name(q) : q \in alone}
    <3>1. Owner(h) = IF Cardinality(there) = 1 THEN {Name(q) : q \in alone} ELSE {}
      BY <1>3 DEF Owner
    <3> HIDE DEF there, alone
    <3> QED
      BY <1>1, <3>1
  <2>1. PICK q \in index : q.node = h[1] /\ GpusPerNode(q) = Gpus[h[1]] /\ Name(q) = Name(p)
    BY <2>0
  <2>2. q = p
    BY <1>1, <2>1 DEF PodsOK, Slot, Name
  <2>3. Cardinality(p.gpus) = Gpus[p.node] /\ p.node = h[1]
    BY <1>1, <2>1, <2>2, ShareIsKnown DEF PodOK
  <2>4. p.gpus = NodeGpus(p.node)
    BY <1>1, <2>3, NodeHasItsGpus, FS_Subset DEF PodOK
  <2> QED
    BY <1>1, <2>3, <2>4 DEF NodeGpus
<1> QED
  BY <1>2, <1>3

\* The GPUs of p before g.
Earlier(p, g) == {h \in Gpu : Owner(h) = {Name(p)} /\ Before(h, g)}

\* Numbering the GPUs of a pod: the numbers are below its share, and differ.
LEMMA Numbered ==
  ASSUME ShapesAreRead, PodsOK(index), NEW p, Counted(p), NEW g \in Owned(p)
  PROVE  /\ IsFiniteSet(Earlier(p, g)) /\ Cardinality(Earlier(p, g)) \in 0 .. PodGpus(p.rank) - 1
         /\ \A h \in Owned(p) :
               Before(g, h) => Cardinality(Earlier(p, g)) < Cardinality(Earlier(p, h))
<1>1. PodOK(p) /\ PodGpus(p.rank) \in Nat
  BY ShareIsKnown, Shapes DEF PodOK
<1>2. IsFiniteSet(p.gpus) /\ Cardinality(p.gpus) = PodGpus(p.rank)
  BY <1>1, NodeHasItsGpus, FS_Subset DEF PodOK
<1>3. g \in p.gpus /\ g \in Gpu /\ ~ Before(g, g)
  BY OwnedAreHeld, GpusAreOrdered DEF Owned
<1>4. \A h \in Owned(p) : Earlier(p, h) \subseteq p.gpus
  BY OwnedAreHeld DEF Owned, Earlier
<1>5. \A h \in Owned(p) : IsFiniteSet(Earlier(p, h)) /\ Cardinality(Earlier(p, h)) \in Nat
  BY <1>2, <1>4, FS_Subset, FS_CardinalityType
<1>6. Cardinality(Earlier(p, g)) <= PodGpus(p.rank) - 1
  <2>1. Earlier(p, g) \subseteq p.gpus \ {g}
    BY <1>3, <1>4 DEF Earlier
  <2>2. IsFiniteSet(p.gpus \ {g}) /\ Cardinality(p.gpus \ {g}) = PodGpus(p.rank) - 1
    BY <1>2, <1>3, FS_RemoveElement
  <2> QED
    BY <2>1, <2>2, FS_Subset
<1>7. ASSUME NEW h \in Owned(p), Before(g, h)
      PROVE  Cardinality(Earlier(p, g)) < Cardinality(Earlier(p, h))
  <2>1. g \in Earlier(p, h) /\ g \notin Earlier(p, g)
    BY <1>3, <1>7 DEF Owned, Earlier
  <2>2. \A e \in Gpu : Before(e, g) => Before(e, h)
    BY <1>3, <1>7, GpusAreOrdered DEF Owned
  <2>3. Earlier(p, g) \subseteq Earlier(p, h)
    BY <2>2 DEF Earlier
  <2>4. Cardinality(Earlier(p, g)) <= Cardinality(Earlier(p, h))
    BY <1>5, <2>3, FS_Subset
  <2>5. Cardinality(Earlier(p, g)) # Cardinality(Earlier(p, h))
    BY <1>5, <2>1, <2>3, FS_Subset
  <2> QED
    BY <1>5, <2>4, <2>5
<1> QED
  BY <1>1, <1>5, <1>6, <1>7

\* Members of a chain count on from one another.
LEMMA Shares ==
  ASSUME NEW d \in Nat, NEW n \in Nat \ {0}, NEW a \in 0 .. n - 1, NEW k \in 0 .. d - 1
  PROVE  /\ a * d + k \in 0 .. n * d - 1
         /\ \A b \in 0 .. n - 1, l \in 0 .. d - 1 : a * d + k = b * d + l => a = b /\ k = l
<1>1. \A x, y \in Nat : x <= y => x * d <= y * d /\ x * d \in Nat
  <2> TAKE x, y \in Nat
  <2> HAVE x <= y
  <2>1. PICK z \in Nat : y = x + z
    <3>1. y - x \in Nat /\ y = x + (y - x)
      OBVIOUS
    <3> QED
      BY <3>1
  <2>2. y * d = x * d + z * d /\ z * d \in Nat /\ x * d \in Nat
    BY <2>1
  <2> QED
    BY <2>2
<1>2. \A x \in Nat : (x + 1) * d = x * d + d
  OBVIOUS
<1>3. \A x, y \in Nat : x < y => x * d + d <= y * d
  BY <1>1, <1>2
<1>4. a * d + d <= n * d /\ a * d \in Nat
  BY <1>1, <1>3
<1>5. ASSUME NEW b \in 0 .. n - 1, NEW l \in 0 .. d - 1, a * d + k = b * d + l
      PROVE  a = b /\ k = l
  <2>1. a * d \in Nat /\ b * d \in Nat
    BY <1>1
  <2>2. ~ (a < b) /\ ~ (b < a)
    BY <1>3, <1>5, <2>1
  <2> QED
    BY <1>5, <2>1, <2>2
<1> QED
  BY <1>4, <1>5

LEMMA LocalRanks ==
  ASSUME ShapesAreRead, PodsOK(index), NEW p, Counted(p), NEW g \in Owned(p)
  PROVE  LocalRank(p, g) = p.member * PodGpus(p.rank) + Cardinality(Earlier(p, g))
<1>1. PodOK(p) /\ GpusPerNode(p) = PodGpus(p.rank)
  BY ShareIsKnown
<1>2. MemberOf(p) = IF NodeCount(p.rank) > 1 THEN p.member ELSE None
  BY <1>1, LabelsTell
<1>3. p.member \in Nat /\ NodeCount(p.rank) \in Nat \ {0} /\ PodGpus(p.rank) \in Nat
      /\ p.member < NodeCount(p.rank)
  BY <1>1, Shapes DEF PodOK
<1>4. (IF MemberOf(p) = None THEN 0 ELSE MemberOf(p) * GpusPerNode(p)) = p.member * PodGpus(p.rank)
  <2>1. CASE NodeCount(p.rank) > 1
    <3>1. MemberOf(p) = p.member /\ MemberOf(p) # None
      BY <1>2, <1>3, <2>1 DEF None
    <3> QED
      BY <1>1, <3>1
  <2>2. CASE ~ (NodeCount(p.rank) > 1)
    <3>1. MemberOf(p) = None /\ p.member = 0
      BY <1>2, <1>3, <2>2
    <3>2. 0 * PodGpus(p.rank) = 0
      BY <1>3
    <3> QED
      BY <3>1, <3>2
  <2> QED
    BY <2>1, <2>2
<1> QED
  BY <1>4 DEF LocalRank, Earlier

-----------------------------------------------------------------------------
\* The rows that a tick writes fit.
LEMMA CollectFits ==
  ASSUME ShapesAreRead, PodsOK(index), Collect
  PROVE  RowsFit'
<1> DEFINE IsRow(x, g, p) ==
      /\ p \in index /\ Accepted(known, p) /\ g \in Owned(p)
      /\ x.gpu = g /\ x.owner = Name(p) /\ x.rank = p.rank /\ x.chain = ChainOf(p)
      /\ x.local = LocalRank(p, g)
      /\ x.holders = {Name(q) : q \in {y \in index \cup pods : g \in y.gpus}}
      /\ x.back = \E q \in pods : Name(q) = Name(p) /\ q.gpus # p.gpus
<1> DEFINE Row(g, p) ==
      [gpu |-> g, owner |-> Name(p), rank |-> p.rank, chain |-> ChainOf(p),
       local |-> LocalRank(p, g),
       holders |-> {Name(q) : q \in {y \in index \cup pods : g \in y.gpus}},
       back |-> \E q \in pods : Name(q) = Name(p) /\ q.gpus # p.gpus]
<1>1. \A x \in rows' : \E g \in Gpu : \E p \in index : IsRow(x, g, p)
  <2>1. \A x \in rows' : \E g \in Gpu :
           \E p \in {q \in index : Owner(g) = {Name(q)} /\ Accepted(known, q)} : x = Row(g, p)
    BY DEF Collect
  <2>2. ASSUME NEW g \in Gpu, NEW p \in index, Owner(g) = {Name(p)}, Accepted(known, p)
        PROVE  IsRow(Row(g, p), g, p)
    BY <2>2 DEF Owned
  <2> HIDE DEF Row, IsRow
  <2> QED
    BY <2>1, <2>2
<1>2. ASSUME NEW x, NEW g, NEW p, IsRow(x, g, p), ~ x.back
      PROVE  /\ Counted(p) /\ g \in Owned(p) /\ PodOK(p)
             /\ x.gpu = g /\ x.rank = p.rank /\ x.chain = p.chain
             /\ x.local = p.member * PodGpus(p.rank) + Cardinality(Earlier(p, g))
             /\ x.owner = Name(p) /\ x.owner \in x.holders
  <2>1. Counted(p) /\ g \in Owned(p) /\ p \in index
    BY <1>2 DEF Counted
  <2>2. PodOK(p) /\ ChainOf(p) = p.chain /\ g \in p.gpus
    BY <2>1, ShareIsKnown, LabelsTell, OwnedAreHeld
  <2> QED
    BY <1>2, <2>1, <2>2, LocalRanks
<1> HIDE DEF IsRow
<1> SUFFICES ASSUME NEW x \in rows', ~ x.back
             PROVE  /\ x.owner \in x.holders
                    /\ x.chain = x.owner[2] /\ x.local \in 0 .. Rank[x.rank].count - 1
                    /\ \A y \in rows' : ~ y.back /\ y.rank = x.rank /\ y.chain = x.chain
                                           /\ y.local = x.local => y.gpu = x.gpu
  BY DEF RowsFit
<1>3. PICK g, p : IsRow(x, g, p)
  BY <1>1
<1>4. /\ Counted(p) /\ g \in Owned(p) /\ PodOK(p)
      /\ x.gpu = g /\ x.rank = p.rank /\ x.chain = p.chain
      /\ x.local = p.member * PodGpus(p.rank) + Cardinality(Earlier(p, g))
      /\ x.owner = Name(p) /\ x.owner \in x.holders
  BY <1>2, <1>3
<1>5. /\ p.member \in 0 .. NodeCount(p.rank) - 1 /\ NodeCount(p.rank) \in Nat \ {0}
      /\ PodGpus(p.rank) \in Nat /\ NodeCount(p.rank) * PodGpus(p.rank) = Rank[p.rank].count
  BY <1>4, Shapes DEF PodOK
<1>6. Cardinality(Earlier(p, g)) \in 0 .. PodGpus(p.rank) - 1
  BY <1>4, Numbered
<1>7. x.chain = x.owner[2] /\ x.local \in 0 .. Rank[x.rank].count - 1
  BY <1>4, <1>5, <1>6, Shares DEF Name
<1>8. ASSUME NEW y \in rows', ~ y.back, y.rank = x.rank, y.chain = x.chain, y.local = x.local
      PROVE  y.gpu = x.gpu
  <2>1. PICK h, q : IsRow(y, h, q)
    BY <1>1
  <2>2. /\ Counted(q) /\ h \in Owned(q) /\ PodOK(q)
        /\ y.gpu = h /\ y.rank = q.rank /\ y.chain = q.chain
        /\ y.local = q.member * PodGpus(q.rank) + Cardinality(Earlier(q, h))
    BY <1>2, <1>8, <2>1
  <2>3. q.member \in 0 .. NodeCount(p.rank) - 1 /\ Cardinality(Earlier(q, h)) \in 0 .. PodGpus(p.rank) - 1
    BY <1>4, <1>8, <2>2, Numbered DEF PodOK
  <2>4. q.member = p.member /\ Cardinality(Earlier(q, h)) = Cardinality(Earlier(p, g))
    <3>1. p.member * PodGpus(p.rank) + Cardinality(Earlier(p, g))
              = q.member * PodGpus(p.rank) + Cardinality(Earlier(q, h))
      BY <1>4, <1>8, <2>2
    <3> DEFINE n == NodeCount(p.rank)
               d == PodGpus(p.rank)
               a == p.member
               k == Cardinality(Earlier(p, g))
               b == q.member
               l == Cardinality(Earlier(q, h))
    <3>2. /\ d \in Nat /\ n \in Nat \ {0} /\ a \in 0 .. n - 1 /\ k \in 0 .. d - 1
          /\ b \in 0 .. n - 1 /\ l \in 0 .. d - 1
      BY <1>5, <1>6, <2>3
    <3>3. a * d + k = b * d + l
      BY <3>1
    <3> HIDE DEF n, d, a, k, b, l
    <3>4. \A e \in 0 .. n - 1, f \in 0 .. d - 1 : a * d + k = e * d + f => a = e /\ k = f
      BY <3>2, Shares
    <3>5. a = b /\ k = l
      BY <3>2, <3>3, <3>4
    <3> QED
      BY <3>5 DEF a, b, k, l
  <2>5. q = p
    BY <1>4, <1>8, <2>2, <2>4 DEF PodsOK, Counted, Slot
  <2>6. ~ Before(g, h) /\ ~ Before(h, g)
    BY <1>4, <1>6, <2>2, <2>4, <2>5, Numbered
  <2> QED
    BY <1>4, <2>2, <2>5, <2>6, GpusAreOrdered DEF Owned
<1> QED
  BY <1>4, <1>7, <1>8

\* A pod starts in a place of its rank that is empty, with its share of the free GPUs of a
\* node; otherwise pods go away, or become ready.
LEMMA PodsKept ==
  ASSUME PodsOK(pods), [TelemetryNext]_telemetryVars
  PROVE  PodsOK(pods)'
<1>1. ASSUME NEW r \in Ranks, NEW m \in DOMAIN Gpus, PodStarts(r, m)
      PROVE  PodsOK(pods)'
  <2>1. PICK s \in PodsOf(r), gpus \in SUBSET Free(m) :
           /\ \A q \in pods : Slot(q) # s
           /\ Cardinality(gpus) = PodGpus(r)
           /\ pods' = pods \cup
                {[rank |-> r, chain |-> s.chain, member |-> s.member,
                  name |-> IF Rank[r].kind = "batch" /\ NodeCount(r) > 1 THEN 0 ELSE moves,
                  node |-> m, gpus |-> gpus, ready |-> Rank[r].kind = "batch"]}
    BY <1>1 DEF PodStarts
  <2> DEFINE p == [rank |-> r, chain |-> s.chain, member |-> s.member,
                   name |-> IF Rank[r].kind = "batch" /\ NodeCount(r) > 1 THEN 0 ELSE moves,
                   node |-> m, gpus |-> gpus, ready |-> Rank[r].kind = "batch"]
  <2>2. /\ p.rank = r /\ p.chain = s.chain /\ p.member = s.member /\ p.node = m /\ p.gpus = gpus
        /\ pods' = pods \cup {p}
    BY <2>1
  <2> HIDE DEF p
  <2>3. /\ Divides(r) /\ s = [rank |-> r, chain |-> s.chain, member |-> s.member]
        /\ s.chain \in 0 .. Rank[r].n - 1 /\ s.member \in 0 .. NodeCount(r) - 1
    BY DEF PodsOf
  <2>4. gpus \subseteq NodeGpus(m)
    BY DEF Free, NodeGpus
  <2>5. PodOK(p)
    BY <2>1, <2>2, <2>3, <2>4 DEF PodOK
  <2>6. Slot(p) = s
    BY <2>2, <2>3 DEF Slot
  <2> QED
    BY <2>1, <2>2, <2>5, <2>6 DEF PodsOK
<1>2. ASSUME NEW p \in pods, PodReady(p)
      PROVE  PodsOK(pods)'
  <2> DEFINE q == [p EXCEPT !.ready = TRUE]
  <2>1. pods' = (pods \ {p}) \cup {q}
    BY <1>2 DEF PodReady
  <2>2. /\ q.rank = p.rank /\ q.chain = p.chain /\ q.member = p.member /\ q.node = p.node
        /\ q.gpus = p.gpus
    OBVIOUS
  <2> HIDE DEF q
  <2>3. PodOK(q) /\ Slot(q) = Slot(p)
    BY <2>2 DEF PodsOK, PodOK, Slot
  <2> QED
    BY <2>1, <2>3 DEF PodsOK
<1>3. ASSUME NEW p \in pods, PodGone(p)
      PROVE  PodsOK(pods)'
  BY <1>3 DEF PodGone, PodsOK
<1>4. ASSUME UNCHANGED pods
      PROVE  PodsOK(pods)'
  BY <1>4
<1>5. ASSUME (\E r \in Ranks : RankEnds(r)) \/ List \/ ReadRanks \/ Collect
             \/ (\E s \in news : Push(s)) \/ (\E j \in Routers : RouterRestarts(j))
             \/ UNCHANGED telemetryVars
      PROVE  UNCHANGED pods
  BY <1>5 DEF RankEnds, List, ReadRanks, Collect, Push, RouterRestarts, telemetryVars, clusterVars
<1> QED
  BY <1>1, <1>2, <1>3, <1>4, <1>5 DEF TelemetryNext

LEMMA TelemetryKept ==
  ASSUME ShapesAreRead, TelemetryInv, [TelemetryNext]_telemetryVars
  PROVE  TelemetryInv'
<1>1. PodsOK(pods)'
  BY PodsKept DEF TelemetryInv
<1>2. CASE List
  BY <1>1, <1>2 DEF List, TelemetryInv, RowsFit
<1>3. CASE Collect
  <2>1. PodsOK({})
    BY DEF PodsOK
  <2> QED
    BY <1>1, <1>3, <2>1, CollectFits DEF Collect, TelemetryInv
<1>4. ASSUME UNCHANGED <<index, rows>>
      PROVE  TelemetryInv'
  BY <1>1, <1>4 DEF TelemetryInv, RowsFit
<1>5. ASSUME (\E r \in Ranks : RankEnds(r)) \/ (\E r \in Ranks, m \in DOMAIN Gpus : PodStarts(r, m))
             \/ (\E p \in pods : PodReady(p) \/ PodGone(p)) \/ ReadRanks
             \/ (\E s \in news : Push(s)) \/ (\E j \in Routers : RouterRestarts(j))
             \/ UNCHANGED telemetryVars
      PROVE  UNCHANGED <<index, rows>>
  BY <1>5 DEF RankEnds, PodStarts, PodReady, PodGone, ReadRanks, Push, RouterRestarts,
     telemetryVars, tickVars
<1> QED
  BY <1>2, <1>3, <1>4, <1>5 DEF TelemetryNext

\* Whatever pods come, go and move while a tick of the collector is under way, its rows are of
\* the pods that hold the GPUs, and number the GPUs of a chain without a clash
\* (gpu_metrics_collector.py, collect_once), for all shapes, machines and bounds; of shapes
\* it is asked that they say the nodes of a chain by the name that the collector reads.
THEOREM RowsFitTheirPods ==
  ASSUME ShapesAreRead
  PROVE  TelemetrySpec => []RowsFit
<1>1. TelemetryInit => TelemetryInv
  BY DEF TelemetryInit, TelemetryInv, PodsOK, RowsFit
<1>2. TelemetryInv /\ [TelemetryNext]_telemetryVars => TelemetryInv'
  BY TelemetryKept
<1>3. TelemetryInv => RowsFit
  BY DEF TelemetryInv
<1> QED
  BY <1>1, <1>2, <1>3, PTL DEF TelemetrySpec
================================================================================
