-------------------------------- MODULE Telemetry --------------------------------
(***************************************************************************)
(* What the control plane knows of the GPUs: the labels that the compilers *)
(* put on the pods of a rank (tandemn_orca/dynamo_compiler.py,             *)
(* batch_compiler.py), the collector that reads them back                  *)
(* (scripts/gpu_metrics_collector.py), and what the routers of the jobs    *)
(* are told by it and by RankHealthPublisher (router_health.py).           *)
(*                                                                         *)
(* A rank has chains, and a chain has a pod on each of its nodes, its      *)
(* members.  A tick of the collector lists the pods, reads the active      *)
(* ranks, tells the routers how many chains are ready, and writes a row    *)
(* for each GPU; pods and ranks change under it.  Values of metrics and    *)
(* prices are left out.  Kubernetes, Prometheus and the routers are        *)
(* external.  The collector and Orca run beside the processes of module    *)
(* Supervisor, so the names here have a prefix.                            *)
(***************************************************************************)
EXTENDS Integers, FiniteSets

CONSTANTS Rank,      \* rank -> [job, kind, n, count, node_count, per_chain], 0 if not in its shape
          Gpus,      \* node -> the number of its GPUs
          Launched,  \* the sets of ranks that may be active at first
          MaxMoves,  \* bound: pods that go away, ranks that end
          MaxLosses  \* bound: failed queries and pushes, restarts of routers

Ranks == DOMAIN Rank
Routers == {Rank[r].job : r \in Ranks}

ASSUME TelemetryAssumption ==
    /\ \A r \in Ranks : /\ Rank[r].kind \in {"online", "batch"}
                        /\ Rank[r].n \in Nat \ {0} /\ Rank[r].count \in Nat \ {0}
                        /\ Rank[r].node_count \in Nat /\ Rank[r].per_chain \in Nat
    /\ DOMAIN Gpus \subseteq Nat /\ \A m \in DOMAIN Gpus : Gpus[m] \in Nat
    /\ Launched \subseteq SUBSET Ranks /\ MaxMoves \in Nat /\ MaxLosses \in Nat

VARIABLES active,      \* the ranks whose rows are launching or running
          pods,        \* the pods that there are
          attributed,  \* dcgm-exporter names the pod of a GPU
          tick,        \* the collector: off, idle, listed, telling
          index,       \* the pods as by_pod listed them
          known,       \* the active ranks that it read
          news,        \* the snapshots that it has yet to push
          rows,        \* the rows that it wrote last
          view,        \* what a router was told of ready replicas: rank -> number, or -1
          moves, losses

clusterVars == <<active, pods, attributed>>
tickVars == <<tick, index, known, news, rows>>
telemetryVars == <<clusterVars, tickVars, view, moves, losses>>

None == -1
Gpu == UNION {{<<m, g>> : g \in 0 .. Gpus[m] - 1} : m \in DOMAIN Gpus}
Move == moves < MaxMoves /\ moves' = moves + 1
Loss == losses < MaxLosses /\ losses' = losses + 1

-----------------------------------------------------------------------------
(* The compilers.                                                          *)

\* rank_node_count.
NodeCount(r) ==
    IF Rank[r].node_count # 0 THEN Rank[r].node_count
    ELSE IF Rank[r].per_chain # 0 THEN Rank[r].per_chain ELSE 1

\* render_rank_dgd and render_chain raise otherwise; the rank has no pods then.
Divides(r) == Rank[r].count % NodeCount(r) = 0

\* The GPUs that a pod asks for.
PodGpus(r) == Rank[r].count \div NodeCount(r)

\* The labels of a pod: those of the compiler, and the indexes of the controller.  Grove
\* numbers the replicas of a scaling group, and has a clique of leaders and one of workers
\* in it; a chain on one node is a pod of a clique.  A batch chain has a label of its own,
\* and its members are numbered by LeaderWorkerSet.
Labels(r, chain, member) ==
    LET none == [group |-> None, clique |-> "none", pod |-> None, chain |-> None, lws |-> None]
        multi == NodeCount(r) > 1
    IN IF Rank[r].kind = "batch"
       THEN [none EXCEPT !.chain = chain, !.lws = IF multi THEN member ELSE None]
       ELSE IF ~ multi THEN [none EXCEPT !.pod = chain]
       ELSE [none EXCEPT !.group = chain,
                         !.clique = IF member = 0 THEN "leader" ELSE "worker",
                         !.pod = IF member = 0 THEN 0 ELSE member - 1]

\* compile_job and compile_batch_job: the pods of a rank.
PodsOf(r) ==
    IF Divides(r)
    THEN [rank : {r}, chain : 0 .. Rank[r].n - 1, member : 0 .. NodeCount(r) - 1]
    ELSE {}

-----------------------------------------------------------------------------

TelemetryInit ==
    /\ active \in Launched /\ pods = {} /\ attributed \in BOOLEAN
    /\ tick \in {"off", "idle"} /\ index = {} /\ known = {} /\ news = {} /\ rows = {}
    /\ view = [j \in Routers |-> [r \in Ranks |-> None]]
    /\ moves = 0 /\ losses = 0

-----------------------------------------------------------------------------
(* The cluster.                                                            *)

GpusInUse == UNION {p.gpus : p \in pods}
Free(m) == {g \in Gpu : g[1] = m} \ GpusInUse
Slot(p) == [rank |-> p.rank, chain |-> p.chain, member |-> p.member]

\* A rank ends; one that Orca launches later is one whose pods start later.
RankEnds(r) ==
    /\ r \in active /\ Move
    /\ active' = active \ {r}
    /\ UNCHANGED <<pods, attributed, tickVars, view, losses>>

\* A pod is scheduled on a node that has the GPUs.  The pods of a LeaderWorkerSet keep their
\* names when they come back; other pods get new ones.  Nobody asks if a batch pod is ready.
PodStarts(r, m) ==
    /\ r \in active
    /\ \E p \in PodsOf(r), gpus \in SUBSET Free(m) :
          /\ \A q \in pods : Slot(q) # p
          /\ Cardinality(gpus) = PodGpus(r)
          /\ \A g \in gpus, h \in Free(m) \ gpus : g[2] < h[2]
          /\ pods' = pods \cup
                {[rank |-> r, chain |-> p.chain, member |-> p.member,
                  name |-> IF Rank[r].kind = "batch" /\ NodeCount(r) > 1 THEN 0 ELSE moves,
                  node |-> m, gpus |-> gpus, ready |-> Rank[r].kind = "batch"]}
    /\ UNCHANGED <<active, attributed, tickVars, view, moves, losses>>

PodReady(p) ==
    /\ p \in pods /\ ~ p.ready
    /\ pods' = (pods \ {p}) \cup {[p EXCEPT !.ready = TRUE]}
    /\ UNCHANGED <<active, attributed, tickVars, view, moves, losses>>

PodGone(p) ==
    /\ p \in pods /\ Move
    /\ pods' = pods \ {p}
    /\ UNCHANGED <<active, attributed, tickVars, view, losses>>

-----------------------------------------------------------------------------
(* A tick of the collector.                                                *)

Name(p) == <<p.rank, p.chain, p.member, p.name>>

\* by_pod: the chain and the member that the labels tell, or None.
ChainOf(p) ==
    LET l == Labels(p.rank, p.chain, p.member)
    IN IF l.group # None THEN l.group ELSE IF l.pod # None THEN l.pod ELSE l.chain

MemberOf(p) ==
    LET l == Labels(p.rank, p.chain, p.member)
    IN IF Rank[p.rank].kind = "batch" THEN l.lws
       ELSE IF l.group = None THEN None
       ELSE IF l.clique = "leader" THEN 0 ELSE l.pod + 1

\* validate_rank_identity: the nodes of a chain, of which the collector knows one name only,
\* and the pods that it accepts.
KnownNodes(r) == IF Rank[r].node_count # 0 THEN Rank[r].node_count ELSE 1
Accepted(ranks, p) ==
    LET r == p.rank
    IN /\ r \in ranks
       /\ ChainOf(p) \in 0 .. Rank[r].n - 1
       /\ Rank[r].count % KnownNodes(r) = 0
       /\ KnownNodes(r) > 1 => MemberOf(p) # None
       /\ MemberOf(p) < KnownNodes(r)

List ==
    /\ tick = "idle" /\ tick' = "listed"
    /\ index' = pods /\ rows' = {}
    /\ UNCHANGED <<clusterVars, known, news, view, moves, losses>>

\* Fault: one ready member is enough.
WholeByOne(ranks, r, chain) ==
    \E p \in index : Accepted(ranks, p) /\ p.rank = r /\ ChainOf(p) = chain /\ p.ready

\* collect_rank_telemetry: a chain is ready with as many ready members as it has nodes ...
Whole(ranks, r, chain) ==
    Cardinality({p \in index : Accepted(ranks, p) /\ p.rank = r /\ ChainOf(p) = chain /\ p.ready})
        >= KnownNodes(r)

WholeChains(ranks, r) == {c \in 0 .. Rank[r].n - 1 : Whole(ranks, r, c)}

\* ... and with an answer of Prometheus for its leader: some of the chains whose pods have
\* gone in the meantime have none, and a failed query is none.
Unanswered(r, c) == \E p \in index \ pods : p.rank = r /\ ChainOf(p) = c

\* active_ranks of the jobs that the pods name; local_ranks_for_workers: nothing is said of a
\* rank without pods.
ReadRanks ==
    LET ranks == {r \in active : \E p \in index : Rank[p.rank].job = Rank[r].job}
        local == {r \in ranks : Rank[r].kind = "online"
                                /\ \E p \in index : p.rank = r /\ Accepted(ranks, p)}
        whole == UNION {{<<r, c>> : c \in WholeChains(ranks, r)} : r \in local}
    IN /\ tick = "listed" /\ tick' = "telling"
       /\ known' = ranks
       /\ \E missed \in SUBSET whole :
             /\ news' = {[rank |-> r, ready |-> Cardinality({x \in whole \ missed : x[1] = r})] :
                             r \in local}
             /\ IF \A x \in missed : Unanswered(x[1], x[2]) THEN UNCHANGED losses ELSE Loss
       /\ UNCHANGED <<clusterVars, index, rows, view, moves>>

\* push, rank by rank; one that fails is logged.
Push(s) ==
    /\ tick = "telling" /\ s \in news
    /\ news' = news \ {s}
    /\ \/ view' = [view EXCEPT ![Rank[s.rank].job][s.rank] = s.ready] /\ UNCHANGED losses
       \/ Loss /\ UNCHANGED view
    /\ UNCHANGED <<clusterVars, tick, index, known, rows, moves>>

-----------------------------------------------------------------------------
(* collect_once.                                                           *)

GpusPerNode(p) == IF Accepted(known, p) THEN Rank[p.rank].count \div KnownNodes(p.rank) ELSE 1

\* The owner of a GPU: the pod that dcgm-exporter names, or the one pod that accounts for
\* every GPU of the node.
Holder(g) == {Name(p) : p \in {q \in pods : g \in q.gpus}}
Owner(g) ==
    LET there == {p \in index : p.node = g[1]}
    IN IF attributed /\ Holder(g) # {} THEN Holder(g)
       ELSE IF Cardinality(there) = 1
       THEN {Name(p) : p \in {q \in there : GpusPerNode(q) = Gpus[g[1]]}}
       ELSE {}

Before(g, h) == g[2] < h[2] \/ (g[2] = h[2] /\ g[1] < h[1])

\* Fault: the GPUs of a member are not counted on from those of the members before it.
LocalRankOfNode(p, g) ==
    Cardinality({h \in Gpu : Owner(h) = {Name(p)} /\ Before(h, g)})

\* The local rank of a GPU of p: DCGM's indexes are those of the node.
LocalRank(p, g) ==
    (IF MemberOf(p) = None THEN 0 ELSE MemberOf(p) * GpusPerNode(p))
        + Cardinality({h \in Gpu : Owner(h) = {Name(p)} /\ Before(h, g)})

\* A row for each GPU, with the identity of its owner if it has one that was accepted.  What
\* is true of the GPU is kept beside: who holds it, or held it when the pods were listed,
\* and if the owner came back elsewhere under its name since then.
Collect ==
    /\ tick = "telling" /\ news = {} /\ tick' = "idle"
    /\ index' = {} /\ known' = {}
    /\ rows' = UNION {{[gpu |-> g, owner |-> Name(p), rank |-> p.rank, chain |-> ChainOf(p),
                        local |-> LocalRank(p, g),
                        holders |-> {Name(q) : q \in {x \in index \cup pods : g \in x.gpus}},
                        back |-> \E q \in pods : Name(q) = Name(p) /\ q.gpus # p.gpus] :
                          p \in {q \in index : Owner(g) = {Name(q)} /\ Accepted(known, q)}} :
                      g \in Gpu}
    /\ UNCHANGED <<clusterVars, news, view, moves, losses>>

-----------------------------------------------------------------------------
(* The routers.                                                            *)

\* A router forgets what it was told.
RouterRestarts(j) ==
    /\ Loss
    /\ view' = [view EXCEPT ![j] = [r \in Ranks |-> None]]
    /\ UNCHANGED <<clusterVars, tickVars, moves>>

-----------------------------------------------------------------------------

TelemetryNext ==
    \/ \E r \in Ranks : RankEnds(r)
    \/ \E r \in Ranks, m \in DOMAIN Gpus : PodStarts(r, m)
    \/ \E p \in pods : PodReady(p) \/ PodGone(p)
    \/ List \/ ReadRanks \/ Collect
    \/ \E s \in news : Push(s)
    \/ \E j \in Routers : RouterRestarts(j)

TelemetrySpec == TelemetryInit /\ [][TelemetryNext]_telemetryVars

\* The collector ticks, and Orca polls; nothing is assumed of pods and ranks.
TelemetryFairness ==
    /\ WF_telemetryVars(List) /\ WF_telemetryVars(ReadRanks /\ UNCHANGED losses)
    /\ WF_telemetryVars(Collect)
    /\ WF_telemetryVars(\E s \in news : Push(s) /\ UNCHANGED losses)

-----------------------------------------------------------------------------
(* Properties.                                                             *)

\* Though pods and ranks change during a tick and the labels of a member differ by kind of
\* job and by size: a row has the identity of a pod that holds the GPU or held it when the
\* tick began, and the GPUs of a chain have local ranks of their own, out of those of the
\* rank's world.  A pod that came back elsewhere under its name is left out.
RowsFit ==
    \A x \in rows : ~ x.back =>
        /\ x.owner \in x.holders
        /\ x.chain = x.owner[2] /\ x.local \in 0 .. Rank[x.rank].count - 1
        /\ \A y \in rows : ~ y.back /\ y.rank = x.rank /\ y.chain = x.chain /\ y.local = x.local
                => y.gpu = x.gpu

\* Whatever was lost on the way, and though a router that restarts knows nothing: in the
\* end it has, for each active rank that has pods, the number of chains all of whose pods
\* are ready.
RoutersLearn ==
    tick = "idle" => <>[](\A r \in active : Rank[r].kind = "online" /\ (\E p \in pods : p.rank = r) =>
            view[Rank[r].job][r] =
                Cardinality({c \in 0 .. Rank[r].n - 1 :
                    \A m \in 0 .. NodeCount(r) - 1 :
                        \E p \in pods : Slot(p) = [rank |-> r, chain |-> c, member |-> m]
                                        /\ p.ready}))

\* The same of a pod that came back under its name: "Pod identity is accepted only when its
\* job, plan, rank, and chain index match an active Rank row" (gpu_metrics_collector.py:18).
RowsAlwaysFit ==
    \A x, y \in rows : y.rank = x.rank /\ y.chain = x.chain /\ y.local = x.local
        => y.gpu = x.gpu
===================================================================================
