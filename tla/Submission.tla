------------------------------- MODULE Submission -------------------------------
(***************************************************************************)
(* From a request to the launches it asks SkyPilot for: submit_batch and   *)
(* scale_replicas (server.py), the placement they call                     *)
(* (placement/roofline_magic.py), the choice of regions                    *)
(* (quota/region_selector.py) and the two launch paths                     *)
(* (orca_server/launcher.py), for one job.                                 *)
(*                                                                         *)
(* A request is placed: a primary configuration, and the alternatives that *)
(* Koi named as fallbacks.  Each attempt checks the topology, orders the   *)
(* regions by the quotas that a cache has of AWS, and offers the first     *)
(* five of them to SkyPilot, which gets a cluster in one of them or fails; *)
(* then the next configuration is tried.  A launched chunked job may be    *)
(* scaled, with the shape of a replica it has unless the request has one.  *)
(*                                                                         *)
(* Instances are of one quota family, and one replica stands for those of  *)
(* a job, which all do the same.  What the solver finds and what it thinks *)
(* feasible, what SkyPilot gets and what AWS says of a quota is external.  *)
(* A client may ask test_placement for the same decision first, without a  *)
(* launch: all the two have in common is the cache of quotas.  Redis is up. *)
(***************************************************************************)
EXTENDS Naturals, Sequences, FiniteSets

CONSTANTS Types,        \* AWS_INSTANCES: type -> [gpu, gpus, vcpus]
          Regions,      \* AWS_REGIONS, numbered in the order of their names
          Mapped,       \* those that GPU_AMI_MAP has an image for
          Home,         \* us-east-1
          Quotas,       \* what AWS may grant: region -> [spot, on_demand]
          CsvQuota,     \* vCPUs on demand in us-east-1, in the quota CSV of the repository
          Allowed,      \* the types of ALLOWED_INSTANCE_PREFIXES
          Supported,    \* the types of the solver's cloud_instances_specs.csv
          Solutions,    \* configurations that the solver may find, at most one of them
          Context,      \* max_model_len on a type, in units of tokens; 0 if infeasible
          Fallback,     \* the type of _fallback_config
          Submissions, Scales,
          MaxExpiries   \* bound: expiries of the quota cache

Markets == {"spot", "on_demand"}

ASSUME SubmissionAssumption ==
    /\ \A t \in DOMAIN Types : Types[t].gpus \in Nat \ {0} /\ Types[t].vcpus \in Nat \ {0}
    /\ Regions \subseteq Nat /\ IsFiniteSet(Regions)
    /\ Mapped \subseteq Regions /\ Home \in Mapped
    /\ Cardinality(Regions \ Mapped) <= 2
    /\ Quotas \subseteq [Regions -> [spot : Nat, on_demand : Nat]]
    /\ Fallback \in DOMAIN Types /\ Types[Fallback].gpus >= 4
    /\ Allowed \subseteq DOMAIN Types /\ Supported \subseteq DOMAIN Types
    /\ \A t \in DOMAIN Types : Context[t] \in Nat
    /\ CsvQuota \in Nat /\ MaxExpiries \in Nat

VARIABLES aws,        \* the quotas that AWS grants
          cache,      \* _quota_cache: {} or one answer
          csv,        \* the quota CSV: what it has for us-east-1, and if it was rewritten
          told,       \* what test_placement answered the client: {} or one answer
          request,    \* the request that was submitted
          stage,      \* idle, trying, launching, launched, failed, refused
          configs,    \* the primary configuration and its fallbacks
          at,         \* the one that is tried
          offers,     \* the resources that SkyPilot was given
          check,      \* the quotas of the check in submit_batch, if it warned: {} or one
          scale,      \* the scale request: {} or one
          expiries

submissionVars ==
    <<aws, cache, csv, told, request, stage, configs, at, offers, check, scale, expiries>>

-----------------------------------------------------------------------------
(* Placement.                                                              *)

Smaller(a, b) == IF a <= b THEN a ELSE b
Larger(a, b) == IF a <= b THEN b ELSE a
Ceiling(a, b) == (a + b - 1) \div b

\* resolve_gpu_type_to_instance: the smallest instance that has the GPUs for TP, of some the
\* first in a table that is built once; none is a ValueError.
Resolve(gpu, tp) ==
    LET enough == {t \in DOMAIN Types : Types[t].gpu = gpu /\ Types[t].gpus >= tp}
        least == {t \in enough : \A u \in enough : Types[t].gpus <= Types[u].gpus}
    IN {t \in least : t = CHOOSE u \in least : TRUE}

\* Fault: a stage for each GPU.
UserNodesByGpus(t, tp, pp) == Ceiling(pp, Types[t].gpus)

\* The nodes of a configuration that the user specified, of one of Koi's alternatives and
\* of replicas that are added.
UserNodes(t, tp, pp) == Ceiling(pp, Types[t].gpus \div tp)
AlternativeNodes(t, tp, pp) == Larger(1, (tp * pp) \div Types[t].gpus)
ScaleNodes(t, tp, pp) == pp

Config(t, tp, pp, nodes, market) ==
    [type |-> t, tp |-> tp, pp |-> pp, nodes |-> nodes, market |-> market]

\* _validate_parallelism_topology: TP stays in a node, and the nodes hold all stages.
Fits(c) ==
    LET gpus == Types[c.type].gpus
    IN c.tp <= gpus /\ c.nodes >= Ceiling(c.pp, Larger(1, gpus \div c.tp))

\* submit_batch on planned_market and preferred_market.
SubmitMarket(q) == IF q.planned # "none" THEN q.planned ELSE q.preferred

\* What the alternatives add: those that resolve, each with its market.
Alternatives(q) ==
    LET resolved == SelectSeq(q.alternatives, LAMBDA a : Resolve(a.gpu, a.tp) # {})
    IN [k \in DOMAIN resolved |->
           LET a == resolved[k]
               t == CHOOSE u \in Resolve(a.gpu, a.tp) : TRUE
           IN Config(t, a.tp, a.pp, AlternativeNodes(t, a.tp, a.pp),
                     IF a.planned # "none" THEN a.planned ELSE SubmitMarket(q))]

\* quota_to_gpu_pool: at most four of a type, and what the CSV allows.
Pool(t) == Smaller(csv.quota \div Types[t].vcpus, 4)

\* PlacementSolverAdapter.solve: the pool is cut to what the solver knows, and a pool that
\* was empty to begin with is no pool: the solver goes by its own then.
Solvable ==
    LET pool == {t \in Allowed : Pool(t) > 0}
    IN IF pool = {} THEN Solutions
       ELSE {d \in Solutions : d.type \in pool \cap Supported /\ d.nodes <= Pool(d.type)}

\* process_batch_multi: what solve_multi finds, at most one, or the fallback.
Roofline == {<<c>> : c \in Solvable} \cup {<<Config(Fallback, 4, 1, 1, "none")>>}

\* The longest prompt and the output are more than the primary has room for, as far as the
\* server counted them; an infeasible configuration has no max_model_len.
Exceeds(q, c, counted) == counted /\ Context[c.type] # 0 /\ q.need > Context[c.type]

-----------------------------------------------------------------------------
(* Regions.                                                                *)

\* get_ordered_regions: the regions and markets with enough quota for all nodes ...
Candidates(quotas, c, preferSpot, target) ==
    {o \in [region : Regions, market : Markets] :
        /\ quotas[o.region][o.market] >= Types[c.type].vcpus * c.nodes
        /\ target \in {"none", o.market}
        /\ o.market = "spot" => target = "spot" \/ preferSpot}

\* ... in the order of its sort key.
Before(quotas, preferSpot, o, p) ==
    LET a == quotas[o.region][o.market]
        b == quotas[p.region][p.market]
        key(x) == IF x.market = "spot" /\ preferSpot THEN 0 ELSE 1
    IN \/ a > b
       \/ a = b /\ key(o) < key(p)
       \/ a = b /\ key(o) = key(p) /\ o.region < p.region

\* The first n.
First(n, quotas, preferSpot, found) ==
    {o \in found : Cardinality({p \in found : Before(quotas, preferSpot, p, o)}) < n}

\* Fault: one candidate less.
OfferedOfFour(quotas, preferSpot, found) ==
    {o \in First(4, quotas, preferSpot, found) : o.region \in Mapped}

\* Five candidates, less those without an image.
Offered(quotas, preferSpot, found) ==
    {o \in First(5, quotas, preferSpot, found) : o.region \in Mapped}

\* The entry without use_spot that stands in when nothing is offered.
HomeOnly == {[region |-> Home, market |-> "on_demand"]}

\* _requested_market of the launcher; preferSpot is a market here, or "none".
RequestedMarket(c) ==
    IF c.market # "none" THEN c.market
    ELSE IF request.planned # "none" THEN request.planned
    ELSE IF request.preferred # "none" THEN request.preferred
    ELSE request.preferSpot

-----------------------------------------------------------------------------

NoRequest == [solver |-> "none"]

SubmissionInit ==
    /\ aws \in Quotas /\ cache = {} /\ told = {} /\ request = NoRequest
    /\ csv = [quota |-> CsvQuota, fresh |-> FALSE]
    /\ stage = "idle" /\ configs = <<>> /\ at = 0 /\ offers = {}
    /\ check = {} /\ scale = {} /\ expiries = 0

\* query_quota fails for some region: it has no quota then.
QueryFails(r) == [aws EXCEPT ![r] = [spot |-> 0, on_demand |-> 0]]

\* What get_cached_quotas may return; the cache holds it then.
CachedQuotas == IF cache = {} THEN {aws} \cup {QueryFails(r) : r \in Regions} ELSE cache

\* refresh_quotas_from_aws, a thread of the server's start, has rewritten the CSV; a query
\* that failed leaves a zero.  After the placement nobody here reads it.
RefreshQuotas ==
    /\ stage = "idle" /\ ~ csv.fresh
    /\ \E q \in {aws[Home].on_demand, 0} : csv' = [quota |-> q, fresh |-> TRUE]
    /\ UNCHANGED <<aws, cache, told, request, stage, configs, at, offers, check, scale, expiries>>

\* Five minutes pass.
CacheExpires ==
    /\ cache # {} /\ stage \in {"idle", "trying", "launched"} /\ expiries < MaxExpiries
    /\ cache' = {} /\ expiries' = expiries + 1
    /\ UNCHANGED <<aws, csv, told, request, stage, configs, at, offers, check, scale>>

\* The look at the quotas, of submit_batch and of test_placement: no region will do.
NoRegion(q, c, quotas) ==
    LET market == SubmitMarket(q)
        spot == IF market = "none" THEN q.preferSpot = "spot" ELSE market = "spot"
    IN Candidates(quotas, c, spot, market) = {}

\* test_placement, which counts the nodes for itself and has counted every prompt.
DryNodes(t, tp, pp) == Ceiling(pp, Types[t].gpus \div tp)
DryRun(q) ==
    /\ stage = "idle" /\ told = {}
    /\ \/ /\ q.solver = "user_specified"
          /\ \E t \in Resolve(q.gpu, q.tp), quotas \in CachedQuotas :
                LET c == Config(t, q.tp, q.pp, DryNodes(t, q.tp, q.pp), SubmitMarket(q))
                IN /\ cache' = {quotas}
                   /\ told' = {[of |-> q, config |-> c, feasible |-> Context[t] # 0,
                                exceeds |-> Exceeds(q, c, TRUE), seen |-> quotas,
                                warns |-> NoRegion(q, c, quotas)]}
       \/ /\ q.solver \in {"roofline", "llm"}
          /\ \E found \in Roofline :
                told' = {[of |-> q, config |-> found[1], feasible |-> TRUE,
                          exceeds |-> Exceeds(q, found[1], TRUE), seen |-> aws,
                          warns |-> FALSE]}
          /\ UNCHANGED cache
    /\ UNCHANGED <<aws, csv, request, stage, configs, at, offers, check, scale, expiries>>

\* submit_batch has the prompts of a chunked job only counted by the client, if at all.
Counted(q) == q.counts \/ ~ q.chunked

\* submit_batch refuses: the solver is not known, or the GPU resolves to no instance; ...
RefuseSolver(q) ==
    /\ stage = "idle"
    /\ q.solver = "user_specified" => Resolve(q.gpu, q.tp) = {}
    /\ q.solver # "roofline"
    /\ stage' = "refused" /\ request' = q /\ told' = {}
    /\ UNCHANGED <<aws, cache, csv, configs, at, offers, check, scale, expiries>>

\* ... what the user specified is infeasible and not forced, after the look at the quotas, ...
RefuseInfeasible(q) ==
    /\ stage = "idle" /\ q.solver = "user_specified" /\ ~ q.force
    /\ \E t \in Resolve(q.gpu, q.tp) : Context[t] = 0
    /\ \E quotas \in CachedQuotas : cache' = {quotas}
    /\ stage' = "refused" /\ request' = q /\ told' = {}
    /\ UNCHANGED <<aws, csv, configs, at, offers, check, scale, expiries>>

\* What submit_batch places for the user, and with roofline: the configurations, the quotas
\* that are cached after it, and those that made it warn.
Placements(q) ==
    IF q.solver = "roofline"
    THEN {[configs |-> found, cache |-> cache, check |-> {}] : found \in Roofline}
    ELSE LET primary(t) == Config(t, q.tp, q.pp, UserNodes(t, q.tp, q.pp), SubmitMarket(q))
             able == {t \in Resolve(q.gpu, q.tp) : Context[t] # 0 \/ q.force}
         IN {[configs |-> <<primary(o[1])>> \o Alternatives(q), cache |-> {o[2]},
              check |-> IF NoRegion(q, primary(o[1]), o[2]) THEN {o[2]} ELSE {}] :
                o \in able \X CachedQuotas}

\* ... or the longest prompt exceeds the context of the primary.
RefuseLong(q) ==
    /\ stage = "idle" /\ q.solver \in {"user_specified", "roofline"}
    /\ \E p \in Placements(q) :
          Exceeds(q, p.configs[1], Counted(q)) /\ cache' = p.cache
    /\ stage' = "refused" /\ request' = q /\ told' = {}
    /\ UNCHANGED <<aws, csv, configs, at, offers, check, scale, expiries>>

\* submit_batch goes on to the launch.
Place(q) ==
    /\ stage = "idle" /\ q.solver \in {"user_specified", "roofline"}
    /\ \E p \in Placements(q) :
          /\ ~ Exceeds(q, p.configs[1], Counted(q))
          /\ configs' = p.configs /\ cache' = p.cache /\ check' = p.check
    /\ request' = q /\ stage' = "trying" /\ at' = 1 /\ told' = {}
    /\ UNCHANGED <<aws, csv, offers, scale, expiries>>

\* What comes after a configuration that could not be launched.
NextConfig ==
    IF at < Len(configs)
    THEN at' = at + 1 /\ stage' = "trying"
    ELSE stage' = "failed" /\ UNCHANGED at

\* The topology does not fit: _validate_parallelism_topology raises.
Misfit ==
    /\ stage = "trying" /\ ~ Fits(configs[at])
    /\ NextConfig
    /\ UNCHANGED <<aws, cache, csv, told, request, configs, offers, check, scale, expiries>>

\* _launch_chunked_replica up to sky.launch: one market if one is requested, and no launch
\* without a candidate in it.
AttemptReplica ==
    LET c == configs[at]
        market == RequestedMarket(c)
    IN /\ stage = "trying" /\ request.chunked /\ Fits(c)
       /\ \E quotas \in CachedQuotas :
             LET o == Offered(quotas, market = "spot",
                              Candidates(quotas, c, market = "spot", market))
             IN /\ cache' = {quotas}
                /\ IF o = {} /\ market # "none"
                   THEN NextConfig /\ UNCHANGED offers
                   ELSE /\ offers' = IF o # {} THEN o ELSE HomeOnly
                        /\ stage' = "launching" /\ UNCHANGED at
       /\ UNCHANGED <<aws, csv, told, request, configs, check, scale, expiries>>

\* sp_launch_vllm_batch up to sky.launch: prefer_spot is all it looks at.
AttemptCluster ==
    LET c == configs[at]
        spot == request.preferSpot = "spot"
    IN /\ stage = "trying" /\ ~ request.chunked /\ Fits(c)
       /\ \E quotas \in CachedQuotas :
             LET o == Offered(quotas, spot, Candidates(quotas, c, spot, "none"))
             IN cache' = {quotas} /\ offers' = IF o # {} THEN o ELSE HomeOnly
       /\ stage' = "launching"
       /\ UNCHANGED <<aws, csv, told, request, configs, at, check, scale, expiries>>

\* SkyPilot gets the cluster in one of the offers.
Launched ==
    /\ stage = "launching"
    /\ \E o \in offers : offers' = {o}
    /\ stage' = "launched"
    /\ UNCHANGED <<aws, cache, csv, told, request, configs, at, check, scale, expiries>>

\* SkyPilot gets none.
LaunchFails ==
    /\ stage = "launching"
    /\ NextConfig /\ offers' = {}
    /\ UNCHANGED <<aws, cache, csv, told, request, configs, check, scale, expiries>>

-----------------------------------------------------------------------------
(* scale_replicas.                                                         *)

\* _infer_job_config: a replica's state has tp and pp, and is asked for tp_size and
\* pp_size; without a live replica the record of the job has the primary's.
Infer(live) ==
    IF live
    THEN [gpu |-> Types[configs[at].type].gpu, tp |-> 1, pp |-> 1]
    ELSE [gpu |-> Types[configs[1].type].gpu, tp |-> configs[1].tp, pp |-> configs[1].pp]

Or(a, b) == IF a # 0 THEN a ELSE b

\* The shape of the replicas that s asks for.
Shape(s, live) ==
    IF s.gpu = "none"
    THEN LET i == Infer(live) IN [gpu |-> i.gpu, tp |-> Or(s.tp, i.tp), pp |-> Or(s.pp, i.pp)]
    ELSE [gpu |-> s.gpu, tp |-> Or(s.tp, 1), pp |-> Or(s.pp, 1)]

\* _resolve_requested_market, for the request and again in _do_scale, where on_demand is
\* never None: spot if nothing was asked for.
ScaleMarket(s) ==
    IF s.planned # "none" THEN s.planned
    ELSE IF s.on_demand = "yes" THEN "on_demand" ELSE "spot"

\* scale_replicas and _do_scale, for a job whose replica is live or gone.
Scale(s, live) ==
    /\ stage = "launched" /\ request.chunked /\ scale = {}
    /\ LET shape == Shape(s, live)
           market == ScaleMarket(s)
       IN /\ \E t \in Resolve(shape.gpu, shape.tp) :
                configs' = <<Config(t, shape.tp, shape.pp,
                                    ScaleNodes(t, shape.tp, shape.pp), market)>>
          /\ request' = [solver |-> "scale", planned |-> market, preferred |-> market,
                         preferSpot |-> market, chunked |-> TRUE]
          /\ scale' = {[asked |-> s, live |-> live, tp |-> configs[at].tp,
                        pp |-> configs[at].pp]}
    /\ stage' = "trying" /\ at' = 1 /\ offers' = {} /\ check' = {}
    /\ UNCHANGED <<aws, cache, csv, told, expiries>>

-----------------------------------------------------------------------------

SubmissionNext ==
    \/ RefreshQuotas \/ CacheExpires
    \/ \E q \in Submissions :
          DryRun(q) \/ RefuseSolver(q) \/ RefuseInfeasible(q) \/ RefuseLong(q) \/ Place(q)
    \/ Misfit \/ AttemptReplica \/ AttemptCluster
    \/ Launched \/ LaunchFails
    \/ \E s \in Scales, live \in BOOLEAN : Scale(s, live)

SubmissionSpec == SubmissionInit /\ [][SubmissionNext]_submissionVars

-----------------------------------------------------------------------------
(* Properties.                                                             *)

SubmissionTypeOK ==
    /\ stage \in {"idle", "trying", "launching", "launched", "failed", "refused"}
    /\ \A k \in DOMAIN configs :
          configs[k] \in [type : DOMAIN Types, tp : Nat \ {0}, pp : Nat \ {0},
                          nodes : Nat \ {0}, market : Markets \cup {"none"}]
    /\ stage \notin {"idle", "refused"} => at \in DOMAIN configs
    /\ offers \subseteq [region : Regions, market : Markets]
    /\ Cardinality(cache) <= 1 /\ Cardinality(check) <= 1 /\ Cardinality(scale) <= 1

\* The nodes that the server counts out for a configuration of the user, and for replicas
\* that are added, are enough for the launcher, which counts in another way: such a launch
\* is never turned down for its topology.
OwnConfigsFit ==
    stage = "trying" /\ at = 1 /\ request.solver # "roofline" => Fits(configs[1])

\* The cut to five candidates comes before the regions without an image are dropped: still,
\* as long as some region with an image has the quota in a market that will do, SkyPilot is
\* sent only to such regions.
ImageAndQuota ==
    stage = "launching" =>
        LET c == configs[at]
            market == IF request.chunked THEN RequestedMarket(c) ELSE "none"
            spot == IF market = "none" THEN request.preferSpot = "spot" ELSE market = "spot"
            good == {o \in UNION {Candidates(q, c, spot, market) : q \in cache} :
                        o.region \in Mapped}
        IN good # {} => offers \subseteq good

\* A replica of a chunked job is only ever launched in the market that its configuration
\* names, or else the request: across the fallbacks, the cache and the scaling of the job.
MarketKept ==
    stage \in {"launching", "launched"} /\ request.chunked =>
        LET c == configs[at]
            named == IF c.market # "none" THEN c.market ELSE SubmitMarket(request)
        IN named # "none" => \A o \in offers : o.market = named

\* A warning of submit_batch that no region has the quota is borne out by the launch of the
\* primary, which resolves the market by other rules, as long as the cache holds.
WarningIsRight ==
    stage = "launching" /\ at = 1 /\ check # {} /\ check = cache /\ request.chunked
        => offers = HomeOnly

\* What test_placement told a client is borne out by submit_batch, which repeats the
\* decision, for what the client specified and while the quotas stay cached: it does not
\* refuse what was found good, and places it on as many nodes and with the same warning.
DryRunHolds ==
    [][\A d \in told :
          /\ stage' # "idle" /\ request' = d.of /\ d.of.solver = "user_specified"
          /\ cache' = {d.seen}
          => IF stage' = "refused" THEN ~ d.feasible \/ d.exceeds
             ELSE configs'[1] = d.config /\ (check' # {}) = d.warns]_submissionVars

\* "Infer GPU/TP/PP/instance_type from an existing job's active replicas" (server.py:1380):
\* replicas that are added without a shape have that of the replicas there are.
ScaleKeepsShape ==
    \A s \in scale :
        s.live /\ s.asked.gpu = "none" /\ s.asked.tp = 0 /\ s.asked.pp = 0
            => configs[1].tp = s.tp /\ configs[1].pp = s.pp

\* "planned_market is the exact market selected by Koi for this config" (launcher.py:83),
\* on either path.
PlannedIsExact ==
    stage = "launching" /\ configs[at].market # "none"
        => \A o \in offers : o.market = configs[at].market

\* Koi's alternatives are there "for fallback retry" (models/requests.py): each could be
\* launched.
AlternativesFit == \A k \in DOMAIN configs : at > 0 /\ k > 1 => Fits(configs[k])
================================================================================
