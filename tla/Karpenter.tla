----------------------------- MODULE Karpenter -----------------------------
(***************************************************************************)
(* The Karpenter reader and scorer of the integrations service             *)
(* (services/integrations/reader.go, scoring.go).  api is what the         *)
(* Kubernetes API answers: a set of node pools, of node claims, of node     *)
(* classes, the nodes' capacities, and the names of the lists that fail.    *)
(*                                                                          *)
(* A quantity is [amount, unit]; a percentage and a score are integers in   *)
(* hundredths of a point, so a ratio of one is Whole.  The instance's       *)
(* capacities divide Whole, which makes the divisions exact; the code       *)
(* rounds its floats to the same hundredths.                                *)
(***************************************************************************)
EXTENDS Integers, FiniteSets, FiniteSetsExt

CONSTANTS MiB          \* bytes in a mebibyte, scaled down

Whole == 10000
Missing == [amount |-> 0, unit |-> "absent"]

Clamp(value, low, high) == IF value < low THEN low ELSE IF value > high THEN high ELSE value

Clamp01(value) == Clamp(value, 0, Whole)

\* ratio and percent: no capacity, no load.
Ratio(numerator, denominator) ==
  IF denominator = 0 THEN 0 ELSE (Whole * numerator) \div denominator

\* The value and the thousandths of a quantity, as resource.Quantity has them.
Value(q) == q.amount * (CASE q.unit = "Mi" -> MiB [] OTHER -> 1)
MilliValue(q) == IF q.unit = "m" THEN q.amount ELSE 1000 * Value(q)

\* quantityAt with parseQuantity: the unit decides between thousandths and
\* whole units, whatever the quantity measures.
ParseQuantity(q) ==
  CASE q = Missing -> 0
    [] q.unit = "Mi" -> Value(q)
    [] OTHER -> MilliValue(q)

FirstUint64(a, b) == IF a # 0 THEN a ELSE b

\* nodeMetrics: the capacities of the nodes by name; a list that fails, or a
\* node that is not there, has the zero metric.
NodeMetric(api, node) ==
  IF "nodes" \in api.failing \/ node \notin DOMAIN api.nodes THEN [cpu |-> 0, memory |-> 0]
  ELSE [cpu |-> MilliValue(api.nodes[node].cpu), memory |-> Value(api.nodes[node].memory)]

\* parseNodeClaim.
ParseNodeClaim(claim, api) ==
  LET metric == NodeMetric(api, claim.node)
      cpu == FirstUint64(ParseQuantity(claim.cpuCapacity), metric.cpu)
      memory == FirstUint64(ParseQuantity(claim.memoryCapacity), metric.memory)
  IN  [name |-> claim.name, pool |-> claim.pool, ready |-> claim.ready,
       cpu |-> Ratio(ParseQuantity(claim.cpuRequested), cpu),
       memory |-> Ratio(ParseQuantity(claim.memoryRequested), memory)]

\* requirementValues: the operator of a requirement is not looked at.
RequirementValues(requirements, key) ==
  UNION {r.values : r \in {q \in requirements : q.key = key}}

\* consolidationEnabled.
ConsolidationEnabled(policy) == policy \notin {"", "Never"}

\* parseNodePool.
ParseNodePool(item) ==
  [name |-> item.name,
   capacityTypes |-> RequirementValues(item.requirements, "capacity-type"),
   categories |-> RequirementValues(item.requirements, "instance-category"),
   instanceTypes |-> RequirementValues(item.requirements, "instance-type"),
   zones |-> RequirementValues(item.requirements, "zone"),
   consolidation |-> ConsolidationEnabled(item.policy)]

\* Snapshot: without its pools or its claims there is none...
SnapshotFails(api) == api.failing \cap {"nodepools", "nodeclaims"} # {}

\* ...but a list of node classes or of nodes that fails is an empty one.
Snapshot(api) ==
  [pools |-> {ParseNodePool(p) : p \in api.pools}, claims |-> {ParseNodeClaim(c, api) : c \in api.claims},
   classes |-> IF "nodeclasses" \in api.failing THEN {} ELSE api.classes]

\* Fault variant: the load of one claim is not clamped.
UnboundedLoad(claim) == (claim.cpu + claim.memory) \div 2

Load(claim) == Clamp01((claim.cpu + claim.memory) \div 2)

Mean(values(_), claims) == MapThenSumSet(values, claims) \div Cardinality(claims)

BinPackingScore(claims) ==
  IF claims = {} THEN 0
  ELSE Clamp01(MapThenSumSet(LAMBDA c : Clamp01((c.cpu + c.memory) \div 2), claims)
                 \div Cardinality(claims))

\* nodeUtilizationScore: the reader's utilization is the share requested, so
\* the fallback to that share changes nothing.
NodeUtilizationScore(claims) ==
  LET ready == {c \in claims : c.ready}
  IN  IF ready = {} THEN 0 ELSE Clamp01(Mean(Load, ready))

Points(values, each, most) == Min({Cardinality(values \ {""}) * each, most})

\* The points, not yet clamped.
SpotPoints(pool) ==
    (IF "spot" \in pool.capacityTypes THEN 4500 ELSE 0)
  + (IF {"spot", "on-demand"} \subseteq pool.capacityTypes THEN 1000 ELSE 0)
  + Points(pool.categories, 800, 2400) + Points(pool.instanceTypes, 400, 1600)
  + Points(pool.zones, 500, 1500) + (IF pool.consolidation THEN 500 ELSE 0)

SpotSuitabilityScore(pool) == Clamp(SpotPoints(pool), 0, Whole)

\* scoreNodePool.
ScoreNodePool(pool, claims) ==
  [pool |-> pool.name, count |-> Cardinality(claims),
   ready |-> Cardinality({c \in claims : c.ready}), binPacking |-> BinPackingScore(claims),
   spot |-> SpotSuitabilityScore(pool), utilization |-> NodeUtilizationScore(claims)]

AveragePoolScore(scores, field) ==
  IF scores = {} THEN 0 ELSE MapThenSumSet(LAMBDA s : s[field], scores) \div Cardinality(scores)

\* Score: a claim of a pool that is not listed counts for none.
KarpenterScores(snapshot) ==
  LET pools == {ScoreNodePool(p, {c \in snapshot.claims : c.pool = p.name}) : p \in snapshot.pools}
  IN  [pools |-> pools,
       binPacking |-> AveragePoolScore(pools, "binPacking"),
       spot |-> AveragePoolScore(pools, "spot"),
       utilization |-> AveragePoolScore(pools, "utilization")]
-----------------------------------------------------------------------------
\* Whatever the claims request of the capacity they report, scores stay between
\* 0 and 100 (docs/12-karpenter-integration.md), pool by pool and on average.
ScoresAreBounded(api) ==
  ~SnapshotFails(api) =>
    LET scores == KarpenterScores(Snapshot(api))
    IN  \A s \in scores.pools \cup {scores} :
          {s.binPacking, s.spot, s.utilization} \subseteq 0..Whole

\* A pool whose claims are all ready packs as well as it is utilized: one claim
\* that requests more than its capacity does not make up for an idle one, in
\* either score.
ScoresAgreeWhenReady(api) ==
  ~SnapshotFails(api) =>
    \A s \in KarpenterScores(Snapshot(api)).pools :
      s.ready = s.count => s.binPacking = s.utilization
=============================================================================
