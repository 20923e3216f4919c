--------------------------- MODULE MCComponents -----------------------------
(* Instance of Components for TLC: small sets of inputs for every topic. *)
EXTENDS Components, MCObservationValidation

\* Two known nodes, one pod without a node, two namespaces.
AllocationInputs ==
  {[cpu |-> c, net |-> [p \in NodeUIDs \X NamespaceUIDs |-> 1],
    allocatable |-> [n \in NodeUIDs |-> IF n = "" THEN NoNode ELSE a[n]]] :
     c \in [NodeUIDs \X NamespaceUIDs -> 0..2],
     a \in [NodeUIDs \ {""} -> {NoNode, 0, 1, 3}]}

Sample(seconds, cpu, memory, cpuRequest, memoryRequest) ==
  [seconds |-> seconds, cpu |-> cpu, memory |-> memory, cpuRequest |-> cpuRequest,
   memoryRequest |-> memoryRequest]

Samples ==
  {Sample(s, c, m, r, 40) : s \in {2}, c \in {0, 3, 20}, m \in {2, 16}, r \in {0, 40}}
  \cup {Sample(0, 50, 50, 50, 50), Sample(1, 9, 1, 20, 0)}

RightsizingInputs == UNION {[1..n -> Samples] : n \in 1..3}

PercentileInputs ==
  {[values |-> [i \in 1..n |-> (i * k) % m], quantile |-> q] :
     n \in 0..41, k \in {1, 7}, m \in {5, 43}, q \in {50, 95, 99}}

Price(account, start, end, value) ==
  [account |-> account, sku |-> "s", unit |-> "h", start |-> start, end |-> end,
   label |-> "v", price |-> value]

Prices == {Price(a, s, e, 1) : a \in {"", "a"}, s \in {1, 2}, e \in {2, 3, NoEnd}}
BadPrice == Price("a", 1, NoEnd, Malformed)

PriceRequests ==
  {<<p>> : p \in Prices} \cup {<<p, BadPrice>> : p \in Prices}
  \cup {<<Price("a", 1, NoEnd, 1), Price("a", 1, e, 2)>> : e \in {2, 3}}

PriceInputs ==
  {[imports |-> i, now |-> 3, lookup |-> [account |-> "a", sku |-> "s", unit |-> "h", at |-> at]] :
     i \in UNION {[1..n -> PriceRequests] : n \in 0..2}, at \in 0..2}
  \cup {[imports |-> i, now |-> 2, lookup |-> [account |-> a, sku |-> "s", unit |-> "h", at |-> 0]] :
          i \in [1..3 -> {<<p>> : p \in Prices}], a \in {"a", "b"}}

Charge(id, start, net) ==
  [id |-> id, account |-> "a", period |-> 1, start |-> start, end |-> 4, net |-> net]

ChargeRequests ==
  {<<Charge(i, s, n)>> : i \in {"x", "y"}, s \in {1, 2}, n \in {5, 6}}
  \cup {<<Charge("x", 1, 7), Charge("x", 2, 8)>>, <<Charge("y", 1, 1), Charge("x", 1, Malformed)>>,
        <<Charge("", 1, 1)>>, <<Charge("x", 4, 1)>>,
        <<Charge("x", 1, 1), Charge("y", 1, 1), Charge("y", 2, 1)>>}

ChargeInputs == UNION {[1..n -> ChargeRequests] : n \in 0..3}

Q(amount, unit) == [amount |-> amount, unit |-> unit]

Requirement(key, values) == [key |-> key, operator |-> "In", values |-> values]

Pool(name, types, many, consolidation) ==
  [name |-> name, policy |-> IF consolidation THEN "WhenEmpty" ELSE "Never",
   requirements |->
     {Requirement("capacity-type", {t}) : t \in types}
     \cup {Requirement("instance-category", IF many THEN {"c", "m", "r", "x"} ELSE {""}),
           Requirement("zone", IF many THEN {"z1", "z2", "z3", "z4"} ELSE {"z1"})}
     \cup (IF many THEN {Requirement("instance-type", {"i1", "i2", "i3", "i4", "i5"})} ELSE {})]

NodeClaims(name) ==
  {[name |-> name, pool |-> p, ready |-> r, node |-> n, cpuCapacity |-> c, memoryCapacity |-> m,
    cpuRequested |-> q[1], memoryRequested |-> q[2]] :
     p \in {"p1", "p2"}, r \in BOOLEAN, n \in {"n1", ""}, c \in {Missing, Q(4, "")},
     m \in {Missing, Q(2, "Mi")},
     q \in {<<Missing, Missing>>, <<Q(1000, "m"), Q(1, "Mi")>>, <<Q(8, ""), Q(16, "")>>}}

Nodes == [n \in {"n1"} |-> [cpu |-> Q(2, ""), memory |-> Q(4, "Mi")]]

Api(pools, claims, failing) ==
  [pools |-> pools, claims |-> claims, classes |-> {"default"}, nodes |-> Nodes,
   failing |-> failing]

KarpenterInputs ==
  {Api({Pool("p1", {}, FALSE, FALSE), Pool("p2", {"spot"}, TRUE, FALSE)}, {a, b}, {}) :
     a \in NodeClaims("c1"), b \in {c \in NodeClaims("c2") : c.pool = "p1"}}
  \cup {Api({Pool("p1", {"spot"}, TRUE, TRUE)}, {a}, f) :
          a \in NodeClaims("c1"), f \in SUBSET {"nodes", "nodepools", "nodeclaims", "nodeclasses"}}
  \cup {Api({Pool("p1", t, m, c)}, {}, {}) :
          t \in SUBSET {"spot", "on-demand"}, m \in BOOLEAN, c \in BOOLEAN}

Fact(cluster, namespace, bucket, value) ==
  [tenant |-> "t", cluster |-> cluster, namespace |-> namespace, bucket |-> bucket,
   value |-> value]

\* One fact or none for every cluster and namespace, and facts out of scope.
FactTables ==
  {{Fact(k[1], k[2], 2, v[k]) : k \in {j \in DOMAIN v : v[j] > 0}}
     \cup {Fact(1, 1, 1, 7), Fact(1, 1, 4, 7), [Fact(2, 1, 2, 7) EXCEPT !.tenant = "u"],
           Fact(1, 2, 3, 1)} :
     v \in [{1, 2} \X {1, 2, 3} -> 0..2]}

PageInputs ==
  {[kind |-> "costs", facts |-> f, teams |-> [n \in {1, 2} |-> 2 - n],
    request |-> [tenant |-> "t", cluster |-> c, start |-> 2, end |-> 4, group |-> g, limit |-> 0],
    limits |-> l] :
     f \in FactTables, c \in {0, 1}, g \in GroupNames,
     l \in {<<1, 1, 1, 1, 1, 1>>, <<0, 1, 2, 5, 1, 1>>}}

QualityInputs ==
  {[latest |-> l, cluster |-> c, now |-> n, window |-> w] :
     l \in [Sources \X {1, 2} -> {NoTime, 1, 3, 6}], c \in {0, 1}, n \in {3, 5}, w \in {0, 2}}

Observe == {[op |-> "observe", at |-> a, by |-> b, change |-> c] :
              a \in 1..3, b \in {"name", "uid"}, c \in {"upsert", "delete"}}
Normalize == {[op |-> "normalize", apply |-> a] : a \in BOOLEAN}

LineageInputs ==
  {[history |-> h, known |-> k] :
     h \in {s \in UNION {[1..n -> Observe \cup Normalize] : n \in 1..4} :
              \A i, j \in DOMAIN s : i # j /\ {s[i].op, s[j].op} = {"observe"} => s[i].at # s[j].at},
     k \in BOOLEAN}

URI(host, parts) == [scheme |-> "spiffe", host |-> host, parts |-> parts]

URIs == {URI("kube-cost", <<"tenant", t, "cluster", c>>) : t \in {"a", "b", ""}, c \in {"1", "2", ""}}
        \cup {URI("other", <<"tenant", "a", "cluster", "1">>), URI("kube-cost", <<"tenant", "a">>),
              [URI("kube-cost", <<"tenant", "b", "cluster", "1">>) EXCEPT !.scheme = "https"]}

IdentityInputs ==
  {[peer |-> [verified |-> v, uris |-> u],
    agents |-> {[tenant |-> t, cluster |-> c] : t \in {"a", "b", ""}, c \in {"1", "2", ""}}] :
     v \in BOOLEAN, u \in UNION {[1..n -> URIs] : n \in 0..2}}

MCInputs ==
  [allocation |-> AllocationInputs, rightsizing |-> RightsizingInputs,
   percentile |-> PercentileInputs, prices |-> PriceInputs, charges |-> ChargeInputs,
   karpenter |-> KarpenterInputs, pages |-> PageInputs, quality |-> QualityInputs,
   lineage |-> LineageInputs, identity |-> IdentityInputs]
=============================================================================
