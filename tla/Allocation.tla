----------------------------- MODULE Allocation -----------------------------
(***************************************************************************)
(* Cost allocation (services/allocation) for the usage of one tenant, one   *)
(* cluster and one hour; the code's keys keep other buckets apart.  There   *)
(* are two implementations, allocateCosts in Go and the query of            *)
(* namespaceCostSQL, which serves the API.                                  *)
(*                                                                          *)
(* u is [cpu, net : [NodeUIDs \X NamespaceUIDs -> Nat],                     *)
(* allocatable : [NodeUIDs -> Nat \cup {NoNode}]].  Prices are integers     *)
(* that every denominator divides, so that the quotients are exact.         *)
(***************************************************************************)
EXTENDS Integers, FiniteSets, FiniteSetsExt

CONSTANTS NodeUIDs, NamespaceUIDs, \* "" is a node uid: the pod was not placed
          SystemNamespaces,
          NodePrice, ControlPlanePrice, NetworkPrice,
          SecondsPerHour,          \* 3600
          NoNode                   \* current_node has no row

Total(S, f(_)) == MapThenSumSet(f, S)

Larger(a, b) == IF a > b THEN a ELSE b
-----------------------------------------------------------------------------
(* allocateCosts, maxUint64 and the bucket keys. *)

Cost(direct, idle, network, control, system) ==
  [direct |-> direct, idle |-> idle, network |-> network, control |-> control,
   system |-> IF system THEN direct + network + control ELSE 0,
   allocated |-> direct + idle + network + control]

NodeTotal(u, n) == IF n = "" THEN 0 ELSE Total(NamespaceUIDs, LAMBDA ns : u.cpu[n, ns])

ClusterTotal(u) == Total(NodeUIDs, LAMBDA n : NodeTotal(u, n))

NodeAllocatable(u, n) ==
  IF NodeTotal(u, n) = 0 \/ u.allocatable[n] = NoNode THEN 0
  ELSE u.allocatable[n] * SecondsPerHour

\* Fault variant: requests beyond the allocatable CPU are not clamped.
AllocatableOnly(u, n) ==
  IF NodeAllocatable(u, n) = 0 THEN NodeTotal(u, n) ELSE NodeAllocatable(u, n)

Denominator(u, n) == Larger(NodeTotal(u, n), NodeAllocatable(u, n))

\* The nodes a namespace is charged for.
Charged(u, ns) == {n \in NodeUIDs : Denominator(u, n) > 0 /\ u.cpu[n, ns] > 0}

NamespaceRow(u, ns) ==
  LET nodes == Charged(u, ns)
  IN  Cost(Total(nodes, LAMBDA n : (NodePrice * u.cpu[n, ns]) \div Denominator(u, n)), 0,
           Total(nodes, LAMBDA n : NetworkPrice * u.net[n, ns]),
           Total(nodes, LAMBDA n : (ControlPlanePrice * u.cpu[n, ns]) \div ClusterTotal(u)),
           ns \in SystemNamespaces)

IdleRow(u) ==
  Cost(0, Total({n \in NodeUIDs : Denominator(u, n) > NodeTotal(u, n)},
                LAMBDA n : (NodePrice * (Denominator(u, n) - NodeTotal(u, n))) \div Denominator(u, n)),
       0, 0, FALSE)

AllocateCosts(u) ==
  LET named == {ns \in NamespaceUIDs : Charged(u, ns) # {}}
      idle == {"__idle__" : n \in {m \in NodeUIDs : Denominator(u, m) > NodeTotal(u, m)}}
  IN  [ns \in named \cup idle |-> IF ns \in named THEN NamespaceRow(u, ns) ELSE IdleRow(u)]
-----------------------------------------------------------------------------
(* namespaceCostSQL: the common table expressions, one operator each. *)

Usage(u) == {p \in NodeUIDs \X NamespaceUIDs : u.cpu[p] > 0}

\* node_requests joined with current_node: nodes without inventory drop out.
NodeRequests(u, n) == Total({p \in Usage(u) : p[1] = n}, LAMBDA p : u.cpu[p])

JoinedNodes(u) == {n \in NodeUIDs : NodeRequests(u, n) > 0 /\ u.allocatable[n] # NoNode}

ClusterRequests(u) == Total(Usage(u), LAMBDA p : u.cpu[p])

\* greatest(allocatable, requested).
Capacity(u, n) == Larger(u.allocatable[n] * SecondsPerHour, NodeRequests(u, n))

AllocatedCTE(u, ns) ==
  LET rows == {p \in Usage(u) : p[2] = ns /\ p[1] \in JoinedNodes(u)}
  IN  Cost(Total(rows, LAMBDA p : (NodePrice * u.cpu[p]) \div Capacity(u, p[1])), 0,
           Total(rows, LAMBDA p : NetworkPrice * u.net[p]),
           Total(rows, LAMBDA p : (ControlPlanePrice * u.cpu[p]) \div ClusterRequests(u)),
           ns \in SystemNamespaces)

\* The idle row is there whenever a node is, with or without idle capacity.
IdleCTE(u) ==
  Cost(0, Total(JoinedNodes(u), LAMBDA n :
            (NodePrice * Larger(Capacity(u, n) - NodeRequests(u, n), 0)) \div Capacity(u, n)),
       0, 0, FALSE)

NamespaceCostSQL(u) ==
  LET named == {p[2] : p \in {q \in Usage(u) : q[1] \in JoinedNodes(u)}}
      idle == {"__idle__" : n \in JoinedNodes(u)}
  IN  [ns \in named \cup idle |-> IF ns \in named THEN AllocatedCTE(u, ns) ELSE IdleCTE(u)]
-----------------------------------------------------------------------------
SumOf(rows, field(_)) == Total(DOMAIN rows, LAMBDA ns : field(rows[ns]))

\* Nothing is charged twice and nothing is left over: what the rows say of the
\* nodes adds up to the price of every node with requests, over-committed,
\* idle or without inventory; the control plane is charged once; and the
\* system share is part of the allocated cost.
CostsAddUp(u) ==
  LET rows == AllocateCosts(u)
      nodes == {n \in NodeUIDs : NodeTotal(u, n) > 0}
  IN  /\ SumOf(rows, LAMBDA c : c.direct) + SumOf(rows, LAMBDA c : c.idle)
           = NodePrice * Cardinality(nodes)
      /\ SumOf(rows, LAMBDA c : c.control) = IF nodes = {} THEN 0 ELSE ControlPlanePrice
      /\ \A ns \in DOMAIN rows : rows[ns].system \in {0, rows[ns].allocated}

\* The query charges what allocateCosts does, row by row, for usage on nodes
\* the inventory knows (only an idle row of cost 0 may be extra); a node it
\* does not know drops out of the query with all its usage, and the query
\* never charges more than the nodes it joined cost.
QueryAgrees(u) ==
  LET go == AllocateCosts(u)
      sql == NamespaceCostSQL(u)
      known == \A p \in Usage(u) : p[1] # "" /\ u.allocatable[p[1]] # NoNode
  IN  /\ known => /\ \A ns \in DOMAIN go : ns \in DOMAIN sql /\ sql[ns] = go[ns]
                  /\ \A ns \in DOMAIN sql \ DOMAIN go : sql[ns].allocated = 0
      /\ SumOf(sql, LAMBDA c : c.direct) + SumOf(sql, LAMBDA c : c.idle)
           = NodePrice * Cardinality(JoinedNodes(u))
      /\ SumOf(sql, LAMBDA c : c.control) <= ControlPlanePrice
=============================================================================
