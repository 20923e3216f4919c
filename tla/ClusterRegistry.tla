-------------------------- MODULE ClusterRegistry --------------------------
(***************************************************************************)
(* Cluster registration (services/cluster-registry).  The repository reads  *)
(* its clock inside the lock, unlike the other stores.                      *)
(***************************************************************************)
EXTENDS Gateway, FiniteSets

CONSTANTS ClusterNames, EnrollmentTTL

ASSUME EnrollmentAssumption == EnrollmentTTL \in Nat

VARIABLE clusters          \* registrations in the order of the lock: [tenant, id, name, createdAt]

RegisterRequests == [op : {"registerCluster"}, name : ClusterNames \cup {""}]

RegistryAdmits(r, now) == AuthenticatedTenant(r, now) /\ r.body.name # ""

RegistryInit == clusters = <<>>

\* Create: the new identifier is random, so no entry is ever replaced.
RegisterCluster(t, request, id, at, now) ==
  clusters' = Append(clusters, [tenant |-> t, id |-> id, name |-> request.name, createdAt |-> now])

\* sort.Slice by CreatedAt of what the walk over the map has found; which of
\* two with the same time comes first is not told apart.
InCreationOrder(found) ==
  CHOOSE list \in [1 .. Cardinality(found) -> found] :
    /\ Range(list) = found
    /\ \A i, j \in DOMAIN list : i < j => list[i].createdAt <= list[j].createdAt

\* List and Get: only clusters of the tenant; List sorts by creation time.
ListClusters(t) == InCreationOrder({c \in Range(clusters) : c.tenant = t})

\* registerCluster: the enrollment token lives from the creation on.
TokenExpiresAt(c) == c.createdAt + EnrollmentTTL
-----------------------------------------------------------------------------
\* Of two registrations the one that took the lock first never shows the later
\* time (Create reads the clock while holding it), so its token expires first.
TokensExpireInOrder ==
  \A i, j \in DOMAIN clusters :
    i < j => TokenExpiresAt(clusters[i]) <= TokenExpiresAt(clusters[j])

\* Clusters are listed in the order they were registered in, which is also the
\* order their tokens expire in.
ListedInOrderOfRegistration ==
  /\ TokensExpireInOrder
  /\ \A t \in Tenants :
       LET Own(c) == c.tenant = t
           registered == SelectSeq(clusters, Own)
       IN  \A i \in DOMAIN registered :
             ListClusters(t)[i].createdAt = registered[i].createdAt
=============================================================================
