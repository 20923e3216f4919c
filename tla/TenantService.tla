--------------------------- MODULE TenantService ---------------------------
(***************************************************************************)
(* Tenant membership (services/tenant): who belongs to a tenant, with which *)
(* role.  A handler authenticates, decodes and normalises the request, then *)
(* takes the store's lock once; `now` is read before the lock.              *)
(***************************************************************************)
EXTENDS Gateway

CONSTANT Principals

VARIABLE members           \* of each tenant, by principal

\* normalizeRole: trimmed and lower-cased, one of the three roles.
NormalizedRole == [OWNER |-> "owner", admin |-> "admin", viewer |-> "viewer"]

MemberRequests ==
  [op : {"putMember"}, principal : Principals, role : {"OWNER", "wizard"}]
    \cup [op : {"deleteMember"}, principal : Principals]

TenantAdmits(r, now) ==
  /\ AuthenticatedTenant(r, now)
  /\ r.body.op = "putMember" => r.body.role \in DOMAIN NormalizedRole

TenantInit == members = [t \in Tenants |-> <<>>]

\* Members: what GET /api/v1/tenant/members lists.
Members(t) == members[t]

UpsertMember(t, request, now) ==
  LET p == request.principal
      created == IF p \in DOMAIN members[t] THEN members[t][p].createdAt ELSE now
      member == [role |-> NormalizedRole[request.role], createdAt |-> created, updatedAt |-> now]
  IN  members' = [members EXCEPT ![t] = Put(@, p, member)]

DeleteMember(t, request) ==
  members' = [members EXCEPT ![t] = [p \in DOMAIN @ \ {request.principal} |-> @[p]]]

TenantApply(t, request, now) ==
  \/ request.op = "putMember" /\ UpsertMember(t, request, now)
  \/ request.op = "deleteMember" /\ DeleteMember(t, request)
=============================================================================
