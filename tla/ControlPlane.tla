---------------------------- MODULE ControlPlane ----------------------------
(***************************************************************************)
(* The control plane: clients, the gateway, and one of the services behind  *)
(* it.  The services share no state, so that each behaviour has one of them *)
(* (`service`, chosen by Init).  A request goes through three steps, and    *)
(* requests in different slots interleave at each of them:                  *)
(*   Forward  the gateway authenticates the client's token, sets the tenant *)
(*            header and signs the request;                                 *)
(*   Admit    the service verifies the signature, decodes and normalises    *)
(*            the body, and reads its clock;                                *)
(*   Apply    the service's store does the operation under its lock.        *)
(* Recommendation commands have steps of their own, in Workflow, with the   *)
(* recommendations job that writes to the same table.                       *)
(* Query jobs are not routed by the gateway; a caller inside the cluster    *)
(* signs for them in the same way.                                          *)
(***************************************************************************)
EXTENDS TenantService, PolicyService, AuditService, JobStores, ClusterRegistry,
        IntegrationControl, Workflow

CONSTANTS Slots,           \* requests under way at once
          MaxRequests,     \* bound: requests forwarded to each service
          Instants         \* bound: the times the clock shows with each service

VARIABLES service, time, forwarded, flight

storeVars == <<members, families, events, appended, jobs, order, runners, clusters, integrations>>

planeVars == <<service, time, forwarded, flight, storeVars, workflowVars>>

Services == {"tenant", "policy", "audit", "export", "query", "cluster-registry", "integrations",
             "identity", "workflow"}

ASSUME PlaneAssumption == \A s \in Services : 1 \in Instants[s] /\ Instants[s] \subseteq Nat

Idle == [phase |-> "idle", token |-> "", at |-> 0, request |-> <<>>]

PlaneInit ==
  /\ service \in Services
  /\ time = 1 /\ forwarded = 0
  /\ flight = [s \in Slots |-> Idle]
  /\ TenantInit /\ PolicyInit /\ AuditInit /\ JobsInit /\ RegistryInit
  /\ IntegrationInit /\ WorkflowInit

\* The bodies a client may send to the service.
Bodies ==
  CASE service = "tenant" -> MemberRequests
    [] service = "policy" -> VersionRequests(forwarded + 1)
    [] service = "audit" -> EventRequests
    [] service = "export" -> ExportRequests
    [] service = "query" -> QueryRequests
    [] service = "cluster-registry" -> RegisterRequests
    [] service = "integrations" ->
         IntegrationRequests(UNION {DOMAIN integrations[t] : t \in Tenants})
    [] service = "identity" -> {[op |-> "principal"]}
    [] OTHER -> {}

Admits(r, now) ==
  CASE service = "tenant" -> TenantAdmits(r, now)
    [] service = "policy" -> PolicyAdmits(r, now)
    [] service = "audit" -> AuditAdmits(r, now)
    [] service = "export" -> ExportAdmits(r, now)
    [] service = "query" -> QueryAdmits(r, now)
    [] service = "cluster-registry" -> RegistryAdmits(r, now)
    [] service = "integrations" -> IntegrationAdmits(r, now)
    [] service = "identity" -> AuthenticatedPrincipal(r, now)

\* One client request for a handler of the service, with a tenant header of the
\* client's own, passed to the service that route finds.  The slots are
\* interchangeable, so it takes the first free one.
Forward(slot, token, claimed, body) ==
  /\ flight[slot] = Idle /\ \A s \in Slots : s < slot => flight[s] # Idle
  /\ forwarded < MaxRequests[service]
  /\ Identified(token)
  /\ forwarded' = forwarded + 1
  /\ \E e \in Served :
       /\ e.service = service /\ e.handler = body.op
       /\ Route(e) = service \/ e.family = "queries"
       /\ LET r == [method |-> e.method, family |-> e.family, rest |-> e.rest, body |-> body,
                    id |-> forwarded + 1, tenant |-> claimed, principal |-> "",
                    secret |-> "", signedAt |-> 0, signature |-> <<>>]
          IN  flight' = [flight EXCEPT ![slot] =
                [phase |-> "sent", token |-> token, at |-> 0,
                 request |-> Forwarded(r, token, claimed, time)]]
  /\ UNCHANGED <<service, time, storeVars, workflowVars>>

Admit(slot) ==
  /\ flight[slot].phase = "sent"
  /\ Admits(flight[slot].request, time)
  /\ flight' = [flight EXCEPT ![slot].phase = "admitted", ![slot].at = time]
  /\ UNCHANGED <<service, time, forwarded, storeVars, workflowVars>>

\* The service answers with a problem, or the request never reaches it.
Refuse(slot) ==
  /\ flight[slot].phase = "sent"
  /\ flight' = [flight EXCEPT ![slot] = Idle]
  /\ UNCHANGED <<service, time, forwarded, storeVars, workflowVars>>

Done(slot) == /\ flight[slot].phase = "admitted"
              /\ flight' = [flight EXCEPT ![slot] = Idle]
              /\ UNCHANGED <<service, time, forwarded, workflowVars>>

ApplyMember(slot, r) ==
  /\ service = "tenant" /\ Done(slot)
  /\ TenantApply(r.tenant, r.body, flight[slot].at)
  /\ UNCHANGED <<families, events, appended, jobVars, clusters, integrations>>

ApplyPolicy(slot, r) ==
  /\ service = "policy" /\ Done(slot)
  /\ PolicyApply(r.tenant, r.body, r.principal, flight[slot].at)
  /\ UNCHANGED <<members, events, appended, jobVars, clusters, integrations>>

ApplyEvent(slot, r) ==
  /\ service = "audit" /\ Done(slot)
  /\ AppendEvent(r.tenant, r.body, r.id, flight[slot].at)
  /\ UNCHANGED <<members, families, jobVars, clusters, integrations>>

ApplyExport(slot, r) ==
  /\ service = "export" /\ Done(slot)
  /\ CreateExport(r.tenant, r.body, r.id, flight[slot].at)
  /\ UNCHANGED <<members, families, events, appended, clusters, integrations>>

ApplyQuery(slot, r) ==
  /\ service = "query" /\ Done(slot)
  /\ CreateQueryJob(r.tenant, r.body, r.id, flight[slot].at)
  /\ UNCHANGED <<members, families, events, appended, clusters, integrations>>

ApplyRegistration(slot, r) ==
  /\ service = "cluster-registry" /\ Done(slot)
  /\ RegisterCluster(r.tenant, r.body, r.id, flight[slot].at, time)
  /\ UNCHANGED <<members, families, events, appended, jobVars, integrations>>

ApplyIntegration(slot, r) ==
  /\ service = "integrations" /\ Done(slot)
  /\ IntegrationApply(r.tenant, r.body, r.id, r.principal, flight[slot].at)
  /\ UNCHANGED <<members, families, events, appended, jobVars, clusters>>

\* principal: the identity service answers with the headers it was sent.
AnswerPrincipal(slot) == service = "identity" /\ Done(slot) /\ UNCHANGED storeVars

Apply(slot) ==
  LET r == flight[slot].request
  IN  \/ ApplyMember(slot, r) \/ ApplyPolicy(slot, r) \/ ApplyEvent(slot, r)
      \/ ApplyExport(slot, r) \/ ApplyQuery(slot, r) \/ ApplyRegistration(slot, r)
      \/ ApplyIntegration(slot, r) \/ AnswerPrincipal(slot)

Run(id) ==
  /\ RunQueryJob(id, time)
  /\ UNCHANGED <<service, time, forwarded, flight, workflowVars>>
  /\ UNCHANGED <<members, families, events, appended, clusters, integrations>>

Decide == /\ service = "workflow"
          /\ WorkflowNext
          /\ UNCHANGED <<service, time, forwarded, flight, storeVars>>

Tick == /\ time' \in {t \in Instants[service] : t > time}
        /\ UNCHANGED <<service, forwarded, flight, storeVars, workflowVars>>

PlaneNext ==
  \/ \E slot \in Slots :
       \/ \E token \in Tokens, claimed \in Tenants, body \in Bodies :
            Forward(slot, token, claimed, body)
       \/ Admit(slot) \/ Refuse(slot) \/ Apply(slot)
  \/ \E id \in DOMAIN runners : Run(id)
  \/ Decide
  \/ Tick

\* The goroutine of a job runs, and its query returns: the context it runs
\* with ends after queryJobTimeout.
PlaneSpec ==
  /\ PlaneInit /\ [][PlaneNext]_planeVars
  /\ \A id \in 1 .. MaxRequests["query"] : WF_planeVars(id \in DOMAIN runners /\ Run(id))
-----------------------------------------------------------------------------
\* What a tenant reads from the services.
View(t) == <<Members(t), Families(t), ListClusters(t), integrations[t]>>

\* What a tenant reads of its members, policies, clusters and integrations
\* only changes by a request that a client made with a token of that tenant,
\* whatever tenant header it sent, and no step shows it a job or an event of
\* another (authenticate and the tenant argument of every store operation).
\* What the identity service tells a client is who the client's token is for.
TenantsAreIsolated ==
  [][\A t \in Tenants :
       /\ View(t)' # View(t) =>
            \E s \in Slots : /\ flight[s].phase = "admitted" /\ flight'[s] = Idle
                             /\ TokenTenants[flight[s].token] = t
       /\ \A id \in DOMAIN jobs' \ DOMAIN jobs : Found(t, id)' =>
            \E s \in Slots : /\ flight[s].phase = "admitted" /\ flight[s].request.id = id
                             /\ TokenTenants[flight[s].token] = t
       /\ \A s \in Slots : service = "identity" /\ flight'[s].phase = "admitted" =>
            /\ flight'[s].request.tenant = TokenTenants[flight'[s].token]
            /\ flight'[s].request.principal = TokenPrincipals[flight'[s].token]]_planeVars

\* The stores keep what their services promise, however requests interleave: one
\* active version per policy family, audit lists without a hole, jobs that stay
\* within their bound and stay gone once evicted, clusters in the order of their
\* registration.
StoresKeepTheirPromise ==
  OneActiveVersion /\ ListIsLatestEvents /\ StoreIsBounded /\ ListedInOrderOfRegistration

\* What the stores have once settled does not change: a policy version keeps what
\* it says and never is a draft again, a finished job keeps its result.
StoresOnlyGoForward == VersionsAreImmutable /\ JobsGoForward

\* A query job that was created either finishes or is evicted: no job stays
\* queued or running for ever (runQueryJob).
EveryJobEnds ==
  \A id \in 1 .. MaxRequests["query"] :
    [](id \in DOMAIN jobs =>
         <>(id \notin DOMAIN jobs \/ jobs[id].status \in {"succeeded", "failed"}))
=============================================================================
