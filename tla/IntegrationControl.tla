------------------------- MODULE IntegrationControl -------------------------
(***************************************************************************)
(* Integration configuration (services/integrations, store.go and           *)
(* control_server.go): an integration is created, then validated by its id. *)
(***************************************************************************)
EXTENDS Gateway

VARIABLE integrations      \* of each tenant, by id

IntegrationRequests(known) ==
  [op : {"createIntegration"}, type : {"Cloud", "pager"}, name : {"", "aws"}]
    \cup [op : {"validateIntegration"}, id : known]

\* normalizeIntegrationRequest: the type is lower-cased, a name is required.
NormalizedType == [Cloud |-> "cloud", billing |-> "billing", notification |-> "notification"]

IntegrationAdmits(r, now) ==
  /\ AuthenticatedTenant(r, now)
  /\ r.body.op = "createIntegration" =>
       r.body.name # "" /\ r.body.type \in DOMAIN NormalizedType

IntegrationInit == integrations = [t \in Tenants |-> <<>>]

CreateIntegration(t, request, id, actor, now) ==
  integrations' = [integrations EXCEPT ![t] = Put(@, id,
    [type |-> NormalizedType[request.type], createdBy |-> actor, status |-> "pending_validation",
     createdAt |-> now, updatedAt |-> now, lastValidated |-> 0])]

\* Validate: only an integration of the tenant is found.
ValidateIntegration(t, request, now) ==
  integrations' = IF request.id \notin DOMAIN integrations[t] THEN integrations
    ELSE [integrations EXCEPT ![t][request.id].status = "validated",
            ![t][request.id].lastValidated = now, ![t][request.id].updatedAt = now]

IntegrationApply(t, request, id, actor, now) ==
  \/ request.op = "createIntegration" /\ CreateIntegration(t, request, id, actor, now)
  \/ request.op = "validateIntegration" /\ ValidateIntegration(t, request, now)
=============================================================================
