------------------------------ MODULE Gateway ------------------------------
(***************************************************************************)
(* The API gateway (services/gateway), the request signatures it shares    *)
(* with the services behind it (internal/gatewayauth), and the identity    *)
(* service.  A request is its path (family, and the segments after it), its *)
(* method and its headers; a signature is the tuple the MAC is computed     *)
(* over, so two signatures are equal when key and content are.              *)
(***************************************************************************)
EXTENDS Integers, Sequences, Functions

CONSTANTS TokenTenants,    \* tenant of each bearer token, "" if unmapped
          TokenPrincipals, \* principal of each bearer token, "" if none
          GatewayKey,      \* signing key of the gateway, "" if none
          BackendKey,      \* signing key the services verify with, "" if none
          GatewaySecret,   \* shared secret the gateway sends, "" if none
          BackendSecret,   \* shared secret the services ask for, "" if none
          MaxSkew          \* 5 minutes

ASSUME GatewayAssumption == /\ DOMAIN TokenTenants = DOMAIN TokenPrincipals
                            /\ MaxSkew \in Nat \ {0}

\* m[key] = value of a Go map: the key may be new.
Put(m, key, value) == [k \in DOMAIN m \cup {key} |-> IF k = key THEN value ELSE m[k]]

Tokens == DOMAIN TokenTenants

Tenants == {TokenTenants[token] : token \in Tokens} \ {""}
-----------------------------------------------------------------------------
(* route: the service a request is passed to. *)

Exact == [clusters |-> "cluster-registry", prices_catalog |-> "pricing",
          prices_effective |-> "pricing", billing_charges |-> "pricing",
          recommendations |-> "query", data_quality |-> "query",
          usage |-> "query", costs |-> "query", allocation |-> "query",
          exports |-> "export", tenant |-> "tenant", audit_events |-> "audit",
          identity_principal |-> "identity", policies |-> "policy",
          integrations |-> "integrations"]

\* Families whose longer paths are passed on as well.
Subtrees == {"clusters", "exports", "tenant", "policies", "integrations"}

RecommendationRead(r) ==
  r.family = "recommendations" /\ r.rest # <<>> /\ r.method = "GET"

RecommendationCommand(r) ==
  /\ r.family = "recommendations" /\ r.rest # <<>> /\ r.method = "POST"
  /\ r.rest[Len(r.rest)] \in {"approve", "reject", "suppress", "execute"}

Route(r) ==
  CASE RecommendationRead(r) -> "query"
    [] RecommendationCommand(r) -> "workflow"
    [] r.family \in DOMAIN Exact /\ (r.rest = <<>> \/ r.family \in Subtrees)
         -> Exact[r.family]
    [] OTHER -> "not_found"

(* The endpoints of the services and their handlers, from their Routes.      *)
(* "id" stands for a path parameter.                                         *)

Endpoint(service, method, family, rest, handler) ==
  [service |-> service, method |-> method, family |-> family, rest |-> rest, handler |-> handler]

RegistryEndpoints ==
  {Endpoint("cluster-registry", "POST", "clusters", <<>>, "registerCluster"),
   Endpoint("cluster-registry", "GET", "clusters", <<>>, "listClusters"),
   Endpoint("cluster-registry", "GET", "clusters", <<"id">>, "getCluster")}

PricingEndpoints ==
  {Endpoint("pricing", "POST", "prices_catalog", <<>>, "importCatalogPrices"),
   Endpoint("pricing", "GET", "prices_effective", <<>>, "effectiveCatalogPrice"),
   Endpoint("pricing", "POST", "billing_charges", <<>>, "importBillingCharges")}

QueryEndpoints ==
  {Endpoint("query", "GET", family, <<>>, family) :
     family \in {"recommendations", "usage", "costs", "allocation"}}
  \cup {Endpoint("query", "GET", "data_quality", <<>>, "dataQuality"),
        Endpoint("query", "GET", "recommendations", <<"id">>, "recommendation"),
        Endpoint("query", "POST", "queries", <<>>, "createQueryJob"),
        Endpoint("query", "GET", "queries", <<"id">>, "queryJob")}

WorkflowEndpoints ==
  {Endpoint("workflow", "POST", "recommendations", <<"id", command>>, command) :
     command \in {"approve", "reject", "suppress", "execute"}}

ExportEndpoints ==
  {Endpoint("export", "POST", "exports", <<>>, "createExport"),
   Endpoint("export", "GET", "exports", <<"id">>, "getExport")}

AuditEndpoints ==
  {Endpoint("audit", "POST", "audit_events", <<>>, "appendEvent"),
   Endpoint("audit", "GET", "audit_events", <<>>, "listEvents")}

IdentityEndpoints == {Endpoint("identity", "GET", "identity_principal", <<>>, "principal")}

TenantEndpoints ==
  {Endpoint("tenant", "GET", "tenant", <<>>, "profile"),
   Endpoint("tenant", "GET", "tenant", <<"members">>, "listMembers"),
   Endpoint("tenant", "PUT", "tenant", <<"members", "id">>, "putMember"),
   Endpoint("tenant", "DELETE", "tenant", <<"members", "id">>, "deleteMember")}

PolicyEndpoints ==
  {Endpoint("policy", "GET", "policies", <<>>, "listPolicies"),
   Endpoint("policy", "POST", "policies", <<"id", "versions">>, "createVersion"),
   Endpoint("policy", "POST", "policies", <<"id", "versions", "id", "activate">>, "activateVersion")}

IntegrationEndpoints ==
  {Endpoint("integrations", "GET", "integrations", <<>>, "listIntegrations"),
   Endpoint("integrations", "POST", "integrations", <<>>, "createIntegration"),
   Endpoint("integrations", "POST", "integrations", <<"id", "validate">>, "validateIntegration")}

Served == RegistryEndpoints \cup PricingEndpoints \cup QueryEndpoints
  \cup WorkflowEndpoints \cup ExportEndpoints \cup AuditEndpoints \cup IdentityEndpoints
  \cup TenantEndpoints \cup PolicyEndpoints \cup IntegrationEndpoints
-----------------------------------------------------------------------------
(* authenticate, SignRequest and VerifyRequest. *)

Signature(r, signedAt, key) ==
  <<key, r.method, r.family, r.rest, r.tenant, signedAt>>

\* Without a key nothing is signed.
SignRequest(r, now) ==
  IF GatewayKey = "" THEN r
  ELSE [r EXCEPT !.signedAt = now, !.signature = Signature(r, now, GatewayKey)]

\* Fault variant: a tenant header the client sends is kept.
ForwardedAsClaimed(r, token, claimed, now) ==
  SignRequest([r EXCEPT !.tenant = IF claimed # "" THEN claimed ELSE TokenTenants[token],
                        !.secret = GatewaySecret, !.principal = TokenPrincipals[token]], now)

\* authenticate: the client's own headers go, those of its token come, signed.
Forwarded(r, token, claimed, now) ==
  SignRequest([r EXCEPT !.tenant = TokenTenants[token], !.secret = GatewaySecret,
                        !.principal = TokenPrincipals[token]], now)

\* identityFromRequest: only a token mapped to a tenant passes.
Identified(token) == TokenTenants[token] # ""

VerifyRequest(r, now) ==
  \/ BackendKey = ""
  \/ /\ r.signature # <<>>
     /\ now - r.signedAt <= MaxSkew /\ r.signedAt - now <= MaxSkew
     /\ r.signature = Signature(r, r.signedAt, BackendKey)

\* trustedGateway: the shared secret, if one is asked for, and the signature.
TrustedGateway(r, now) == BackendSecret \in {"", r.secret} /\ VerifyRequest(r, now)

\* authenticatedTenant, authenticatedActor: what every service asks first.
AuthenticatedTenant(r, now) == TrustedGateway(r, now) /\ r.tenant # ""

\* authenticatedPrincipal of the identity service.
AuthenticatedPrincipal(r, now) == AuthenticatedTenant(r, now) /\ r.principal # ""
=============================================================================
