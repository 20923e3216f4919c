--------------------------- MODULE PolicyService ---------------------------
(***************************************************************************)
(* Versioned policies (services/policy).  A family holds versions, at most  *)
(* one of them active; a version is created as a draft and activated later. *)
(***************************************************************************)
EXTENDS Gateway

CONSTANTS PolicyFamilies,
          PolicyNames,     \* version names a client may choose
          BadName,         \* one that policyNamePattern does not match
          NoVersion        \* the empty name

ASSUME PolicyAssumption == NoVersion \notin Nat

VARIABLE families          \* of each tenant: family -> [active, versions]

\* A creation may leave the version out; the store then draws a random name
\* (newPolicyVersionID), which is a number here: `fresh` was not drawn before.
\* Every creation brings rules of its own, told apart by the same number.
VersionRequests(fresh) ==
  [op : {"createVersion"}, family : PolicyFamilies,
   version : PolicyNames \cup {NoVersion, BadName}, fresh : {fresh}]
    \cup [op : {"activateVersion"}, family : PolicyFamilies, version : PolicyNames \cup 1 .. fresh - 1]

\* pathPolicyName and normalizeVersionRequest.
PolicyAdmits(r, now) == AuthenticatedTenant(r, now) /\ r.body.version # BadName

PolicyInit == families = [t \in Tenants |-> <<>>]

Families(t) == families[t]

VersionName(request) == IF request.version = NoVersion THEN request.fresh ELSE request.version

\* CreateVersion: the family comes into being even when the version exists.
CreateVersion(t, request, actor, now) ==
  LET state == IF request.family \in DOMAIN families[t] THEN families[t][request.family]
               ELSE [active |-> NoVersion, versions |-> <<>>]
      draft == [status |-> "draft", rules |-> request.fresh, createdBy |-> actor, createdAt |-> now]
      versions == IF VersionName(request) \in DOMAIN state.versions THEN state.versions
                  ELSE Put(state.versions, VersionName(request), draft)
  IN  families' = [families EXCEPT ![t] =
        Put(@, request.family, [state EXCEPT !.versions = versions])]

\* ActivateVersion: whatever was active becomes inactive.
ActivateVersion(t, request) ==
  /\ request.family \in DOMAIN families[t]
  /\ request.version \in DOMAIN families[t][request.family].versions
  /\ LET versions == families[t][request.family].versions
         Status(v) == IF v = request.version THEN "active"
                      ELSE IF versions[v].status = "active" THEN "inactive"
                      ELSE versions[v].status
     IN  families' = [families EXCEPT ![t][request.family] =
           [active |-> request.version,
            versions |-> [v \in DOMAIN versions |-> [versions[v] EXCEPT !.status = Status(v)]]]]

ActivateMisses(t, request) ==
  /\ request.family \in DOMAIN families[t] =>
       request.version \notin DOMAIN families[t][request.family].versions
  /\ UNCHANGED families

PolicyApply(t, request, actor, now) ==
  \/ request.op = "createVersion" /\ CreateVersion(t, request, actor, now)
  \/ request.op = "activateVersion" /\ (ActivateVersion(t, request) \/ ActivateMisses(t, request))
-----------------------------------------------------------------------------
\* A family's recorded active version is the one version whose status is
\* active, and before the first activation there is none (ActivateVersion
\* deactivates whatever was active under the same lock).
OneActiveVersion ==
  \A t \in Tenants : \A f \in DOMAIN families[t] :
    LET state == families[t][f]
    IN  {v \in DOMAIN state.versions : state.versions[v].status = "active"}
          = IF state.active = NoVersion THEN {} ELSE {state.active}

\* What a version says and who wrote it never change after its creation, no
\* version disappears, and an active or inactive one is never a draft again:
\* two creations of the same version race for the lock, the second conflicts.
VersionsAreImmutable ==
  [][\A t \in Tenants : \A f \in DOMAIN families[t] :
       \A v \in DOMAIN families[t][f].versions :
         LET old == families[t][f].versions[v]
             new == families'[t][f].versions[v]
         IN  /\ v \in DOMAIN families'[t][f].versions
             /\ [new EXCEPT !.status = old.status] = old
             /\ old.status # "draft" => new.status # "draft"]_families
=============================================================================
