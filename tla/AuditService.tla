---------------------------- MODULE AuditService ----------------------------
(***************************************************************************)
(* The audit log (services/audit): one bounded list for all tenants.  The   *)
(* event's time is read before the lock, so that two events may be stored   *)
(* in the opposite order of their times.                                    *)
(***************************************************************************)
EXTENDS Gateway

CONSTANTS MaxEvents, Resources, MaxListed

\* NewStore replaces a bound that is not positive.
ASSUME AuditAssumption == MaxEvents \in Nat \ {0}

VARIABLES events,          \* the store's list, oldest first
          appended         \* history: every event ever appended

\* normalizeEvent: the outcome is lower-cased and must be one of three.
NormalizedOutcome == [succeeded |-> "succeeded", failed |-> "failed", Denied |-> "denied"]

EventRequests == [op : {"appendEvent"}, resource : Resources, outcome : {"Denied", "maybe"}]

AuditAdmits(r, now) ==
  AuthenticatedTenant(r, now) /\ r.body.outcome \in DOMAIN NormalizedOutcome

AuditInit == events = <<>> /\ appended = <<>>

AppendEvent(t, request, id, now) ==
  LET event == [id |-> id, tenant |-> t, resource |-> request.resource,
                outcome |-> NormalizedOutcome[request.outcome], occurredAt |-> now]
      all == Append(events, event)
  IN  /\ events' = IF Len(all) > MaxEvents
                   THEN SubSeq(all, Len(all) - MaxEvents + 1, Len(all)) ELSE all
      /\ appended' = Append(appended, event)

\* eventFilter: a limit above the maximum is the maximum.
Capped(limit) == IF limit > MaxListed THEN MaxListed ELSE limit

\* The walk from the end of the list.
NewestFirst(list) == [i \in 1 .. Len(list) |-> list[Len(list) + 1 - i]]

\* List: the newest first, those of the tenant and the filter only; a
\* resource of "" filters nothing.
List(t, resource, limit) ==
  LET Listed(e) == e.tenant = t /\ (resource = "" \/ e.resource = resource)
      all == NewestFirst(SelectSeq(events, Listed))
  IN  SubSeq(all, 1, IF Len(all) < Capped(limit) THEN Len(all) ELSE Capped(limit))
-----------------------------------------------------------------------------
\* The store holds the last MaxEvents events that were appended, or all of them,
\* in the order of the lock (Append).
LogIsLatest ==
  /\ events = SubSeq(appended, Len(appended) - Len(events) + 1, Len(appended))
  /\ Len(events) = IF Len(appended) < MaxEvents THEN Len(appended) ELSE MaxEvents

\* The list of a tenant is always a run of the events it appended, latest
\* first and none left out in between, however the appends of all tenants
\* interleave and push events out (Append and List).
ListIsLatestEvents ==
  /\ LogIsLatest
  /\ \A t \in Tenants, limit \in 1 .. MaxListed + 1 :
       LET Own(e) == e.tenant = t
           own == NewestFirst(SelectSeq(appended, Own))
           listed == List(t, "", limit)
       IN  /\ listed = SubSeq(own, 1, Len(listed))
           /\ Len(listed) < Capped(limit) => Len(listed) = Len(SelectSeq(events, Own))
=============================================================================
