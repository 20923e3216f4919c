----------------------------- MODULE JobStores -----------------------------
(***************************************************************************)
(* The bounded job stores of the export service (services/export/store.go)  *)
(* and of asynchronous queries (services/query/query_jobs.go).  Both keep a *)
(* map of jobs and the order of their creation, and evict the oldest beyond *)
(* maxJobs.  A query job is run by a goroutine of its own, which holds no   *)
(* lock while the query executes: the job may be evicted under it.          *)
(***************************************************************************)
EXTENDS Gateway, FiniteSets

CONSTANT MaxJobs

\* NewStore and newQueryJobStore replace a bound that is not positive.
ASSUME JobsAssumption == MaxJobs \in Nat \ {0}

VARIABLES jobs, order,     \* the map and the order of creation
          runners          \* query jobs whose goroutine has not ended: id -> [tenant, at]

jobVars == <<jobs, order, runners>>

JobsInit == jobs = <<>> /\ order = <<>> /\ runners = <<>>

\* Create, create and evictLocked.
Created(id, job) ==
  LET all == Append(order, id)
      kept == IF Len(all) > MaxJobs THEN Tail(all) ELSE all
  IN  /\ order' = kept
      /\ jobs' = [i \in Range(kept) |-> IF i = id THEN job ELSE jobs[i]]

\* Get, get: a job of another tenant is not found.
Found(t, id) == id \in DOMAIN jobs /\ jobs[id].tenant = t
-----------------------------------------------------------------------------
(* Exports. *)

\* exportSpec: "" is the default format; a request whose format, query type
\* or time range is none of the known ones is refused.
ExportFormats == [none |-> "json", CSV |-> "csv", parquet |-> "parquet"]

ExportRequests ==
  LET Request(type, format, range) ==
        [op |-> "createExport", type |-> type, format |-> format, range |-> range]
  IN  {Request("usage", "CSV", <<0, 1>>), Request("costs", "none", <<1, 1>>),
       Request("usage", "xml", <<0, 1>>)}

ExportAdmits(r, now) ==
  /\ AuthenticatedTenant(r, now)
  /\ r.body.type \in {"usage", "costs", "allocation"}
  /\ r.body.format \in DOMAIN ExportFormats
  /\ r.body.range[1] < r.body.range[2]

\* exportManifest and contentType: the checksum is over id, tenant and request.
ExportManifest(id, t, request) ==
  [content |-> CASE ExportFormats[request.format] = "csv" -> "text/csv"
                 [] ExportFormats[request.format] = "parquet" -> "application/vnd.apache.parquet"
                 [] OTHER -> "application/json",
   sha256 |-> <<id, t, request>>]

CreateExport(t, request, id, now) ==
  /\ Created(id, [tenant |-> t, status |-> "succeeded", createdAt |-> now, finishedAt |-> now,
                  manifest |-> ExportManifest(id, t, request)])
  /\ UNCHANGED runners
-----------------------------------------------------------------------------
(* Query jobs. *)

NoManifest == [content |-> "", sha256 |-> <<>>]

QueryRequests ==
  LET Request(type, groupBy, range, limit) ==
        [op |-> "createQueryJob", type |-> type, groupBy |-> groupBy, range |-> range, limit |-> limit]
  IN  {Request("usage", "", <<0, 3600>>, 0), Request("costs", "pod", <<0, 3600>>, 501),
       Request("costs", "team", <<0, 1800>>, 0)}

GroupBys == {"namespace", "cluster", "team", "project", "environment", "cost_center"}

\* asyncAnalyticsQuery: "" groups by namespace; whole hours, a non-negative limit.
QueryAdmits(r, now) ==
  /\ AuthenticatedTenant(r, now)
  /\ r.body.type \in {"usage", "costs", "allocation"}
  /\ r.body.range[1] < r.body.range[2]
  /\ r.body.range[1] % 3600 = 0 /\ r.body.range[2] % 3600 = 0
  /\ r.body.groupBy \in GroupBys \cup {""}
  /\ r.body.limit >= 0

\* createQueryJob: the job is stored, then its goroutine is started.
CreateQueryJob(t, request, id, now) ==
  /\ Created(id, [tenant |-> t, status |-> "queued", createdAt |-> now, finishedAt |-> 0,
                  manifest |-> NoManifest])
  /\ runners' = Put(runners, id, [tenant |-> t, at |-> "created"])

\* start: no more than a job that is still there is touched.
Start(id) ==
  /\ runners[id].at = "created"
  /\ runners' = [runners EXCEPT ![id].at = "executing"]
  /\ jobs' = IF Found(runners[id].tenant, id)
             THEN [jobs EXCEPT ![id].status = "running"] ELSE jobs
  /\ UNCHANGED order

Ended(id) == runners' = [i \in DOMAIN runners \ {id} |-> runners[i]]

\* queryManifest: the checksum is over the result, which is the job's own.
QueryManifest(id) == [content |-> "application/json", sha256 |-> <<id>>]

\* Fault variant: the result is stored whether or not the job is there.
SucceedAnyway(id, now) ==
  /\ runners[id].at = "executing"
  /\ Ended(id)
  /\ jobs' = Put(jobs, id, [tenant |-> runners[id].tenant, status |-> "succeeded", createdAt |-> now,
                            finishedAt |-> now, manifest |-> QueryManifest(id)])
  /\ UNCHANGED order

\* executeQueryJob and queryManifest went well: succeed.
Succeed(id, now) ==
  /\ runners[id].at = "executing"
  /\ Ended(id)
  /\ jobs' = IF Found(runners[id].tenant, id)
             THEN [jobs EXCEPT ![id].status = "succeeded", ![id].finishedAt = now,
                               ![id].manifest = QueryManifest(id)]
             ELSE jobs
  /\ UNCHANGED order

\* Fault variant: the error is logged and the job not marked.
FailSilently(id, now) ==
  runners[id].at = "executing" /\ Ended(id) /\ UNCHANGED <<jobs, order>>

\* Fault variant: the goroutine goes on after the failure.
FailGoesOn(id, now) ==
  /\ runners[id].at = "executing"
  /\ jobs' = IF Found(runners[id].tenant, id)
             THEN [jobs EXCEPT ![id].status = "failed", ![id].finishedAt = now] ELSE jobs
  /\ UNCHANGED <<order, runners>>

\* The query, the quality query or the manifest failed, or two minutes passed.
Fail(id, now) ==
  /\ runners[id].at = "executing"
  /\ Ended(id)
  /\ jobs' = IF Found(runners[id].tenant, id)
             THEN [jobs EXCEPT ![id].status = "failed", ![id].finishedAt = now] ELSE jobs
  /\ UNCHANGED order

RunQueryJob(id, now) == Start(id) \/ Succeed(id, now) \/ Fail(id, now)
-----------------------------------------------------------------------------
\* The map and the order of creation hold the same jobs, each once, and no
\* more than MaxJobs: an evicted job stays gone, also when its result arrives
\* after the eviction (evictLocked against succeed and fail).
StoreIsBounded ==
  /\ DOMAIN jobs = Range(order)
  /\ Cardinality(DOMAIN jobs) = Len(order)
  /\ Len(order) <= MaxJobs

\* A job's status only goes from queued to running to one final status, with
\* a manifest exactly when it succeeded, and a finished job never changes.
JobsGoForward ==
  [][\A id \in DOMAIN jobs \cap DOMAIN jobs' :
       LET old == jobs[id]
           new == jobs'[id]
       IN  /\ <<old.status, new.status>> \in {<<"queued", "running">>, <<"running", "succeeded">>,
                 <<"running", "failed">>} \cup {<<s, s>> : s \in {"queued", "running", "succeeded", "failed"}}
           /\ old.status \in {"succeeded", "failed"} => new = old
           /\ (new.status = "succeeded") <=> (new.manifest # NoManifest)]_jobs
=============================================================================
