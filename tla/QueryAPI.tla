----------------------------- MODULE QueryAPI ------------------------------
(***************************************************************************)
(* The analytics of the query service (services/query/server.go and         *)
(* repository.go): usage, costs and allocation grouped and paged, and the   *)
(* data-quality summary.  The three queries differ in the columns they add  *)
(* up; value is the column they order by.                                   *)
(*                                                                          *)
(* A fact is [tenant, cluster, namespace, bucket, value].  Ids that an      *)
(* ORDER BY compares are integers.  teams gives the team of the namespaces  *)
(* in the inventory, 0 for none; the other three labels work as team does.  *)
(***************************************************************************)
EXTENDS Integers, Sequences, FiniteSets, FiniteSetsExt, SequencesExt

CONSTANTS DefaultLimit, MaxLimit,   \* defaultAnalyticsLimit, maxAnalyticsLimit
          SecondsPerBucket,         \* the hour start and end are aligned to
          Unassigned,               \* the group of namespaces without a team
          NoCursor, NoTime          \* an absent cursor; a nil data_through

ASSUME NoTimeAssumption == NoTime \notin Nat

GroupNames == {"namespace", "cluster", "team"}

NormalizedLimit(limit) ==
  IF limit <= 0 THEN DefaultLimit ELSE IF limit > MaxLimit THEN MaxLimit ELSE limit

\* Fault variant: a page is fetched without the row that tells of another page.
FetchPageOnly(limit) == NormalizedLimit(limit)

\* normalizedAnalyticsFetchLimit.
FetchLimit(limit) == NormalizedLimit(limit) + 1

CursorFor(kind, q, offset) ==
  [kind |-> kind, tenant |-> q.tenant, cluster |-> q.cluster, start |-> q.start,
   end |-> q.end, group |-> q.group, offset |-> offset]

\* analyticsQuery answers no problem: whole hours, a known group, and a cursor
\* of this very query.
AnalyticsAdmits(kind, r, cursor) ==
  /\ r.start < r.end /\ r.start % SecondsPerBucket = 0 /\ r.end % SecondsPerBucket = 0
  /\ r.group \in GroupNames
  /\ cursor # NoCursor => cursor.offset >= 0 /\ cursor = CursorFor(kind, r, cursor.offset)

\* The query it makes of the request.
AnalyticsQuery(r, cursor) ==
  [tenant |-> r.tenant, cluster |-> r.cluster, start |-> r.start, end |-> r.end,
   group |-> r.group, limit |-> r.limit,
   offset |-> IF cursor = NoCursor THEN 0 ELSE cursor.offset]

\* analyticsWhere: the facts in scope; cluster 0 is every cluster.
InScope(facts, q) ==
  {f \in facts : f.tenant = q.tenant /\ q.start <= f.bucket /\ f.bucket < q.end
                 /\ q.cluster \in {0, f.cluster}}

\* The LEFT JOIN with current_namespace keeps a fact whose namespace is gone; its
\* labels are empty.
TeamOf(f, teams) == IF f.namespace \in DOMAIN teams THEN teams[f.namespace] ELSE 0

\* analyticsGroup: what a fact is grouped by besides tenant and cluster.
GroupOf(f, group, teams) ==
  CASE group = "cluster" -> 0
    [] group = "team" -> TeamOf(f, teams)
    [] OTHER -> f.namespace

\* The group value shown.
GroupValue(g, cluster, group) ==
  CASE group = "cluster" -> cluster
    [] group = "team" -> IF g = 0 THEN Unassigned ELSE g
    [] OTHER -> g

\* usageSQL, costsSQL, allocationSQL up to their ORDER BY.
Groups(facts, q, teams) ==
  LET scope == InScope(facts, q)
      keys == {<<f.cluster, GroupOf(f, q.group, teams)>> : f \in scope}
  IN  {[cluster |-> k[1], value |-> GroupValue(k[2], k[1], q.group),
        namespace |-> IF q.group = "namespace" THEN k[2] ELSE 0,
        total |-> MapThenSumSet(LAMBDA f : f.value,
                    {f \in scope : <<f.cluster, GroupOf(f, q.group, teams)>> = k})] : k \in keys}

\* ORDER BY total DESC, cluster_id, group_value, namespace_uid.
Before(a, b) ==
  \/ a.total > b.total
  \/ /\ a.total = b.total
     /\ \/ a.cluster < b.cluster
        \/ a.cluster = b.cluster /\ a.value < b.value
        \/ a.cluster = b.cluster /\ a.value = b.value /\ a.namespace < b.namespace

OrderedGroups(facts, q, teams) == SetToSortSeq(Groups(facts, q, teams), Before)

\* Repository.Usage, Costs and Allocation: LIMIT and OFFSET.
Fetched(facts, q, teams) ==
  LET rows == OrderedGroups(facts, q, teams)
  IN  SubSeq(rows, q.offset + 1, Min({Len(rows), q.offset + FetchLimit(q.limit)}))

\* paginate.
Paginate(kind, rows, q) ==
  LET limit == NormalizedLimit(q.limit)
  IN  IF Len(rows) <= limit THEN [rows |-> rows, next |-> NoCursor]
      ELSE [rows |-> SubSeq(rows, 1, limit), next |-> CursorFor(kind, q, q.offset + limit)]

\* The handlers usage, costs and allocation.
AnalyticsPage(kind, facts, teams, r, cursor) ==
  LET q == AnalyticsQuery(r, cursor) IN Paginate(kind, Fetched(facts, q, teams), q)

\* dataQualitySQL: one signal per source and cluster that has rows; latest is
\* the latest bucket per source and cluster.
QualitySignals(latest, cluster) ==
  {[source |-> sc[1], cluster |-> sc[2], at |-> latest[sc]] :
     sc \in {k \in DOMAIN latest : latest[k] # NoTime /\ cluster \in {0, k[2]}}}

Sources == {"container_metrics_10s", "node_metrics_10s"}

EarliestOf(times) == Min(times)

\* summarizeDataQuality.
SummarizeDataQuality(signals, now, window) ==
  LET stale == {s \in signals : Max({0, now - s.at}) > window}
      missing == Sources \ {s.source : s \in signals}
  IN  IF signals = {}
      THEN [status |-> "empty", percent |-> 0, missing |-> Sources, through |-> NoTime]
      ELSE [status |-> IF stale # {} \/ missing # {} THEN "stale" ELSE "fresh",
            percent |-> IF missing # {} THEN 50 ELSE 100,
            missing |-> missing, through |-> EarliestOf({s.at : s \in signals})]

\* The handler dataQuality: what Repository.DataQuality reads, summed up.
DataQuality(latest, cluster, now, window) ==
  SummarizeDataQuality(QualitySignals(latest, cluster), now, window)
-----------------------------------------------------------------------------
\* The pages a client reads by following next_cursor, asking for limits[n] rows
\* the n-th time.
FollowCursors(kind, facts, teams, r, limits) ==
  FoldLeft(LAMBDA walk, limit :
             LET asked == [r EXCEPT !.limit = limit]
                 page == AnalyticsPage(kind, facts, teams, asked, walk.cursor)
             IN  IF walk.done \/ ~AnalyticsAdmits(kind, asked, walk.cursor) THEN walk
                 ELSE [rows |-> walk.rows \o page.rows, cursor |-> page.next,
                       done |-> page.next = NoCursor],
           [rows |-> <<>>, cursor |-> NoCursor, done |-> FALSE], limits)

\* Following the cursors to the end, with any limits, shows every group once, in
\* the order of the first page, and the groups add up to the facts in scope,
\* those of namespaces the inventory no longer has included.
PagesCoverEveryGroup(kind, facts, teams, r, limits) ==
  AnalyticsAdmits(kind, r, NoCursor) =>
    LET walk == FollowCursors(kind, facts, teams, r, limits)
    IN  /\ walk.done
        /\ \A i \in 1..(Len(walk.rows) - 1) : Before(walk.rows[i], walk.rows[i + 1])
        /\ FoldLeft(LAMBDA sum, row : sum + row.total, 0, walk.rows)
             = MapThenSumSet(LAMBDA f : f.value, InScope(facts, r))

\* Data is called fresh only when both sources report and no cluster's signal is
\* older than the window, and data_through is a time every signal has reached.
QualityIsHonest(latest, cluster, now, window) ==
  LET signals == QualitySignals(latest, cluster)
      summary == DataQuality(latest, cluster, now, window)
  IN  /\ summary.status = "fresh" =>
           /\ {s.source : s \in signals} = Sources
           /\ \A s \in signals : now - s.at <= window
      /\ (summary.through = NoTime) = (signals = {})
      /\ \A s \in signals : summary.through <= s.at
=============================================================================
