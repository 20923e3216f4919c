------------------------- MODULE LineageNormalizer --------------------------
(***************************************************************************)
(* The lineage normalizer (tools/lineage-normalizer): inventory rows that   *)
(* an older agent wrote with the namespace's name in namespace_uid get a    *)
(* replacement row with its UID and a version raised by versionBump.        *)
(*                                                                          *)
(* One inventory object stands for all.  A history is a sequence of         *)
(* operations, oldest first: an observation that is stored,                 *)
(* [op |-> "observe", at, by, change], or a run of the tool,                *)
(* [op |-> "normalize", apply].  The operation's place is the version of    *)
(* the row it stores, as the agent's sequence is.                           *)
(***************************************************************************)
EXTENDS Integers, Sequences, FiniteSets, SequencesExt

CONSTANT VersionBump         \* versionBump, above every sequence

\* The columns the tool reads and writes; event is the event_id and valid_from.
StoredRow(o, n) ==
  [namespace |-> o.by, event |-> n, at |-> o.at, change |-> o.change, version |-> n]

\* The join with current_namespace and namespaceNameWhere: the inventory knows the
\* namespace by the value of namespace_uid, and its UID is another.
NamespaceNameWhere(r, known) == known /\ r.namespace = "name"

\* countInventorySQL.
Matching(rows, known) == {r \in rows : NamespaceNameWhere(r, known)}

\* Fault variant: the replacement keeps the version of the row it replaces.
ReplacementKeepsVersion(r) == [r EXCEPT !.namespace = "uid"]

\* backfillInventorySQL.
Replacement(r) == [r EXCEPT !.namespace = "uid", !.version = @ + VersionBump]

\* run: nothing is written without -apply or when no row matches.
NormalizeRun(rows, known, apply) ==
  IF apply /\ Matching(rows, known) # {}
  THEN rows \cup {Replacement(r) : r \in Matching(rows, known)} ELSE rows

AfterHistory(history, known) ==
  FoldLeftDomain(LAMBDA rows, n :
                   IF history[n].op = "observe" THEN rows \cup {StoredRow(history[n], n)}
                   ELSE NormalizeRun(rows, known, history[n].apply),
                 {}, history)

\* The view current_<table>: the latest row of the object by observed_at, then
\* version, if it is not a deletion.  More than one row is a tie the view may
\* break either way.
NewerRow(a, b) == a.at > b.at \/ (a.at = b.at /\ a.version > b.version)

CurrentView(rows) ==
  {r \in rows : r.change = "upsert" /\ ~\E s \in rows : NewerRow(s, r)}
-----------------------------------------------------------------------------
\* Once the tool has been applied, the current view shows the object under the
\* namespace's UID; before and after, and however often it runs, what it shows
\* is the latest observation, which a later one still replaces.
NormalizingKeepsLatest(history, known) ==
  LET observations == {n \in DOMAIN history : history[n].op = "observe"}
      view == CurrentView(AfterHistory(history, known))
      applied(n) == \E m \in DOMAIN history :
                      m > n /\ history[m].op = "normalize" /\ history[m].apply
      latest(n) == \A m \in observations : history[m].at <= history[n].at
  IN  /\ \A r \in view : latest(r.event)
      /\ \A n \in observations :
           latest(n) /\ history[n].change = "upsert" => \E r \in view : r.event = n
      /\ known => \A r \in view : r.namespace = "name" => ~applied(r.event)
=============================================================================
