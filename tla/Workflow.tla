------------------------------ MODULE Workflow ------------------------------
(***************************************************************************)
(* Recommendations from the job that generates them                        *)
(* (services/recommendations) to the commands that decide on them          *)
(* (services/workflow).  The two processes share one ClickHouse table,     *)
(* "recommendation", whose engine keeps for a recommendation the row of    *)
(* highest version, and the append-only table "recommendation_action".     *)
(*                                                                         *)
(* There are no transactions: each query and each insert is a step, and    *)
(* any of them may fail.  The clock gives every reader a new instant.      *)
(***************************************************************************)
EXTENDS Integers, FiniteSets

CONSTANTS Targets,    \* containers recommendations are about
          Handlers,   \* concurrent command requests
          Hour,       \* instants in an hour
          MaxClock    \* bound: the last instant

ASSUME WorkflowAssumption == Hour \in Nat \ {0} /\ MaxClock \in Nat

VARIABLES recommendation, \* rows inserted: id, status, version, generated
          actions,        \* rows of recommendation_action
          command,        \* the request each handler works on, or NoCommand
          job,            \* the hour of the job's analysis window, or NoJob
          clock,          \* the next instant
          answered        \* history: commands answered with success

workflowVars == <<recommendation, actions, command, job, clock, answered>>

NoCommand == [step |-> "none"]
NoJob == -1
Statuses == {"open", "approved", "rejected", "suppressed", "executing"}

\* approve, reject, suppress, execute: the action and the status it asks for.
NextStatus == [approve |-> "approved", reject |-> "rejected",
               suppress |-> "suppressed", request_execution |-> "executing"]

WorkflowInit == /\ recommendation = {} /\ actions = {} /\ answered = {}
                /\ command = [h \in Handlers |-> NoCommand]
                /\ job = NoJob
                /\ clock = 1
-----------------------------------------------------------------------------
(* The recommendations job. *)

\* Fault variant: the identifier leaves the analysis window out.
TargetID(target, hour) == [target |-> target, window |-> 0]

\* The identifier is a hash of the target and the analysis window.
RecommendationID(target, hour) == [target |-> target, window |-> hour]

\* recommendationFacts: an open row whose version is the time it is saved.
Fact(id, now) == [id |-> id, status |-> "open", version |-> now, generated |-> now]

\* Recommendations: the window ends with the hour the job starts in.
JobGenerates == /\ job = NoJob
                /\ clock < MaxClock
                /\ job' = clock \div Hour
                /\ UNCHANGED <<recommendation, actions, command, clock, answered>>

\* SaveRecommendations: one batch of rows; nothing to save is no insert.
JobSaves(found) ==
  /\ job # NoJob
  /\ clock < MaxClock
  /\ recommendation' = recommendation \cup
       {Fact(RecommendationID(t, job), clock) : t \in found}
  /\ clock' = clock + 1
  /\ job' = NoJob
  /\ UNCHANGED <<actions, command, answered>>

JobFails == /\ job # NoJob
            /\ job' = NoJob
            /\ UNCHANGED <<recommendation, actions, command, clock, answered>>
-----------------------------------------------------------------------------
(* The workflow service: command and ApplyCommand. *)

RowsOf(id) == {r \in recommendation : r.id = id}
IDs == {r.id : r \in recommendation}

\* SELECT ... FINAL: a row of highest version.
IsCurrent(r) == \A s \in RowsOf(r.id) : s.version <= r.version

\* Fault variant: anything undecided may be executed.
TransitionAnyOpen(current, next) ==
  CASE next = "approved" -> current = "open"
    [] next \in {"rejected", "suppressed"} -> current \in {"open", "approved"}
    [] next = "executing" -> current \in {"open", "approved"}

\* transitionAllowed ("acknowledged" is never written, so it is left out).
TransitionAllowed(current, next) ==
  CASE next = "approved" -> current = "open"
    [] next \in {"rejected", "suppressed"} -> current \in {"open", "approved"}
    [] next = "executing" -> current = "approved"

\* A handler takes the time and calls ApplyCommand; expected 0 means none given.
Receive(h, id, action, expected) ==
  /\ command[h] = NoCommand
  /\ clock < MaxClock
  /\ expected \in {0} \cup {r.version : r \in RowsOf(id)}
  /\ command' = [command EXCEPT ![h] =
       [step |-> "select", id |-> id, action |-> action, expected |-> expected,
        at |-> clock]]
  /\ clock' = clock + 1
  /\ UNCHANGED <<recommendation, actions, job, answered>>

\* The command goes on with what it read: the checks, and the new row.
Accepts(c, current) ==
  /\ c.expected \in {0, current.version}
  /\ TransitionAllowed(current.status, NextStatus[c.action])

\* Fault variant: the row that replaces another keeps its version.
UpdatedKeepsVersion(c, current) == [current EXCEPT !.status = NextStatus[c.action]]

\* The replacement row: the status asked for, the command's time as version.
Updated(c, current) ==
  [current EXCEPT !.status = NextStatus[c.action], !.version = c.at]

Select(h) ==
  /\ command[h].step = "select"
  /\ \E current \in RowsOf(command[h].id) :
       /\ IsCurrent(current)
       /\ command' = [command EXCEPT ![h] =
            IF Accepts(command[h], current)
              THEN [step |-> "insert", id |-> command[h].id,
                    action |-> command[h].action, expected |-> command[h].expected,
                    at |-> command[h].at, row |-> Updated(command[h], current)]
              ELSE NoCommand]
  /\ UNCHANGED <<recommendation, actions, job, clock, answered>>

\* Fault variant: the action is recorded before the row it is about.
InsertsActionFirst(h) ==
  /\ command[h].step = "insert"
  /\ actions' = actions \cup {[action |-> command[h].action, row |-> command[h].row]}
  /\ command' = [command EXCEPT ![h].step = "action"]
  /\ UNCHANGED <<recommendation, job, clock, answered>>

InsertRecommendation(h) ==
  /\ command[h].step = "insert"
  /\ recommendation' = recommendation \cup {command[h].row}
  /\ command' = [command EXCEPT ![h].step = "action"]
  /\ UNCHANGED <<actions, job, clock, answered>>

\* insertAction; for request_execution the row carries the execution request
\* built from the recommendation that was read.
InsertAction(h) ==
  /\ command[h].step = "action"
  /\ actions' = actions \cup {[action |-> command[h].action, row |-> command[h].row]}
  /\ answered' \in {answered,   \* the insert took effect, its answer was lost
                    answered \cup {[id |-> command[h].id, at |-> command[h].at,
                                    expected |-> command[h].expected]}}
  /\ command' = [command EXCEPT ![h] = NoCommand]
  /\ UNCHANGED <<recommendation, job, clock>>

\* A query or an insert fails, and the request with it (status 500).
CommandFails(h) ==
  /\ command[h] # NoCommand
  /\ command' = [command EXCEPT ![h] = NoCommand]
  /\ UNCHANGED <<recommendation, actions, job, clock, answered>>

(* What the query service shows of the same table. *)

\* recommendationsWhere with a status, "" for none.  The other filters are
\* constant for a recommendation.
RecommendationsWhere(r, status) == status \in {"", r.status}

\* Recommendations, SELECT ... FINAL (its order and limit are left out).
ListRecommendations(status) ==
  {r \in recommendation : IsCurrent(r) /\ RecommendationsWhere(r, status)}

\* Recommendation: at most one row, and none is status 404.
GetRecommendation(id) == {r \in RowsOf(id) : IsCurrent(r)}

WorkflowNext ==
  \/ JobGenerates \/ JobFails
  \/ \E found \in SUBSET Targets \ {{}} : JobSaves(found)
  \/ \E h \in Handlers :
       \/ \E id \in IDs, action \in DOMAIN NextStatus,
             expected \in 0 .. MaxClock : Receive(h, id, action, expected)
       \/ Select(h) \/ InsertRecommendation(h) \/ InsertAction(h) \/ CommandFails(h)

WorkflowSpec == WorkflowInit /\ [][WorkflowNext]_workflowVars
-----------------------------------------------------------------------------
\* ApplyCommand inserts the replacement row before the action: whatever insert
\* fails, an action on record never lacks the row with the status it brought.
ActionHasTransition == \A a \in actions : a.row \in recommendation

\* What the executor is handed was approved: behind every request_execution
\* there is an approved row of the same recommendation, with the same
\* generated configuration, however commands and job runs interleave.
ExecutesWhatWasApproved ==
  \A a \in actions : a.action = "request_execution" =>
    \E r \in recommendation : /\ r.status = "approved" /\ r.id = a.row.id
                              /\ r.generated = a.row.generated

\* A run of the job reopens nothing that was decided on an earlier window: it
\* only adds rows to recommendations of its own analysis window.
DecisionsSurviveLaterRuns ==
  [][\A id \in IDs : job # NoJob /\ job' = NoJob /\ id.window # job
                     => RowsOf(id)' = RowsOf(id)]_workflowVars

\* A command that was answered with success is what the query service shows from
\* then on: it answers with one row and no older version, and lists the
\* recommendation as open again only after the job has saved it anew.
AnsweredIsVisible ==
  \A a \in answered :
    /\ \E r \in GetRecommendation(a.id) :
         r.version >= a.at /\ GetRecommendation(a.id) = {r}
    /\ \A r \in ListRecommendations("open") :
         r.id = a.id => r.version > a.at /\ r.version = r.generated

\* The claim of the API contract: a command that gives the version it expects
\* fails when that is no longer the current version, so of the commands that
\* expect one version of a recommendation only one is answered with success.
OneWinnerPerVersion ==
  \A a, b \in answered :
    a.id = b.id /\ a.expected = b.expected /\ a.expected # 0 => a = b
=============================================================================
