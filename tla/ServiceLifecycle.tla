-------------------------- MODULE ServiceLifecycle --------------------------
(***************************************************************************)
(* How the processes of the system stop.  role is the kind of process:      *)
(*   "grpc"       grpcserver.Run, behind serviceentry.Run                   *)
(*   "ingestion"  ingestion app.Run: the agents' streams, a worker and a    *)
(*                health server                                             *)
(*   "http"       the main functions of the HTTP services and the gateway   *)
(*   "agent"      Runtime.Start under the controller manager                *)
(* A call is a request, a stream or (agent) a component of the runtime.     *)
(***************************************************************************)
EXTENDS Integers, FiniteSets

CONSTANT Calls

VARIABLES role, calls, serving, signalled, draining, expired, failed, exited

lifecycleVars == <<role, calls, serving, signalled, draining, expired, failed, exited>>

Active == {c \in Calls : calls[c] = "active"}

LifecycleInit ==
  /\ role \in {"grpc", "ingestion", "http", "agent"}
  /\ calls = [c \in Calls |-> IF role = "agent" THEN "active" ELSE "none"]
  /\ serving = TRUE /\ signalled = FALSE /\ draining = FALSE /\ expired = FALSE
  /\ failed = FALSE /\ exited = FALSE

\* A client calls; a listener that is closed takes nothing.
Arrive(c) ==
  /\ role # "agent" /\ serving /\ ~exited /\ calls[c] = "none"
  /\ calls' = [calls EXCEPT ![c] = "active"]
  /\ UNCHANGED <<role, serving, signalled, draining, expired, failed, exited>>

Complete(c) ==
  /\ role # "agent" /\ ~exited /\ calls[c] = "active"
  /\ calls' = [calls EXCEPT ![c] = "done"]
  /\ UNCHANGED <<role, serving, signalled, draining, expired, failed, exited>>

\* SIGINT or SIGTERM.
Signal ==
  /\ ~signalled /\ ~exited
  /\ signalled' = TRUE
  /\ UNCHANGED <<role, calls, serving, draining, expired, failed, exited>>

\* The process ends with what is still active.
Exits ==
  /\ exited' = TRUE /\ serving' = FALSE
  /\ calls' = [c \in Calls |-> IF calls[c] = "active" THEN "aborted" ELSE calls[c]]

\* Serve, the worker or the health server returns an error before a signal: Run
\* returns it, and so does a main function whose listener fails.  In the agent
\* one component's return is the return of the runtime.
ServeFails ==
  /\ ~signalled /\ ~exited
  /\ failed' = TRUE /\ Exits
  /\ UNCHANGED <<role, signalled, draining, expired>>

\* The context is done: the health status is NOT_SERVING, GracefulStop closes
\* the listener and waits for the calls.
GracefulStop ==
  /\ role \in {"grpc", "ingestion"} /\ signalled /\ ~draining /\ ~exited
  /\ draining' = TRUE /\ serving' = FALSE
  /\ UNCHANGED <<role, calls, signalled, expired, failed, exited>>

\* Ten seconds have passed.
Expire ==
  /\ draining /\ ~expired /\ ~exited
  /\ expired' = TRUE
  /\ UNCHANGED <<role, calls, serving, signalled, draining, failed, exited>>

\* Fault variant: Stop follows GracefulStop without a wait.
StopsAtOnce ==
  /\ draining /\ ~exited
  /\ Exits
  /\ UNCHANGED <<role, signalled, draining, expired, failed>>

\* Fault variant: the wait for GracefulStop has no deadline.
WaitsForCalls ==
  /\ draining /\ ~exited /\ Active = {}
  /\ Exits
  /\ UNCHANGED <<role, signalled, draining, expired, failed>>

\* Run returns: GracefulStop has, or the deadline has passed and Stop ends the
\* calls that are left.
RunReturns ==
  /\ draining /\ ~exited /\ (Active # {} => expired)
  /\ Exits
  /\ UNCHANGED <<role, signalled, draining, expired, failed>>

\* http.Server.Shutdown closes the listener in its own goroutine...
Shutdown ==
  /\ role = "http" /\ signalled /\ serving
  /\ serving' = FALSE
  /\ UNCHANGED <<role, calls, signalled, draining, expired, failed, exited>>

\* ...and ListenAndServe returns, so main does too, without waiting for Shutdown.
MainReturns ==
  /\ role = "http" /\ signalled /\ ~serving /\ ~exited
  /\ Exits
  /\ UNCHANGED <<role, signalled, draining, expired, failed>>

\* Runtime.Start returns when its context ends and cancels its components'.
RuntimeReturns ==
  /\ role = "agent" /\ signalled /\ ~exited
  /\ Exits
  /\ UNCHANGED <<role, signalled, draining, expired, failed>>

\* What the process does by itself, clients and signals aside.
Stopping ==
  GracefulStop \/ Expire \/ RunReturns \/ Shutdown \/ MainReturns \/ RuntimeReturns

LifecycleNext ==
  \/ \E c \in Calls : Arrive(c) \/ Complete(c)
  \/ Signal \/ ServeFails \/ Stopping

LifecycleSpec == LifecycleInit /\ [][LifecycleNext]_lifecycleVars /\ WF_lifecycleVars(Stopping)
-----------------------------------------------------------------------------
\* A gRPC process that is told to stop lets the calls it has taken finish: one is
\* cut off only after the ten seconds, or when the server itself failed.
CallsAreDrained ==
  role \in {"grpc", "ingestion"} =>
    \A c \in Calls : calls[c] = "aborted" => expired \/ failed

\* A process that is told to stop does, even when an agent holds its stream open
\* for ever: GracefulStop's wait has a deadline.
StopsWhenTold == signalled ~> exited
=============================================================================
