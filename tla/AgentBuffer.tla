---------------------------- MODULE AgentBuffer ----------------------------
(***************************************************************************)
(* The wake-up protocol of the agent's bounded buffer                      *)
(* (agent/transport/buffer.go) between the publishers, collector and       *)
(* sampler, and the stream client (client.go).  Delivery models which      *)
(* observations the buffer holds; here only their number matters, but each *)
(* critical section of Buffer.mu and each channel operation is a step.     *)
(*                                                                         *)
(* Buffer.notify is a Go channel of capacity 1: a send goes to the         *)
(* receiver that has been parked longest, else into the slot, else         *)
(* (default case of signal) nowhere.                                       *)
(***************************************************************************)
EXTENDS Integers, Sequences, TLC

CONSTANTS Publishers, Client, Capacity, BatchSize

ASSUME BufferAssumption == /\ Capacity \in Nat \ {0}
                           /\ BatchSize \in 1 .. Capacity
                           /\ Client \notin Publishers

VARIABLES size,     \* len(Buffer.entries)
          token,    \* the slot of Buffer.notify is taken
          parked,   \* goroutines parked on Buffer.notify, longest first
          pc,       \* where each goroutine is
          sent      \* observations in the batch the client awaits

vars == <<size, token, parked, pc, sent>>

Init == /\ size = 0
        /\ token = FALSE
        /\ parked = <<>>
        /\ pc = [g \in Publishers |-> "idle"] @@ (Client :> "down")
        /\ sent = 0
-----------------------------------------------------------------------------
\* Goroutine g goes on at "to" after signal(), which wakes one receiver.
SignalMove(g, to) ==
  IF parked # <<>>
    THEN /\ parked' = Tail(parked)
         /\ pc' = [pc EXCEPT ![g] = to, ![Head(parked)] = "check"]
         /\ UNCHANGED token
    ELSE /\ token' = TRUE
         /\ pc' = [pc EXCEPT ![g] = to]
         /\ UNCHANGED parked

\* The select on Buffer.notify finds the token, or parks.
TakeToken(g) == /\ pc[g] = "select"
                /\ token
                /\ token' = FALSE
                /\ pc' = [pc EXCEPT ![g] = "check"]
                /\ UNCHANGED <<size, parked, sent>>

Park(g) == /\ pc[g] = "select"
           /\ ~token
           /\ parked' = Append(parked, g)
           /\ pc' = [pc EXCEPT ![g] = "parked"]
           /\ UNCHANGED <<size, token, sent>>
-----------------------------------------------------------------------------
(* Publish, called by the collector's worker and by the sampler. *)

Call(p) == /\ pc[p] = "idle"
           /\ pc' = [pc EXCEPT ![p] = "check"]
           /\ UNCHANGED <<size, token, parked, sent>>

PublishAppends(p) == /\ pc[p] = "check"
                     /\ size < Capacity
                     /\ size' = size + 1
                     /\ SignalMove(p, "idle")
                     /\ UNCHANGED sent

\* The buffer is full: Publish unlocks and is about to select.
PublishWaits(p) == /\ pc[p] = "check"
                   /\ size >= Capacity
                   /\ pc' = [pc EXCEPT ![p] = "select"]
                   /\ UNCHANGED <<size, token, parked, sent>>
-----------------------------------------------------------------------------
(* The client: Batch, awaitAcknowledgement and reconnection. *)

Min2(a, b) == IF a < b THEN a ELSE b

\* A batch is a prefix of the buffer and settles as a whole, so the entries stay
\* contiguous and Batch never has to cut it shorter.
BatchReturns == /\ pc[Client] = "check"
                /\ size > 0
                /\ sent' = Min2(size, BatchSize)
                /\ pc' = [pc EXCEPT ![Client] = "await"]
                /\ UNCHANGED <<size, token, parked>>

BatchWaits == /\ pc[Client] = "check"
              /\ size = 0
              /\ pc' = [pc EXCEPT ![Client] = "select"]
              /\ UNCHANGED <<size, token, parked, sent>>

\* Fault variant: after the deadline Batch waits on without another look.
BatchSleepsOn == /\ pc[Client] \in {"select", "parked"}
                 /\ parked' = SelectSeq(parked, LAMBDA g : g # Client)
                 /\ pc' = [pc EXCEPT ![Client] = "select"]
                 /\ UNCHANGED <<size, token, sent>>

\* The one-second context of Batch expires; connect looks at its frames and
\* calls Batch again.
BatchTimesOut == /\ pc[Client] \in {"select", "parked"}
                 /\ parked' = SelectSeq(parked, LAMBDA g : g # Client)
                 /\ pc' = [pc EXCEPT ![Client] = "check"]
                 /\ UNCHANGED <<size, token, sent>>

\* Fault variant: Acknowledge does not signal.
AckQuietly == /\ pc[Client] = "await"
              /\ size' = size - sent
              /\ sent' = 0
              /\ pc' = [pc EXCEPT ![Client] = "check"]
              /\ UNCHANGED <<token, parked>>

\* The awaited acknowledgement covers the batch, by its boundary or by terminal
\* rejections.
AckSettles == /\ pc[Client] = "await"
              /\ size' = size - sent
              /\ sent' = 0
              /\ SignalMove(Client, "check")

\* The awaited acknowledgement asks for the batch again.
AckRetries == /\ pc[Client] = "await"
              /\ sent' = 0
              /\ SignalMove(Client, "check")
              /\ UNCHANGED size

\* The stream ends, an ingestion outage for example.
StreamEnds == /\ pc[Client] \in {"check", "await"}
              /\ pc' = [pc EXCEPT ![Client] = "down"]
              /\ UNCHANGED <<size, token, parked, sent>>

\* connect gets ServerHello.  Its watermark covers any prefix of the buffer: the
\* batch whose acknowledgement was lost, or what it has of an earlier process.
Reconnect == /\ pc[Client] = "down"
             /\ size' \in 0 .. size
             /\ sent' = 0
             /\ SignalMove(Client, "check")
-----------------------------------------------------------------------------
PublisherNext(p) == \/ Call(p)
                    \/ PublishAppends(p)
                    \/ PublishWaits(p)
                    \/ TakeToken(p)
                    \/ Park(p)

ClientNext == \/ BatchReturns
              \/ BatchWaits
              \/ TakeToken(Client)
              \/ Park(Client)
              \/ BatchTimesOut
              \/ AckSettles
              \/ AckRetries
              \/ Reconnect

Next == \/ \E p \in Publishers : PublisherNext(p)
        \/ ClientNext
        \/ StreamEnds

\* The collector and the sampler publish again and again; batches are sent
\* until they settle.
Fairness == /\ \A p \in Publishers : WF_vars(PublisherNext(p))
            /\ WF_vars(ClientNext)
            /\ SF_vars(AckSettles)

Spec == Init /\ [][Next]_vars /\ Fairness
-----------------------------------------------------------------------------
\* What is in the buffer is sent: the client cannot sleep through a signal that
\* a publisher took from it, because Batch polls.
BacklogIsSent == size > 0 ~> pc[Client] \in {"await", "down"}

\* A publisher that is blocked while the buffer holds observations is woken.
BacklogWakesPublisher ==
  \A p \in Publishers : (pc[p] = "parked" /\ size > 0) ~> pc[p] # "parked"

\* Publish blocks only for back-pressure: a publisher that waits goes on once
\* the client has drained the buffer.
BlockedPublisherResumes ==
  \A p \in Publishers : pc[p] = "parked" ~> pc[p] # "parked"
=============================================================================
