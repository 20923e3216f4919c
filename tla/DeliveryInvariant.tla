------------------------- MODULE DeliveryInvariant -------------------------
(***************************************************************************)
(* The inductive invariant behind NoSilentLoss and WatermarkIsDurable, for *)
(* behaviours in which each cluster has one agent process (Spec).          *)
(***************************************************************************)
EXTENDS Delivery

\* The buffer holds only numbers that Publish has handed out.
BufferInv == \A c \in Clusters : entries[c] \subseteq 1 .. next[c] - 1

\* A range made by the cluster's running agent from published observations.
Own(c, b) == b.inst = inst[c] /\ b.last < next[c]

\* What is on its way to the server is the running agent's.
SentInv == \A c \in Clusters : \A b \in Elements(toServer[c]) : Own(c, b)

\* From Archive to AckPersisted: what a session works on is its own agent's,
\* starts no later than the watermark's successor and is archived.
WorkOf(c) ==
  /\ handler[c] # "recv" =>
       /\ active[c]
       /\ Own(c, work[c].batch)
       /\ work[c].from <= persisted[c] + 1
       /\ \A s \in work[c].from .. work[c].batch.last : Archived(c, s)
  /\ handler[c] = "saved" =>
       \A s \in 1 .. work[c].batch.last : Durable(c, s)

SessionInv == \A c \in Clusters : WorkOf(c)

\* The batches that the queue and the lease hold.
Held == Elements(items) \cup Elements(lease)

\* A batch that carries the channel of a waiting handler is the one that handler
\* enqueued, and the channel is closed only when the batch is in ClickHouse.
NotifyOf(c) ==
  handler[c] = "waiting" =>
    /\ \A b \in Held : b.chan = waits[c] => /\ b.cluster = c
                                            /\ b.first = work[c].from
                                            /\ b.last = work[c].batch.last
    /\ waits[c] \in closed =>
         \A s \in work[c].from .. work[c].batch.last : Durable(c, s)

NotifyInv == \A c \in Clusters : NotifyOf(c)

QueueInv == \A b \in Held : Own(b.cluster, b)

\* The worker holds a lease only between Acquire and Commit or Retry.
LeasePhase == worker \notin {"persist", "commit"} => lease = <<>>

\* While Persist runs, a leased row is in ClickHouse or its table is still to do.
LeaseInv ==
  worker = "persist" =>
     \A b \in Elements(lease) : \A s \in b.first .. b.last :
        \/ Kind[s] = 0
        \/ Kind[s] \in todo
        \/ <<b.cluster, b.inst, s>> \in stored

\* A frame that tells the agent to drop only what is durable or rejected.
GoodFrame(c, frame) ==
  /\ \A s \in 1 .. MaxSequence : s <= frame.through => Durable(c, s)
  /\ \A s \in frame.terminal : <<c, inst[c], s>> \in rejected

FrameInv == \A c \in Clusters : \A frame \in Elements(toAgent[c]) : GoodFrame(c, frame)

\* Only published observations are stored or rejected.
IntegrityInv ==
  \A o \in stored \cup rejected : o[2] = inst[o[1]] /\ o[3] < next[o[1]]

\* The inductive invariant: with TypeOK it is preserved by every step of Next.
DeliveryInv == /\ BufferInv
               /\ SentInv
               /\ SessionInv
               /\ NotifyInv
               /\ QueueInv
               /\ LeasePhase
               /\ LeaseInv
               /\ FrameInv
               /\ IntegrityInv
               /\ CapacityRespected
               /\ WatermarkIsDurable
               /\ NoSilentLoss
=============================================================================
