--------------------------- MODULE IngestionQueue ---------------------------
(***************************************************************************)
(* The bounded in-memory queue between the ingestion stream handlers and   *)
(* the persistence worker (services/ingestion/queue/queue.go).             *)
(*                                                                         *)
(* Every operation below is one critical section of Queue.mu.  A queued    *)
(* batch is a record with at least a field chan: the channel its handler   *)
(* waits on (EnablePersistenceNotification), which the lease closes when   *)
(* the batch is persisted.  A channel nobody refers to any more is garbage *)
(* and its identity may be used for a new one, so Chan can stay finite.    *)
(***************************************************************************)
EXTENDS Integers, Sequences

CONSTANTS QueueCapacity,  \* INGESTION_QUEUE_CAPACITY, counted in batches
          LeaseSize,      \* INGESTION_PERSISTENCE_BATCH_SIZE
          Chan            \* identities of persistence-notification channels

ASSUME QueueAssumption == /\ QueueCapacity \in Nat \ {0}
                          /\ LeaseSize \in Nat \ {0}

VARIABLES items,     \* Queue.items: the batches waiting, oldest first
          lease,     \* Lease.items of the worker's current lease, or <<>>
          inFlight,  \* Queue.inFlight
          ready,     \* Queue.ready holds a token
          closed     \* channels that have been closed

queueVars == <<items, lease, inFlight, ready, closed>>

QueueInit == /\ items = <<>>
             /\ lease = <<>>
             /\ inFlight = 0
             /\ ready = FALSE
             /\ closed = {}

Elements(s) == {s[i] : i \in 1 .. Len(s)}

\* The channels of the batches that the queue or the lease still holds.
QueuedChans == {b.chan : b \in Elements(items) \cup Elements(lease)}
-----------------------------------------------------------------------------
\* Fault variant: leased batches are not counted.
FullIgnoresLease == Len(items) >= QueueCapacity

QueueFull == Len(items) + inFlight >= QueueCapacity

Depth == Len(items)

Max1(n) == IF n > 1 THEN n ELSE 1

\* Fault variant: the batch is queued but the worker is not signalled.
EnqueueSilently(b) == /\ ~QueueFull
                      /\ items' = Append(items, b)
                      /\ closed' = closed \ {b.chan}
                      /\ UNCHANGED <<lease, inFlight, ready>>

\* TryEnqueue, the branch that succeeds.
Enqueue(b) == /\ ~QueueFull
              /\ items' = Append(items, b)
              /\ ready' = TRUE
              /\ closed' = closed \ {b.chan}
              /\ UNCHANGED <<lease, inFlight>>

LeaseCount == IF LeaseSize < Len(items) THEN LeaseSize ELSE Len(items)

\* Acquire, the branch that finds items.
Acquire == /\ items # <<>>
           /\ lease' = SubSeq(items, 1, LeaseCount)
           /\ items' = SubSeq(items, LeaseCount + 1, Len(items))
           /\ inFlight' = inFlight + LeaseCount
           /\ ready' = TRUE
           /\ UNCHANGED closed

\* Acquire waiting in its select: the receive from Queue.ready.
TakeReady == /\ ready
             /\ ready' = FALSE
             /\ UNCHANGED <<items, lease, inFlight, closed>>

\* Commit, first half: markPersisted on every leased batch, before the lock.
CloseLeased == /\ closed' = closed \cup {b.chan : b \in Elements(lease)}
               /\ UNCHANGED <<items, lease, inFlight, ready>>

\* Commit, second half: the capacity is given back under the lock.
ReleaseLeased == /\ inFlight' = inFlight - Len(lease)
                 /\ lease' = <<>>
                 /\ ready' = TRUE
                 /\ UNCHANGED <<items, closed>>

\* Fault variant: a failed lease goes to the back of the queue.
RetryAtBack == /\ items' = items \o lease
               /\ inFlight' = inFlight - Len(lease)
               /\ lease' = <<>>
               /\ ready' = TRUE
               /\ UNCHANGED closed

\* Fault variant: a failed lease notifies its handlers all the same.
RetryNotified == /\ items' = lease \o items
                 /\ inFlight' = inFlight - Len(lease)
                 /\ lease' = <<>>
                 /\ ready' = TRUE
                 /\ closed' = closed \cup {b.chan : b \in Elements(lease)}

\* Retry: the whole lease goes back to the front of the queue.
Retry == /\ items' = lease \o items
         /\ inFlight' = inFlight - Len(lease)
         /\ lease' = <<>>
         /\ ready' = TRUE
         /\ UNCHANGED closed
=============================================================================
