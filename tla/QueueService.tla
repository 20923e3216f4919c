---------------------------- MODULE QueueService ----------------------------
(***************************************************************************)
(* The queue and the persistence worker in a closed system: stream         *)
(* handlers (the part of handleBatch in services/ingestion/server that     *)
(* uses the queue) enqueue batches and wait for them; a handler may give   *)
(* up when its stream ends, which leaves its batch queued.  Every batch    *)
(* holds one observation, numbered in the order of the enqueues.           *)
(***************************************************************************)
EXTENDS PersistenceWorker, FiniteSets

CONSTANTS Handlers,    \* streams that may be in handleBatch at once
          NoChan       \* the value of a handler that waits for nothing

ASSUME ServiceAssumption == NoChan \notin Chan

VARIABLES waits,   \* the channel each handler waits on
          ticket,  \* the observation of the handler's batch
          count    \* batches enqueued so far

vars == <<queueVars, workerVars, waits, ticket, count>>

Init == /\ QueueInit
        /\ WorkerInit
        /\ waits = [h \in Handlers |-> NoChan]
        /\ ticket = [h \in Handlers |-> 0]
        /\ count = 0

\* make(chan struct{}) returns a channel that nothing refers to.
Fresh == Chan \ (QueuedChans \cup {waits[h] : h \in Handlers})

Submit(h) == /\ waits[h] = NoChan
             /\ count < MaxSequence
             /\ count' = count + 1
             /\ \E ch \in Fresh :
                  /\ Enqueue([cluster |-> h, inst |-> 1, first |-> count',
                              last |-> count', chan |-> ch])
                  /\ waits' = [waits EXCEPT ![h] = ch]
             /\ ticket' = [ticket EXCEPT ![h] = count']
             /\ UNCHANGED workerVars

\* The select of handleBatch takes the Persisted() case.
Notified(h) == /\ waits[h] \in closed
               /\ waits' = [waits EXCEPT ![h] = NoChan]
               /\ ticket' = [ticket EXCEPT ![h] = 0]
               /\ UNCHANGED <<queueVars, workerVars, count>>

\* The select of handleBatch takes the stream.Context().Done() case.
GiveUp(h) == /\ waits[h] # NoChan
             /\ waits' = [waits EXCEPT ![h] = NoChan]
             /\ ticket' = [ticket EXCEPT ![h] = 0]
             /\ UNCHANGED <<queueVars, workerVars, count>>

Next == \/ WorkerNext /\ UNCHANGED <<waits, ticket, count>>
        \/ \E h \in Handlers : Submit(h)
        \/ \E h \in Handlers : Notified(h)
        \/ \E h \in Handlers : GiveUp(h)

\* The worker goroutine is scheduled, and ClickHouse, which is retried for
\* ever, accepts an insert into each table now and then.
Fairness == /\ WF_vars(WorkerNext /\ UNCHANGED <<waits, ticket, count>>)
            /\ \A t \in 1 .. NumTables :
                 SF_vars(WorkerInsert(t) /\ UNCHANGED <<waits, ticket, count>>)

Spec == Init /\ [][Next]_vars /\ Fairness
-----------------------------------------------------------------------------
\* Batches are leased in the order of their TryEnqueue, also after failed
\* leases have been put back by Retry.
FirstInFirstOut ==
  LET all == lease \o items
  IN  \A i, j \in 1 .. Len(all) : i < j => all[i].first < all[j].first

\* A handler whose Persisted() channel is closed finds its own observation in
\* ClickHouse: Commit happens only after every insert of its lease.
NotifiedMeansStored ==
  \A h \in Handlers : waits[h] \in closed /\ Kind[ticket[h]] # 0
                        => <<h, 1, ticket[h]>> \in stored

\* An enqueued batch is persisted eventually, although inserts fail and the
\* handlers that enqueued come and go: no wake-up of Acquire is lost.
EveryBatchPersisted ==
  \A h \in Handlers, n \in 1 .. MaxSequence :
     (\E b \in Elements(items) : b.cluster = h /\ b.first = n)
       ~> ((Kind[n] = 0 \/ <<h, 1, n>> \in stored)
             /\ ~\E b \in Elements(items) : b.first = n)
=============================================================================
