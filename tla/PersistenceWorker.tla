------------------------- MODULE PersistenceWorker -------------------------
(***************************************************************************)
(* The persistence worker (services/ingestion/persistence/worker.go) and   *)
(* the repository it calls (repository.go): lease batches, insert their    *)
(* rows table by table, then commit the lease or put it back.              *)
(*                                                                         *)
(* An observation is <<cluster, instance, sequence>>: instance numbers the *)
(* agent processes of a cluster, because each one counts from 1 again.     *)
(***************************************************************************)
EXTENDS IngestionQueue

CONSTANTS NumTables,    \* inventory tables, numbered in sort.Strings order
          MaxSequence,  \* bound on the sequence numbers an agent hands out
          Kind          \* the table of each number's payload; 0: skipped

ASSUME KindAssumption == /\ NumTables \in Nat
                         /\ MaxSequence \in Nat
                         /\ Kind \in [1 .. MaxSequence -> 0 .. NumTables]

VARIABLES worker,  \* where Worker.Run is
          todo,    \* tables the current Persist has still to insert
          stored   \* observations whose row is in ClickHouse

workerVars == <<worker, todo, stored>>

WorkerInit == /\ worker = "acquire"
              /\ todo = {}
              /\ stored = {}

Observations(b) == {<<b.cluster, b.inst, s>> : s \in b.first .. b.last}

\* The rows mapObservation makes of the leased batches for table t.
RowsOf(t) == {o \in UNION {Observations(b) : b \in Elements(lease)} :
                Kind[o[3]] = t}

\* The tables grouped[...] gets an Insert for; kind 0 is the default branch of
\* mapObservation, whose ok = FALSE skips metrics and snapshot markers.
TablesOf(batches) == {Kind[o[3]] : o \in UNION {Observations(b) : b \in batches}}
                       \ {0}

\* The table inserted next: order is sorted.
IsNext(t) == \A u \in todo : t <= u
-----------------------------------------------------------------------------
WorkerAcquire == /\ worker = "acquire"
                 /\ Acquire
                 /\ worker' = "persist"
                 /\ todo' = TablesOf(Elements(lease'))
                 /\ UNCHANGED stored

\* The queue was empty: Acquire unlocks and enters its select.
WorkerSleep == /\ worker = "acquire"
               /\ items = <<>>
               /\ worker' = "select"
               /\ UNCHANGED <<queueVars, todo, stored>>

WorkerWake == /\ worker = "select"
              /\ TakeReady
              /\ worker' = "acquire"
              /\ UNCHANGED <<todo, stored>>

\* Store.Insert of table t succeeds.
WorkerInsert(t) == /\ worker = "persist"
                   /\ t \in todo
                   /\ IsNext(t)
                   /\ stored' = stored \cup RowsOf(t)
                   /\ todo' = todo \ {t}
                   /\ UNCHANGED <<queueVars, worker>>

\* Store.Insert of table t reports an error.  ClickHouse may have applied it
\* all the same.  The rest is not attempted and the lease goes back.
WorkerInsertFails(t) == /\ worker = "persist"
                        /\ t \in todo
                        /\ IsNext(t)
                        /\ stored' \in {stored, stored \cup RowsOf(t)}
                        /\ todo' = {}
                        /\ Retry
                        /\ worker' = "backoff"

WorkerBackoffEnds == /\ worker = "backoff"
                     /\ worker' = "acquire"
                     /\ UNCHANGED <<queueVars, todo, stored>>

\* Fault variant: the lease is committed after its first table.
CommitEarly == /\ worker = "persist"
               /\ CloseLeased
               /\ worker' = "commit"
               /\ todo' = {}
               /\ UNCHANGED stored

\* Persist returned nil: Lease.Commit closes the channels ...
WorkerCommit == /\ worker = "persist"
                /\ todo = {}
                /\ CloseLeased
                /\ worker' = "commit"
                /\ UNCHANGED <<todo, stored>>

\* ... and then gives the capacity back.
WorkerCommitEnds == /\ worker = "commit"
                    /\ ReleaseLeased
                    /\ worker' = "acquire"
                    /\ UNCHANGED <<todo, stored>>

WorkerNext == \/ WorkerAcquire
              \/ WorkerSleep
              \/ WorkerWake
              \/ \E t \in todo : WorkerInsert(t)
              \/ \E t \in todo : WorkerInsertFails(t)
              \/ WorkerBackoffEnds
              \/ WorkerCommit
              \/ WorkerCommitEnds
-----------------------------------------------------------------------------
\* Waiting and leased batches together never exceed the capacity of queue.New,
\* whatever TryEnqueue, Acquire, Commit and Retry do in whatever order: a lease
\* that comes back by Retry always fits.
CapacityRespected == /\ Len(items) + inFlight <= QueueCapacity
                     /\ inFlight = Len(lease)

\* markPersisted never closes a closed channel (which would panic): when Commit
\* is about to close the leased channels, each is open and they are distinct.
NoDoubleClose ==
  worker = "persist" =>
     /\ \A b \in Elements(lease) : b.chan \notin closed
     /\ \A i, j \in 1 .. Len(lease) : lease[i].chan = lease[j].chan => i = j
=============================================================================
