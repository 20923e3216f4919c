------------------------------ MODULE Delivery ------------------------------
(***************************************************************************)
(* Delivery of observations from the cluster agents to ClickHouse: the     *)
(* agent's buffer and stream client (agent/transport), the ingestion       *)
(* stream server with its checkpoint and archive (services/ingestion/      *)
(* server), the queue and the persistence worker.                          *)
(*                                                                         *)
(* The buffer is the set of sequence numbers it holds: Publish appends     *)
(* increasing numbers and Acknowledge filters, so the slice is that set in *)
(* increasing order.  A gRPC stream delivers frames in order until it      *)
(* breaks; each side notices on its own.  The agent has one stream and the *)
(* server one active session per cluster, so each cluster has one pair of  *)
(* frame queues, which belongs to the session while link is TRUE.          *)
(***************************************************************************)
EXTENDS PersistenceWorker, FiniteSets

CONSTANTS Clusters,
          NoChan,
          BufferCapacity,   \* agent: QueueCapacity
          BatchSize,        \* agent: BatchSize
          MaxBatchRecords,  \* server: stands for both batch limits
          HighWatermarkPercent,
          Invalid,          \* numbers whose observation fails validateBatch
          DurableCheckpoint,\* INGESTION_SEQUENCE_CHECKPOINT_DIR is set
          MaxFaults,        \* bound on stream breaks and server crashes
          MaxInstances      \* bound on agent processes per cluster

\* agent/config FromEnv and services/ingestion/app validateConfig.
ASSUME DeliveryAssumption ==
  /\ NoChan \notin Chan
  /\ BufferCapacity \in Nat \ {0}
  /\ BatchSize \in 1 .. BufferCapacity
  /\ MaxBatchRecords \in Nat \ {0}
  /\ HighWatermarkPercent \in 1 .. 100
  /\ Invalid \subseteq 1 .. MaxSequence
  /\ DurableCheckpoint \in BOOLEAN
  /\ MaxFaults \in Nat
  /\ MaxInstances \in Nat \ {0}

VARIABLES
  \* the agent of each cluster
  inst,       \* which process of this agent is running
  next,       \* Buffer.next
  entries,    \* Buffer.entries
  agent,      \* where Client.connect is
  awaiting,   \* the batch awaitAcknowledgement waits for
  \* the stream of each cluster
  link,       \* the agent's stream is the active session, and not broken
  toServer,   \* frames on their way to the server
  toAgent,    \* frames on their way to the agent
  \* the ingestion server
  active,     \* Server.active has a session for the cluster
  loaded,     \* clusterState.loaded
  persisted,  \* clusterState.persistedThrough
  handler,    \* where the session's Connect / handleBatch is
  work,       \* the batch in handleBatch
  waits,      \* the channel it waits on
  \* storage that survives a server crash
  checkpoint, \* the checkpoint file
  archived,   \* the files of the raw archive
  \* history and bounds
  rejected,   \* observations the server has rejected as not retryable
  faults      \* breaks and crashes so far

agentVars == <<inst, next, entries, agent, awaiting>>
streamVars == <<link, toServer, toAgent>>
serverVars == <<active, loaded, persisted, handler, work, waits>>
diskVars == <<checkpoint, archived>>
vars == <<queueVars, workerVars, agentVars, streamVars, serverVars, diskVars,
          rejected, faults>>

NoBatch == [inst |-> 0, first |-> 1, last |-> 0]
NoWork == [batch |-> NoBatch, from |-> 1, slowed |-> FALSE]

Init == /\ QueueInit
        /\ WorkerInit
        /\ inst = [c \in Clusters |-> 1]
        /\ next = [c \in Clusters |-> 1]
        /\ entries = [c \in Clusters |-> {}]
        /\ agent = [c \in Clusters |-> "down"]
        /\ awaiting = [c \in Clusters |-> NoBatch]
        /\ link = [c \in Clusters |-> FALSE]
        /\ toServer = [c \in Clusters |-> <<>>]
        /\ toAgent = [c \in Clusters |-> <<>>]
        /\ active = [c \in Clusters |-> FALSE]
        /\ loaded = [c \in Clusters |-> FALSE]
        /\ persisted = [c \in Clusters |-> 0]
        /\ handler = [c \in Clusters |-> "recv"]
        /\ work = [c \in Clusters |-> NoWork]
        /\ waits = [c \in Clusters |-> NoChan]
        /\ checkpoint = [c \in Clusters |-> 0]
        /\ archived = {}
        /\ rejected = {}
        /\ faults = 0
-----------------------------------------------------------------------------
(* Frames.  hello: ServerHello; ack: BatchAcknowledgement; flow: FlowControl. *)

Hello(through) == [type |-> "hello", batch |-> NoBatch, through |-> through,
                   retry |-> {}, terminal |-> {}]

Ack(batch, through, retry, terminal) ==
  [type |-> "ack", batch |-> batch, through |-> through,
   retry |-> retry, terminal |-> terminal]

FlowControl == [type |-> "flow", batch |-> NoBatch, through |-> 0,
                retry |-> {}, terminal |-> {}]

\* stream.Send of the session: the frames are lost when the stream is broken.
Reply(c, frames) ==
  toAgent' = IF link[c] THEN [toAgent EXCEPT ![c] = @ \o frames] ELSE toAgent
-----------------------------------------------------------------------------
(* The agent: agent/transport. *)

\* Buffer.Publish, when there is room; a full buffer blocks the publisher.
Publish(c) == /\ next[c] <= MaxSequence
              /\ Cardinality(entries[c]) < BufferCapacity
              /\ entries' = [entries EXCEPT ![c] = @ \cup {next[c]}]
              /\ next' = [next EXCEPT ![c] = @ + 1]
              /\ UNCHANGED <<inst, agent, awaiting, streamVars, serverVars,
                             diskVars, queueVars, workerVars, rejected, faults>>

\* Fault variant: everything sent is dropped, whatever the acknowledgement says.
AcknowledgeAll(c, through, terminal) ==
  entries' = [entries EXCEPT ![c] = {s \in @ : s > through /\ s > awaiting[c].last}]

\* Buffer.Acknowledge.
Acknowledge(c, through, terminal) ==
  entries' = [entries EXCEPT ![c] = {s \in @ : s > through /\ s \notin terminal}]

\* CheckpointStore.Load: 0 when there is no file, and without a directory.
Load(c) == checkpoint[c]

\* connect opens a stream and sends AgentHello; the server's Connect acquires
\* the cluster and replies ServerHello.  While another session is active the
\* server answers AlreadyExists and nothing changes.
Connect(c) ==
  /\ agent[c] = "down"
  /\ ~active[c]
  /\ active' = [active EXCEPT ![c] = TRUE]
  /\ persisted' = [persisted EXCEPT ![c] = IF loaded[c] THEN @ ELSE Load(c)]
  /\ loaded' = [loaded EXCEPT ![c] = TRUE]
  /\ link' = [link EXCEPT ![c] = TRUE]
  /\ toServer' = [toServer EXCEPT ![c] = <<>>]
  /\ toAgent' = [toAgent EXCEPT ![c] = <<Hello(persisted'[c])>>]
  /\ agent' = [agent EXCEPT ![c] = "hello"]
  /\ UNCHANGED <<inst, next, entries, awaiting, handler, work, waits, diskVars,
                 queueVars, workerVars, rejected, faults>>

\* connect receives ServerHello.
Handshake(c) ==
  /\ agent[c] = "hello"
  /\ toAgent[c] # <<>>
  /\ Acknowledge(c, Head(toAgent[c]).through, {})
  /\ toAgent' = [toAgent EXCEPT ![c] = Tail(@)]
  /\ agent' = [agent EXCEPT ![c] = "idle"]
  /\ UNCHANGED <<inst, next, awaiting, link, toServer, serverVars, diskVars,
                 queueVars, workerVars, rejected, faults>>

\* Buffer.Batch: the longest contiguous prefix of at most BatchSize entries.
IsBatch(c, f, l) ==
  /\ \A s \in entries[c] : f <= s
  /\ f .. l \subseteq entries[c]
  /\ l - f < BatchSize
  /\ \A m \in entries[c] : m > l => \/ m - f >= BatchSize
                                    \/ ~(f .. m \subseteq entries[c])

\* The loop of connect sends a batch and enters awaitAcknowledgement.
SendBatch(c) ==
  /\ agent[c] = "idle"
  /\ \E f, l \in entries[c] :
       /\ IsBatch(c, f, l)
       /\ awaiting' = [awaiting EXCEPT ![c] =
                         [inst |-> inst[c], first |-> f, last |-> l]]
  /\ toServer' = IF link[c]
                   THEN [toServer EXCEPT ![c] = Append(@, awaiting'[c])]
                   ELSE toServer
  /\ agent' = [agent EXCEPT ![c] = "await"]
  /\ UNCHANGED <<inst, next, entries, link, toAgent, serverVars, diskVars,
                 queueVars, workerVars, rejected, faults>>

\* awaitAcknowledgement: handleFrame sleeps for RetryAfter.
ReceiveFlowControl(c) ==
  /\ agent[c] = "await"
  /\ toAgent[c] # <<>>
  /\ Head(toAgent[c]).type = "flow"
  /\ toAgent' = [toAgent EXCEPT ![c] = Tail(@)]
  /\ UNCHANGED <<agentVars, link, toServer, serverVars, diskVars,
                 queueVars, workerVars, rejected, faults>>

SameBatchId(a, b) == a.first = b.first /\ a.last = b.last

\* awaitAcknowledgement: an acknowledgement of another batch is passed over.
ReceiveAck(c) ==
  /\ agent[c] = "await"
  /\ toAgent[c] # <<>>
  /\ LET ack == Head(toAgent[c])
         mine == SameBatchId(ack.batch, awaiting[c])
     IN  /\ ack.type = "ack"
         /\ IF mine THEN Acknowledge(c, ack.through, ack.terminal)
                    ELSE UNCHANGED entries
         /\ agent' = [agent EXCEPT ![c] = IF mine THEN "idle" ELSE @]
         /\ awaiting' = [awaiting EXCEPT ![c] = IF mine THEN NoBatch ELSE @]
  /\ toAgent' = [toAgent EXCEPT ![c] = Tail(@)]
  /\ UNCHANGED <<inst, next, link, toServer, serverVars, diskVars,
                 queueVars, workerVars, rejected, faults>>

\* connect returns an error of its stream; Run keeps the buffer and retries.
Disconnect(c) ==
  /\ agent[c] # "down"
  /\ ~link[c]
  /\ agent' = [agent EXCEPT ![c] = "down"]
  /\ awaiting' = [awaiting EXCEPT ![c] = NoBatch]
  /\ toAgent' = [toAgent EXCEPT ![c] = <<>>]
  /\ UNCHANGED <<inst, next, entries, link, toServer, serverVars, diskVars,
                 queueVars, workerVars, rejected, faults>>

\* The network, or the agent's end of the stream, fails.
Break(c) ==
  /\ link[c]
  /\ faults < MaxFaults
  /\ link' = [link EXCEPT ![c] = FALSE]
  /\ faults' = faults + 1
  /\ UNCHANGED <<agentVars, toServer, toAgent, serverVars, diskVars,
                 queueVars, workerVars, rejected>>
-----------------------------------------------------------------------------
(* The stream server: Connect and handleBatch of services/ingestion/server. *)

HighWatermark == Max1((QueueCapacity * HighWatermarkPercent) \div 100)

\* validateBatch; the agent builds contiguous ranges with right checksums, so
\* what can fail is the size of the batch or one of its observations.
Valid(b) == /\ b.last - b.first < MaxBatchRecords
            /\ Invalid \cap (b.first .. b.last) = {}

\* Connect has received batch b.
Receives(c, b) == /\ active[c]
                  /\ handler[c] = "recv"
                  /\ toServer[c] # <<>>
                  /\ b = Head(toServer[c])
                  /\ toServer' = [toServer EXCEPT ![c] = Tail(@)]

\* rejectionsForBatch: every record of the batch, none of them retryable.
Rejections(b) == b.first .. b.last

\* An invalid batch is rejected as a whole.
RejectBatch(c) ==
  \E b \in Elements(toServer[c]) :
    /\ Receives(c, b)
    /\ ~Valid(b)
    /\ Reply(c, <<Ack(b, persisted[c], {}, Rejections(b))>>)
    /\ rejected' = rejected \cup {<<c, b.inst, s>> : s \in Rejections(b)}
    /\ UNCHANGED <<agentVars, link, serverVars, diskVars,
                   queueVars, workerVars, faults>>

AckDuplicate(c) ==
  \E b \in Elements(toServer[c]) :
    /\ Receives(c, b)
    /\ Valid(b)
    /\ b.last <= persisted[c]
    /\ Reply(c, <<Ack(b, persisted[c], {}, {})>>)
    /\ UNCHANGED <<agentVars, link, serverVars, diskVars,
                   queueVars, workerVars, rejected, faults>>

AckGap(c) ==
  \E b \in Elements(toServer[c]) :
    /\ Receives(c, b)
    /\ Valid(b)
    /\ b.last > persisted[c]
    /\ b.first > persisted[c] + 1
    /\ Reply(c, <<Ack(b, persisted[c], persisted[c] + 1 .. b.first - 1, {})>>)
    /\ UNCHANGED <<agentVars, link, serverVars, diskVars,
                   queueVars, workerVars, rejected, faults>>

\* Fault variant: a batch beyond a gap is accepted as well.
AcceptsGap(c, b) == /\ Receives(c, b)
                    /\ Valid(b)
                    /\ b.last > persisted[c]

\* Fault variant: a batch that was persisted before is taken again.
AcceptsDuplicate(c, b) == /\ Receives(c, b)
                          /\ Valid(b)
                          /\ b.first <= persisted[c] + 1

\* The batch starts at, or overlaps, the next expected number.
Accepts(c, b) == /\ Receives(c, b)
                 /\ Valid(b)
                 /\ b.last > persisted[c]
                 /\ b.first <= persisted[c] + 1

\* suffixAfter.
SuffixStart(c, b) == IF b.first > persisted[c] THEN b.first ELSE persisted[c] + 1

Slowed == Depth >= HighWatermark

\* FileArchiver.path: the tenant and cluster, the range of the suffix and the
\* batch id, but not the agent process.
SamePath(f, g) == /\ f.cluster = g.cluster
                  /\ f.from = g.from
                  /\ SameBatchId(f.batch, g.batch)

\* os.WriteFile replaces the file that is already there; the directory is that
\* of the day, so on another day there is none.
WriteFile(file) ==
  archived' \in {archived \cup {file},
                {f \in archived : ~SamePath(f, file)} \cup {file}}

\* The accepted suffix is archived.
Archive(c) ==
  \E b \in Elements(toServer[c]) :
    /\ Accepts(c, b)
    /\ Reply(c, IF Slowed THEN <<FlowControl>> ELSE <<>>)
    /\ WriteFile([cluster |-> c, batch |-> b, from |-> SuffixStart(c, b)])
    /\ handler' = [handler EXCEPT ![c] = "archived"]
    /\ work' = [work EXCEPT ![c] = [batch |-> b, from |-> SuffixStart(c, b),
                                    slowed |-> Slowed]]
    /\ UNCHANGED <<agentVars, link, active, loaded, persisted, waits, checkpoint,
                   queueVars, workerVars, rejected, faults>>

\* Archiver.Archive fails: a retry acknowledgement.
ArchiveFails(c) ==
  \E b \in Elements(toServer[c]) :
    /\ Accepts(c, b)
    /\ Reply(c, (IF Slowed THEN <<FlowControl>> ELSE <<>>)
                \o <<Ack(b, persisted[c], SuffixStart(c, b) .. b.last, {})>>)
    /\ UNCHANGED <<agentVars, link, serverVars, diskVars,
                   queueVars, workerVars, rejected, faults>>

\* Channels in use: the fresh one of EnablePersistenceNotification is another.
FreshChans == Chan \ (QueuedChans \cup {waits[c] : c \in Clusters})

TryEnqueue(c) ==
  /\ handler[c] = "archived"
  /\ \E ch \in FreshChans :
       /\ Enqueue([cluster |-> c, inst |-> work[c].batch.inst,
                   first |-> work[c].from, last |-> work[c].batch.last,
                   chan |-> ch])
       /\ waits' = [waits EXCEPT ![c] = ch]
  /\ handler' = [handler EXCEPT ![c] = "waiting"]
  /\ UNCHANGED <<agentVars, streamVars, active, loaded, persisted, work,
                 diskVars, workerVars, rejected, faults>>

\* The acknowledgement that asks for the accepted suffix again.
RetryAck(c) == Ack(work[c].batch, persisted[c],
                   work[c].from .. work[c].batch.last, {})

\* Fault variant: the agent gets flow control but no acknowledgement.
RefuseSilently(c) ==
  /\ handler[c] = "archived"
  /\ QueueFull
  /\ Reply(c, <<FlowControl>>)
  /\ handler' = [handler EXCEPT ![c] = "recv"]
  /\ work' = [work EXCEPT ![c] = NoWork]
  /\ UNCHANGED <<agentVars, link, toServer, active, loaded, persisted, waits,
                 diskVars, queueVars, workerVars, rejected, faults>>

\* TryEnqueue returns ErrFull.
RefuseFull(c) ==
  /\ handler[c] = "archived"
  /\ QueueFull
  /\ Reply(c, (IF work[c].slowed THEN <<>> ELSE <<FlowControl>>) \o <<RetryAck(c)>>)
  /\ handler' = [handler EXCEPT ![c] = "recv"]
  /\ work' = [work EXCEPT ![c] = NoWork]
  /\ UNCHANGED <<agentVars, link, toServer, active, loaded, persisted, waits,
                 diskVars, queueVars, workerVars, rejected, faults>>

\* CheckpointStore.Save: the file is replaced at once, by os.Rename; without a
\* directory nothing is kept.
Save(c, through) == checkpoint' = IF DurableCheckpoint
                                    THEN [checkpoint EXCEPT ![c] = through]
                                    ELSE checkpoint

\* Fault variant: the checkpoint is saved without waiting for the worker.
SaveEarly(c) ==
  /\ handler[c] = "waiting"
  /\ Save(c, work[c].batch.last)
  /\ handler' = [handler EXCEPT ![c] = "saved"]
  /\ waits' = [waits EXCEPT ![c] = NoChan]
  /\ UNCHANGED <<agentVars, streamVars, active, loaded, persisted, work,
                 archived, queueVars, workerVars, rejected, faults>>

\* Persisted() is closed and CheckpointStore.Save succeeds.
SaveCheckpoint(c) ==
  /\ handler[c] = "waiting"
  /\ waits[c] \in closed
  /\ Save(c, work[c].batch.last)
  /\ handler' = [handler EXCEPT ![c] = "saved"]
  /\ waits' = [waits EXCEPT ![c] = NoChan]
  /\ UNCHANGED <<agentVars, streamVars, active, loaded, persisted, work,
                 archived, queueVars, workerVars, rejected, faults>>

\* Persisted() is closed and Save fails, on the disk or because the stream's
\* context is already done: a retry acknowledgement.  MemoryCheckpointStore
\* never fails.
SaveFails(c) ==
  /\ handler[c] = "waiting"
  /\ waits[c] \in closed
  /\ DurableCheckpoint
  /\ Reply(c, <<RetryAck(c)>>)
  /\ handler' = [handler EXCEPT ![c] = "recv"]
  /\ waits' = [waits EXCEPT ![c] = NoChan]
  /\ work' = [work EXCEPT ![c] = NoWork]
  /\ UNCHANGED <<agentVars, link, toServer, active, loaded, persisted, diskVars,
                 queueVars, workerVars, rejected, faults>>

\* Fault variant: the batch is acknowledged but persistedThrough stays behind.
AckWithoutAdvance(c) ==
  /\ handler[c] = "saved"
  /\ Reply(c, <<Ack(work[c].batch, work[c].batch.last, {}, {})>>)
  /\ handler' = [handler EXCEPT ![c] = "recv"]
  /\ work' = [work EXCEPT ![c] = NoWork]
  /\ UNCHANGED <<agentVars, link, toServer, active, loaded, persisted, waits,
                 diskVars, queueVars, workerVars, rejected, faults>>

\* persistedThrough advances and the batch is acknowledged.
AckPersisted(c) ==
  /\ handler[c] = "saved"
  /\ persisted' = [persisted EXCEPT ![c] = work[c].batch.last]
  /\ Reply(c, <<Ack(work[c].batch, work[c].batch.last, {}, {})>>)
  /\ handler' = [handler EXCEPT ![c] = "recv"]
  /\ work' = [work EXCEPT ![c] = NoWork]
  /\ UNCHANGED <<agentVars, link, toServer, active, loaded, waits, diskVars,
                 queueVars, workerVars, rejected, faults>>

\* The session ends: Recv fails, or the select of handleBatch sees the stream's
\* context done.  A batch that is already queued stays queued.
Release(c) ==
  /\ active[c]
  /\ ~link[c]
  /\ handler[c] \in {"recv", "waiting"}
  /\ active' = [active EXCEPT ![c] = FALSE]
  /\ handler' = [handler EXCEPT ![c] = "recv"]
  /\ work' = [work EXCEPT ![c] = NoWork]
  /\ waits' = [waits EXCEPT ![c] = NoChan]
  /\ toServer' = [toServer EXCEPT ![c] = <<>>]
  /\ UNCHANGED <<agentVars, link, toAgent, loaded, persisted, diskVars,
                 queueVars, workerVars, rejected, faults>>

\* The ingestion process ends, at any point, and starts again: all that is in
\* memory is gone, the checkpoint, the archive and ClickHouse remain.
ServerCrash ==
  /\ faults < MaxFaults
  /\ faults' = faults + 1
  /\ items' = <<>> /\ lease' = <<>> /\ inFlight' = 0
  /\ ready' = FALSE /\ closed' = {}
  /\ worker' = "acquire" /\ todo' = {}
  /\ link' = [c \in Clusters |-> FALSE]
  /\ toServer' = [c \in Clusters |-> <<>>]
  /\ active' = [c \in Clusters |-> FALSE]
  /\ loaded' = [c \in Clusters |-> FALSE]
  /\ persisted' = [c \in Clusters |-> 0]
  /\ handler' = [c \in Clusters |-> "recv"]
  /\ work' = [c \in Clusters |-> NoWork]
  /\ waits' = [c \in Clusters |-> NoChan]
  /\ UNCHANGED <<agentVars, toAgent, diskVars, stored, rejected>>

\* The agent process, or its leader, changes: a new Buffer starts at 1.
AgentRestart(c) ==
  /\ inst[c] < MaxInstances
  /\ inst' = [inst EXCEPT ![c] = @ + 1]
  /\ next' = [next EXCEPT ![c] = 1]
  /\ entries' = [entries EXCEPT ![c] = {}]
  /\ agent' = [agent EXCEPT ![c] = "down"]
  /\ awaiting' = [awaiting EXCEPT ![c] = NoBatch]
  /\ link' = [link EXCEPT ![c] = FALSE]
  /\ toAgent' = [toAgent EXCEPT ![c] = <<>>]
  /\ UNCHANGED <<toServer, serverVars, diskVars, queueVars, workerVars,
                 rejected, faults>>
-----------------------------------------------------------------------------
\* The agent's client goroutine.
ClientNext(c) == \/ Connect(c)
                 \/ Handshake(c)
                 \/ SendBatch(c)
                 \/ ReceiveFlowControl(c)
                 \/ ReceiveAck(c)
                 \/ Disconnect(c)

\* The goroutine of the cluster's session.
SessionNext(c) == \/ RejectBatch(c)
                  \/ AckDuplicate(c)
                  \/ AckGap(c)
                  \/ Archive(c)
                  \/ ArchiveFails(c)
                  \/ TryEnqueue(c)
                  \/ RefuseFull(c)
                  \/ SaveCheckpoint(c)
                  \/ SaveFails(c)
                  \/ AckPersisted(c)
                  \/ Release(c)

\* The worker's goroutine.
PersistNext == /\ WorkerNext
               /\ UNCHANGED <<agentVars, streamVars, serverVars, diskVars,
                              rejected, faults>>

Next == \/ \E c \in Clusters : \/ Publish(c)
                               \/ ClientNext(c)
                               \/ SessionNext(c)
                               \/ Break(c)
        \/ PersistNext
        \/ ServerCrash

\* Goroutines are scheduled.  Archive, Save and Insert are retried for ever and
\* the disk and each table of ClickHouse accept a write now and then.
Fairness ==
  /\ \A c \in Clusters : /\ WF_vars(ClientNext(c))
                         /\ WF_vars(SessionNext(c))
                         /\ SF_vars(Archive(c))
                         /\ SF_vars(SaveCheckpoint(c))
  /\ WF_vars(PersistNext)
  /\ \A t \in 1 .. NumTables : SF_vars(PersistNext /\ WorkerInsert(t))

\* One agent process per cluster; the ingestion process may crash.
Spec == Init /\ [][Next]_vars

FairSpec == Spec /\ Fairness

\* Agent processes come and go as well.
RestartNext == Next \/ \E c \in Clusters : AgentRestart(c)

RestartSpec == Init /\ [][RestartNext]_vars
-----------------------------------------------------------------------------
Interval == [inst : Nat, first : Nat \ {0}, last : 0 .. MaxSequence]

Work == [batch : Interval, from : Nat \ {0}, slowed : BOOLEAN]

Batch == [cluster : Clusters, inst : Nat, first : Nat \ {0},
          last : 0 .. MaxSequence, chan : Chan]

Frame == [type : {"hello", "ack", "flow"}, batch : Interval, through : Nat,
          retry : SUBSET Nat, terminal : SUBSET Nat]

QueueTypes == /\ items \in Seq(Batch)
              /\ lease \in Seq(Batch)
              /\ inFlight \in Nat
              /\ ready \in BOOLEAN
              /\ closed \subseteq Chan

WorkerTypes ==
  /\ worker \in {"acquire", "select", "persist", "commit", "backoff"}
  /\ todo \subseteq 1 .. NumTables
  /\ stored \subseteq Clusters \X Nat \X (1 .. MaxSequence)

AgentTypes == /\ inst \in [Clusters -> Nat]
              /\ next \in [Clusters -> 1 .. MaxSequence + 1]
              /\ entries \in [Clusters -> SUBSET (1 .. MaxSequence)]
              /\ agent \in [Clusters -> {"down", "hello", "idle", "await"}]
              /\ awaiting \in [Clusters -> Interval]

StreamTypes == /\ link \in [Clusters -> BOOLEAN]
               /\ toServer \in [Clusters -> Seq(Interval)]
               /\ toAgent \in [Clusters -> Seq(Frame)]

ServerTypes ==
  /\ active \in [Clusters -> BOOLEAN]
  /\ loaded \in [Clusters -> BOOLEAN]
  /\ persisted \in [Clusters -> Nat]
  /\ handler \in [Clusters -> {"recv", "archived", "waiting", "saved"}]
  /\ work \in [Clusters -> Work]
  /\ waits \in [Clusters -> Chan \cup {NoChan}]

DiskTypes == /\ checkpoint \in [Clusters -> Nat]
             /\ archived \subseteq [cluster : Clusters, batch : Interval,
                                     from : Nat \ {0}]

HistoryTypes == /\ rejected \subseteq Clusters \X Nat \X Nat
                /\ faults \in Nat

\* The types of all variables.
TypeOK == /\ QueueTypes
          /\ WorkerTypes
          /\ AgentTypes
          /\ StreamTypes
          /\ ServerTypes
          /\ DiskTypes
          /\ HistoryTypes

\* Observation s of the cluster's running agent needs no further care: its row
\* is in ClickHouse, or its payload is one the repository skips.
Durable(c, s) == Kind[s] = 0 \/ <<c, inst[c], s>> \in stored

\* A file of the raw archive has observation s of the running agent.
Archived(c, s) == \E f \in archived : /\ f.cluster = c
                                      /\ f.batch.inst = inst[c]
                                      /\ s \in f.from .. f.batch.last

\* Nothing is lost silently: an observation that Publish accepted is still in
\* the buffer, or durable, or was rejected by the server for good.  This holds
\* through stream breaks, server crashes, failed inserts, archives and saves.
NoSilentLoss ==
  \A c \in Clusters : \A s \in 1 .. next[c] - 1 :
     s \in entries[c] \/ Durable(c, s) \/ <<c, inst[c], s>> \in rejected

\* clusterState.persistedThrough and the checkpoint file never run ahead of
\* ClickHouse or of the raw archive (docs/18: "does not advance until ...").
WatermarkIsDurable ==
  \A c \in Clusters : \A s \in 1 .. MaxSequence :
     s <= persisted[c] \/ s <= checkpoint[c]
       => Durable(c, s) /\ Archived(c, s)

\* Whatever agent processes come and go, the watermark only covers numbers of
\* which some process of the cluster has got an observation into ClickHouse.
SomeProcessDurable ==
  \A c \in Clusters : \A s \in 1 .. MaxSequence :
     s <= persisted[c] \/ s <= checkpoint[c]
       => Kind[s] = 0 \/ \E i \in 1 .. inst[c] : <<c, i, s>> \in stored

\* persisted_through_sequence is a durability boundary: whatever a ServerHello
\* or an acknowledgement tells the running agent it may drop is durable.
BoundaryIsDurable ==
  \A c \in Clusters : \A frame \in Elements(toAgent[c]) :
     \A s \in 1 .. next[c] - 1 : s <= frame.through => Durable(c, s)

\* The watermark in memory and the one on disk agree: persistedThrough lags the
\* file only between Save and the assignment that follows it.
CheckpointMatchesMemory ==
  DurableCheckpoint => \A c \in Clusters :
     loaded[c] /\ handler[c] # "saved" => persisted[c] = checkpoint[c]

\* The checkpoint file never goes back, whichever session saves it and however
\* sessions, crashes and leftover batches follow each other.
CheckpointNeverRegresses ==
  [][\A c \in Clusters : checkpoint'[c] >= checkpoint[c]]_vars

AcksTo(c) == {i \in 1 .. Len(toAgent[c]) : toAgent[c][i].type = "ack"}

\* The sender keeps one batch in flight, and awaitAcknowledgement, which has no
\* timeout, never waits for nothing: on a stream that is up, the awaited batch
\* is on its way, in handleBatch, or answered; otherwise nothing is.
AwaitedAckIsComing ==
  \A c \in Clusters :
     link[c] => Len(toServer[c]) + Cardinality(AcksTo(c))
                  + (IF handler[c] = "recv" THEN 0 ELSE 1)
                  = (IF agent[c] = "await" THEN 1 ELSE 0)

\* A rejection that is not retryable is terminal: no acknowledgement asks the
\* agent again for an observation that was rejected that way.
RejectionsStayTerminal ==
  \A c \in Clusters : \A frame \in Elements(toAgent[c]) :
     \A s \in frame.retry : <<c, inst[c], s>> \notin rejected

Numbered == Clusters \X (1 .. MaxSequence)

Promise == INSTANCE AtLeastOnce WITH
  Observation <- Numbered,
  Exempt <- {o \in Numbered : Kind[o[2]] = 0},
  accepted <- {o \in Numbered : o[2] < next[o[1]]},
  held <- {o \in Numbered : o[2] \in entries[o[1]]},
  settled <- {o \in Numbered : <<o[1], inst[o[1]], o[2]>> \in stored \cup rejected}

\* The delivery path implements AtLeastOnce: its buffer, stream, watermark,
\* queue and worker together publish, settle and forget as that module allows.
KeepsPromise == Promise!Spec

\* Every published observation is eventually settled and leaves the buffer,
\* through failed inserts, archives and saves, breaks and crashes.
EveryObservationSettles ==
  \A c \in Clusters : \A s \in 1 .. MaxSequence :
     next[c] > s ~> s \notin entries[c]
=============================================================================
