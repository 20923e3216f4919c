---------------------------- MODULE RestartProofs ----------------------------
(*****************************************************************************)
(* Proofs about Delivery with agent processes that come and go: the          *)
(* checkpoint file agrees with the watermark in memory and no Save takes it  *)
(* back, what the watermark then stands for, and that awaitAcknowledgement   *)
(* never waits for nothing.                                                  *)
(*****************************************************************************)
EXTENDS DurabilityProofs

\* The provers, in this order, and the seconds each may spend on a step; each
\* has a second, longer try.
USE ZenonT(30), SMTT(30), ZenonT(60), SMTT(60)

USE DEF agentVars, streamVars, serverVars, diskVars, queueVars, workerVars,
        Load, Save, Rejections
-----------------------------------------------------------------------------
(* The checkpoint file. *)

\* A session has loaded the checkpoint, works on a batch beyond the watermark, and
\* the file is ahead of memory only between Save and the assignment after it.
CheckpointOf(c) ==
  /\ active[c] => loaded[c]
  /\ handler[c] # "recv" => active[c] /\ persisted[c] < work[c].batch.last
  /\ DurableCheckpoint /\ loaded[c] =>
       checkpoint[c] = IF handler[c] = "saved" THEN work[c].batch.last ELSE persisted[c]

\* Every cluster has its session and its file in step.
CheckpointInv == \A c \in Clusters : CheckpointOf(c)

\* What a step may do to the checkpoint: keep the invariant and not go back.
CheckpointGood == CheckpointInv' /\ \A c \in Clusters : checkpoint'[c] >= checkpoint[c]

\* Orders of naturals, for the steps Zenon takes.
LEMMA GreaterIsAtLeast == \A a, b \in Nat : a < b => b >= a
OBVIOUS

\* So for a checkpoint that stays.
LEMMA SameIsAtLeast == \A a \in Nat : a >= a
OBVIOUS

\* A step that concerns cluster c only.
LEMMA OneClusterStep ==
  ASSUME TypeOK, CheckpointInv, NEW c \in Clusters,
         \A d \in Clusters : d # c =>
           /\ active'[d] = active[d] /\ loaded'[d] = loaded[d] /\ handler'[d] = handler[d]
           /\ persisted'[d] = persisted[d] /\ work'[d] = work[d] /\ checkpoint'[d] = checkpoint[d],
         CheckpointOf(c)', checkpoint'[c] >= checkpoint[c]
  PROVE  CheckpointGood
<1>1. ASSUME NEW d \in Clusters, d # c PROVE CheckpointOf(d)' /\ checkpoint'[d] >= checkpoint[d]
  BY SMTT(60), <1>1 DEF CheckpointInv, CheckpointOf, TypeOK, DiskTypes
<1> QED BY <1>1 DEF CheckpointGood, CheckpointInv

\* Steps of one session, of which SaveCheckpoint and AckPersisted move watermarks.
LEMMA SessionCheckpoint ==
  ASSUME TypeOK, CheckpointInv, NEW c \in Clusters,
         \/ Connect(c) \/ Archive(c) \/ TryEnqueue(c) \/ RefuseFull(c) \/ SaveCheckpoint(c)
         \/ SaveFails(c) \/ AckPersisted(c) \/ Release(c)
  PROVE  CheckpointGood
<1>0. /\ CheckpointOf(c) /\ checkpoint[c] \in Nat /\ persisted[c] \in Nat
      /\ work[c].batch.last \in Nat
  BY SMTT(60), KindAssumption DEF TypeOK, ServerTypes, DiskTypes, CheckpointInv, Work, Interval
<1>1. CASE Connect(c)
  <2>1. CheckpointOf(c)'
    BY <1>0, <1>1 DEF Connect, CheckpointOf, Load, diskVars, TypeOK, ServerTypes, DiskTypes
  <2>2. checkpoint' = checkpoint
    BY <1>1 DEF Connect, diskVars
  <2>3. checkpoint'[c] >= checkpoint[c]
    BY <1>0, <2>2, SameIsAtLeast
  <2> QED BY <1>1, <2>1, <2>3, OneClusterStep
    DEF Connect, diskVars, TypeOK, ServerTypes, DiskTypes
<1>2. CASE Archive(c)
  <2>1. PICK b : /\ b.last > persisted[c] /\ active[c] /\ handler[c] = "recv"
                 /\ handler' = [handler EXCEPT ![c] = "archived"]
                 /\ work' = [work EXCEPT ![c] = [batch |-> b, from |-> SuffixStart(c, b),
                                                 slowed |-> Slowed]]
    BY <1>2 DEF Archive, Accepts, Receives
  <2>2. UNCHANGED <<active, loaded, persisted, checkpoint>>
    BY <1>2 DEF Archive
  <2>3. CheckpointOf(c)' /\ checkpoint'[c] >= checkpoint[c]
    BY <1>0, <2>1, <2>2 DEF CheckpointOf, TypeOK, ServerTypes, DiskTypes
  <2> QED BY <2>1, <2>2, <2>3, OneClusterStep DEF TypeOK, ServerTypes, DiskTypes
<1>3. CASE TryEnqueue(c)
  <2>1. CheckpointOf(c)'
    BY <1>0, <1>3 DEF TryEnqueue, CheckpointOf, diskVars, TypeOK, ServerTypes, DiskTypes
  <2>2. checkpoint' = checkpoint
    BY <1>3 DEF TryEnqueue, diskVars
  <2>3. checkpoint'[c] >= checkpoint[c]
    BY <1>0, <2>2, SameIsAtLeast
  <2> QED BY <1>3, <2>1, <2>3, OneClusterStep
    DEF TryEnqueue, diskVars, TypeOK, ServerTypes, DiskTypes
<1>4. CASE RefuseFull(c)
  <2>1. CheckpointOf(c)'
    BY <1>0, <1>4 DEF RefuseFull, CheckpointOf, diskVars, TypeOK, ServerTypes, DiskTypes
  <2>2. checkpoint' = checkpoint
    BY <1>4 DEF RefuseFull, diskVars
  <2>3. checkpoint'[c] >= checkpoint[c]
    BY <1>0, <2>2, SameIsAtLeast
  <2> QED BY <1>4, <2>1, <2>3, OneClusterStep
    DEF RefuseFull, diskVars, TypeOK, ServerTypes, DiskTypes
<1>5. CASE SaveCheckpoint(c)
  <2>1. CheckpointOf(c)'
    BY <1>0, <1>5 DEF SaveCheckpoint, Save, CheckpointOf, TypeOK, ServerTypes, DiskTypes
  <2>3. checkpoint'[c] >= checkpoint[c]
    <3>1. CASE ~ DurableCheckpoint
      <4>1. checkpoint' = checkpoint
        BY <1>5, <3>1 DEF SaveCheckpoint, Save
      <4> QED BY <1>0, <4>1
    <3>2. CASE DurableCheckpoint
      <4>1. handler[c] = "waiting"
        BY <1>5 DEF SaveCheckpoint
      <4>2. active[c] /\ loaded[c] /\ persisted[c] < work[c].batch.last
        BY <1>0, <4>1 DEF CheckpointOf
      <4>3. checkpoint[c] = persisted[c]
        BY <1>0, <3>2, <4>1, <4>2 DEF CheckpointOf
      <4>4. checkpoint'[c] = work[c].batch.last
        BY <1>5, <3>2 DEF SaveCheckpoint, Save, TypeOK, DiskTypes
      <4>5. persisted[c] < work[c].batch.last
        BY <4>2
      <4>6. persisted[c] \in Nat /\ work[c].batch.last \in Nat
        BY <1>0
      <4>7. work[c].batch.last >= persisted[c]
        BY <4>5, <4>6, GreaterIsAtLeast
      <4> QED BY <4>3, <4>4, <4>7
    <3> QED BY <3>1, <3>2
  <2>2. \A d \in Clusters : d # c => checkpoint'[d] = checkpoint[d]
    BY <1>5 DEF SaveCheckpoint, Save, TypeOK, ServerTypes, DiskTypes
  <2> QED BY <1>5, <2>1, <2>2, <2>3, OneClusterStep
    DEF SaveCheckpoint, TypeOK, ServerTypes, DiskTypes
<1>6. CASE SaveFails(c)
  <2>1. CheckpointOf(c)'
    BY <1>0, <1>6 DEF SaveFails, CheckpointOf, diskVars, TypeOK, ServerTypes, DiskTypes
  <2>2. checkpoint' = checkpoint
    BY <1>6 DEF SaveFails, diskVars
  <2>3. checkpoint'[c] >= checkpoint[c]
    BY <1>0, <2>2, SameIsAtLeast
  <2> QED BY <1>6, <2>1, <2>3, OneClusterStep
    DEF SaveFails, diskVars, TypeOK, ServerTypes, DiskTypes
<1>7. CASE AckPersisted(c)
  <2>1. CheckpointOf(c)'
    BY <1>0, <1>7 DEF AckPersisted, CheckpointOf, diskVars, TypeOK, ServerTypes, DiskTypes
  <2>2. checkpoint' = checkpoint
    BY <1>7 DEF AckPersisted, diskVars
  <2>3. checkpoint'[c] >= checkpoint[c]
    BY <1>0, <2>2, SameIsAtLeast
  <2> QED BY <1>7, <2>1, <2>3, OneClusterStep
    DEF AckPersisted, diskVars, TypeOK, ServerTypes, DiskTypes
<1>8. CASE Release(c)
  <2>1. CheckpointOf(c)'
    BY <1>0, <1>8 DEF Release, CheckpointOf, diskVars, TypeOK, ServerTypes, DiskTypes
  <2>2. checkpoint' = checkpoint
    BY <1>8 DEF Release, diskVars
  <2>3. checkpoint'[c] >= checkpoint[c]
    BY <1>0, <2>2, SameIsAtLeast
  <2> QED BY <1>8, <2>1, <2>3, OneClusterStep
    DEF Release, diskVars, TypeOK, ServerTypes, DiskTypes
<1> QED BY <1>1, <1>2, <1>3, <1>4, <1>5, <1>6, <1>7, <1>8

\* Every step, restarts of agents included.
LEMMA CheckpointStep ==
  ASSUME TypeOK, CheckpointInv, [RestartNext]_vars
  PROVE  CheckpointGood
<1>0. checkpoint' = checkpoint => \A c \in Clusters : checkpoint'[c] >= checkpoint[c]
  BY DEF TypeOK, DiskTypes
<1>1. CASE UNCHANGED <<active, loaded, persisted, handler, work, checkpoint>>
  <2>1. CheckpointInv'
    BY <1>1 DEF CheckpointInv, CheckpointOf
  <2> QED BY <1>0, <1>1, <2>1 DEF CheckpointGood
<1>2. CASE ServerCrash
  <2>1. CheckpointInv'
    BY <1>2 DEF ServerCrash, CheckpointInv, CheckpointOf
  <2> QED BY <1>0, <1>2, <2>1 DEF ServerCrash, CheckpointGood
<1>3. ASSUME NEW c \in Clusters,
             \/ Publish(c) \/ Handshake(c) \/ SendBatch(c) \/ ReceiveFlowControl(c)
             \/ ReceiveAck(c) \/ Disconnect(c) \/ Break(c) \/ AgentRestart(c)
             \/ RejectBatch(c) \/ AckDuplicate(c) \/ AckGap(c) \/ ArchiveFails(c)
      PROVE  UNCHANGED <<active, loaded, persisted, handler, work, checkpoint>>
  BY <1>3
  DEF Publish, Handshake, SendBatch, ReceiveFlowControl, ReceiveAck, Disconnect, Break,
      AgentRestart, RejectBatch, AckDuplicate, AckGap, ArchiveFails, serverVars, diskVars
<1>4. CASE PersistNext \/ UNCHANGED vars
  BY <1>1, <1>4 DEF PersistNext, vars, serverVars, diskVars
<1> QED
  BY <1>1, <1>2, <1>3, <1>4, SessionCheckpoint DEF RestartNext, Next, ClientNext, SessionNext

\* The types and the invariant of the checkpoint hold throughout.
LEMMA CheckpointInvariant == RestartSpec => [](TypeOK /\ CheckpointInv)
<1>1. Init => CheckpointInv
  BY DEF Init, CheckpointInv, CheckpointOf
<1>2. CheckpointInv /\ TypeOK /\ [RestartNext]_vars => CheckpointInv'
  BY CheckpointStep DEF CheckpointGood
<1> QED BY <1>1, <1>2, TypeCorrect, PTL DEF RestartSpec

\* The watermark a session goes by is the one in the file, whatever sessions,
\* crashes and agent processes follow each other.
THEOREM CheckpointAgrees == RestartSpec => []CheckpointMatchesMemory
<1>1. TypeOK /\ CheckpointInv => CheckpointMatchesMemory
  BY DEF CheckpointInv, CheckpointOf, CheckpointMatchesMemory
<1> QED BY <1>1, CheckpointInvariant, PTL

\* No Save takes a checkpoint back.
THEOREM CheckpointMonotone == RestartSpec => CheckpointNeverRegresses
<1>1. TypeOK /\ CheckpointInv /\ [RestartNext]_vars =>
        [\A c \in Clusters : checkpoint'[c] >= checkpoint[c]]_vars
  BY CheckpointStep DEF CheckpointGood
<1> QED BY <1>1, CheckpointInvariant, PTL DEF RestartSpec, CheckpointNeverRegresses
-----------------------------------------------------------------------------
(* What the watermark stands for.  Each process counts from 1 again, so the   *)
(* batch a session persists may be one of an earlier process than the one     *)
(* the watermark is then told to.                                             *)

\* Number s of some process of the cluster needs no further care.
SomeStored(c, s) == Kind[s] = 0 \/ \E i \in 1 .. inst[c] : <<c, i, s>> \in stored

\* What is on its way to the server comes from a process there has been.
SentOf(c) == \A b \in Elements(toServer[c]) : b.inst \in 1 .. inst[c]

\* A session works on a batch of such a process that continues the watermark.
BatchOf(c) ==
  /\ handler[c] # "recv" => /\ active[c]
                            /\ work[c].batch.inst \in 1 .. inst[c]
                            /\ work[c].from <= persisted[c] + 1
  /\ handler[c] = "saved" => \A s \in 1 .. work[c].batch.last : SomeStored(c, s)

\* The handler's channel is that of its own batch, and closed once that is stored.
ChannelOf(c) ==
  handler[c] = "waiting" =>
    /\ \A b \in Held : b.chan = waits[c] => /\ b.cluster = c
                                            /\ b.first = work[c].from
                                            /\ b.last = work[c].batch.last
    /\ waits[c] \in closed =>
         \A s \in work[c].from .. work[c].batch.last : SomeStored(c, s)

\* The inductive invariant of the watermark across processes.
ProcessInv ==
  /\ \A c \in Clusters : inst[c] >= 1 /\ SentOf(c) /\ BatchOf(c) /\ ChannelOf(c)
  /\ \A b \in Held : b.inst \in 1 .. inst[b.cluster]
  /\ LeaseInv
  /\ SomeProcessDurable

\* Processes are numbered upwards and rows are not deleted.
Grows == /\ \A c \in Clusters : 1 .. inst[c] \subseteq 1 .. inst'[c]
         /\ \A c \in Clusters : inst'[c] >= 1
         /\ stored \subseteq stored'

\* No step takes a process or a row back.
LEMMA ProcessGrows ==
  ASSUME TypeOK, ProcessInv, [RestartNext]_vars
  PROVE  Grows
<1>0. ASSUME UNCHANGED inst PROVE \A c \in Clusters : /\ 1 .. inst[c] \subseteq 1 .. inst'[c]
                                                      /\ inst'[c] >= 1
  BY <1>0 DEF ProcessInv
<1>1. ASSUME NEW c \in Clusters, AgentRestart(c) PROVE Grows
  <2>1. ASSUME NEW d \in Clusters
        PROVE  inst[d] \in Nat /\ inst[d] >= 1 /\ inst'[d] \in {inst[d], inst[d] + 1}
    BY <1>1 DEF AgentRestart, TypeOK, AgentTypes, ProcessInv
  <2>2. ASSUME NEW d \in Clusters PROVE 1 .. inst[d] \subseteq 1 .. inst'[d] /\ inst'[d] >= 1
    BY <2>1
  <2> QED BY <1>1, <2>2 DEF AgentRestart, Grows
<1>2. ASSUME NEW c \in Clusters, Publish(c) \/ ClientNext(c) \/ Break(c)
      PROVE  UNCHANGED <<inst, stored>>
  BY <1>2
  DEF Publish, ClientNext, Connect, Handshake, SendBatch, ReceiveFlowControl, ReceiveAck,
      Disconnect, Break
<1>3. ASSUME NEW c \in Clusters, SessionNext(c) PROVE UNCHANGED <<inst, stored>>
  BY <1>3
  DEF SessionNext, RejectBatch, AckDuplicate, AckGap, Archive, ArchiveFails,
      TryEnqueue, RefuseFull, SaveCheckpoint, SaveFails, AckPersisted, Release
<1>4. ASSUME PersistNext \/ ServerCrash \/ UNCHANGED vars
      PROVE  UNCHANGED inst /\ stored \subseteq stored'
  BY <1>4
  DEF PersistNext, WorkerNext, WorkerAcquire, WorkerSleep, WorkerWake, WorkerInsert,
      WorkerInsertFails, WorkerBackoffEnds, WorkerCommit, WorkerCommitEnds, ServerCrash, vars
<1> QED BY <1>0, <1>1, <1>2, <1>3, <1>4 DEF RestartNext, Next, Grows

\* ClickHouse keeps what some process got into it.
LEMMA SomeStoredStays ==
  ASSUME NEW c \in Clusters, NEW s, Grows, SomeStored(c, s)
  PROVE  SomeStored(c, s)'
BY DEF Grows, SomeStored

\* What is sent is sent by the running process, and it has been running since.
LEMMA SentProcessStep ==
  ASSUME TypeOK, TypeOK', ProcessInv, Grows, [RestartNext]_vars, NEW d \in Clusters
  PROVE  SentOf(d)'
<1>1. ASSUME Elements(toServer'[d]) \subseteq Elements(toServer[d]) PROVE SentOf(d)'
  BY <1>1 DEF SentOf, ProcessInv, Grows
<1>2. ASSUME NEW c \in Clusters, SendBatch(c) PROVE SentOf(d)'
  <2>1. PICK b \in Interval : b = awaiting'[c]
    BY DEF TypeOK, AgentTypes
  <2>2. b.inst = inst[c] /\ UNCHANGED inst
    BY SMTT(60), <1>2, <2>1 DEF SendBatch, TypeOK, AgentTypes
  <2>3. b.inst \in 1 .. inst'[c]
    BY SMTT(60), <2>2 DEF TypeOK, AgentTypes, ProcessInv
  <2>4. toServer[c] \in Seq(Interval) /\ toServer \in [Clusters -> Seq(Interval)]
    BY DEF TypeOK, StreamTypes
  <2>5. Elements(Append(toServer[c], b)) = Elements(toServer[c]) \cup {b}
    BY SMTT(60), <2>4, ElementsAppend
  <2>6. toServer' = toServer \/ toServer' = [toServer EXCEPT ![c] = Append(@, b)]
    BY <1>2, <2>1 DEF SendBatch
  <2>7. Elements(toServer'[d]) \subseteq Elements(toServer[d]) \cup (IF d = c THEN {b} ELSE {})
    BY <2>4, <2>5, <2>6
  <2> QED BY <2>3, <2>7 DEF SentOf, ProcessInv, Grows
<1>3. ASSUME NEW c \in Clusters, NEW b, Receives(c, b) PROVE SentOf(d)'
  BY <1>1, <1>3, ElementsTail DEF Receives, TypeOK, StreamTypes
<1>4. ASSUME NEW c \in Clusters,
             RejectBatch(c) \/ AckDuplicate(c) \/ AckGap(c) \/ Archive(c) \/ ArchiveFails(c)
      PROVE  SentOf(d)'
  BY <1>3, <1>4 DEF RejectBatch, AckDuplicate, AckGap, Archive, ArchiveFails, Accepts
<1>5. ASSUME NEW c \in Clusters, Connect(c) \/ Release(c) PROVE SentOf(d)'
  BY <1>1, <1>5, ElementsEmpty DEF Connect, Release, TypeOK, StreamTypes
<1>6. CASE UNCHANGED toServer
  BY <1>1, <1>6
<1>7. ASSUME NEW c \in Clusters,
             \/ Publish(c) \/ Handshake(c) \/ ReceiveFlowControl(c) \/ ReceiveAck(c)
             \/ Disconnect(c) \/ Break(c) \/ AgentRestart(c)
      PROVE  UNCHANGED toServer
  BY <1>7 DEF Publish, Handshake, ReceiveFlowControl, ReceiveAck, Disconnect, Break, AgentRestart
<1>8. ASSUME NEW c \in Clusters,
             \/ TryEnqueue(c) \/ RefuseFull(c) \/ SaveCheckpoint(c) \/ SaveFails(c)
             \/ AckPersisted(c)
      PROVE  UNCHANGED toServer
  BY <1>8 DEF TryEnqueue, RefuseFull, SaveCheckpoint, SaveFails, AckPersisted
<1>9. CASE ServerCrash
  BY <1>1, <1>9, ElementsEmpty DEF ServerCrash
<1>10. CASE PersistNext \/ UNCHANGED vars
  BY <1>6, <1>10 DEF PersistNext, vars
<1> QED
  BY <1>2, <1>4, <1>5, <1>6, <1>7, <1>8, <1>9, <1>10
  DEF RestartNext, Next, ClientNext, SessionNext

\* All of the watermark and of a batch whose channel is closed is stored.
LEMMA NotifiedIsStored ==
  ASSUME NEW c \in Clusters, TypeOK, ProcessInv, handler[c] = "waiting", waits[c] \in closed
  PROVE  \A s \in 1 .. work[c].batch.last : SomeStored(c, s)
<1> SUFFICES ASSUME NEW s \in 1 .. work[c].batch.last PROVE SomeStored(c, s)
  OBVIOUS
<1>1. /\ work[c].batch.last \in 0 .. MaxSequence /\ work[c].from \in Nat \ {0}
      /\ persisted[c] \in Nat
  BY WorkType
<1>2. s \in 1 .. MaxSequence
  BY SMTT(60), <1>1, KindAssumption
<1>3. work[c].from <= persisted[c] + 1
  BY DEF ProcessInv, BatchOf
<1>4. CASE s <= persisted[c]
  BY <1>2, <1>4 DEF ProcessInv, SomeProcessDurable, SomeStored
<1>5. CASE s \in work[c].from .. work[c].batch.last
  BY <1>5 DEF ProcessInv, ChannelOf
<1> QED BY <1>1, <1>3, <1>4, <1>5

\* handleBatch goes on with the batch it received, for the process that sent it.
LEMMA BatchStep ==
  ASSUME TypeOK, TypeOK', ProcessInv, Grows, [RestartNext]_vars, NEW d \in Clusters
  PROVE  BatchOf(d)'
<1>0. BatchOf(d) /\ SentOf(d)
  BY DEF ProcessInv
<1>1. ASSUME handler'[d] = "recv" PROVE BatchOf(d)'
  BY <1>1 DEF BatchOf
<1>2. ASSUME UNCHANGED <<active[d], persisted[d], work[d]>>,
             handler[d] # "recv", handler'[d] \in {handler[d], "waiting"}
      PROVE  BatchOf(d)'
  <2>1. work'[d].batch.inst \in 1 .. inst'[d]
    BY <1>0, <1>2 DEF BatchOf, Grows
  <2>2. \A s : SomeStored(d, s) => SomeStored(d, s)'
    BY SomeStoredStays
  <2> QED BY <1>0, <1>2, <2>1, <2>2 DEF BatchOf
<1>3. ASSUME UNCHANGED <<active[d], persisted[d], work[d], handler[d]>> PROVE BatchOf(d)'
  BY <1>1, <1>2, <1>3
<1>4. ASSUME NEW c \in Clusters, Connect(c) PROVE BatchOf(d)'
  <2>1. CASE d = c
    <3>1. handler'[c] = "recv"
      BY <1>0, <1>4, <2>1 DEF Connect, BatchOf
    <3> QED BY <1>1, <2>1, <3>1
  <2>2. CASE d # c
    BY <1>3, <1>4, <2>2 DEF Connect, TypeOK, ServerTypes
  <2> QED BY <2>1, <2>2
<1>5. ASSUME NEW c \in Clusters, Archive(c) PROVE BatchOf(d)'
  <2>1. PICK b \in Elements(toServer[c]) :
          /\ Accepts(c, b)
          /\ work' = [work EXCEPT ![c] = [batch |-> b, from |-> SuffixStart(c, b),
                                          slowed |-> Slowed]]
    BY <1>5 DEF Archive
  <2>2. UNCHANGED <<active, persisted, inst>> /\ handler' = [handler EXCEPT ![c] = "archived"]
    BY <1>5 DEF Archive
  <2>3. CASE d # c
    BY <1>3, <2>1, <2>2, <2>3 DEF TypeOK, ServerTypes
  <2>4. CASE d = c
    <3>0. Receives(c, b) /\ StreamTypes /\ ServerTypes
      BY <2>1 DEF Accepts, TypeOK
    <3>1. b \in Interval /\ b.inst \in 1 .. inst'[c]
      BY <1>0, <2>2, <2>4, <3>0, ReceivedType DEF SentOf
    <3>2. work'[c].batch = b /\ work'[c].from = SuffixStart(c, b)
      BY <2>1 DEF TypeOK, ServerTypes
    <3>3. SuffixStart(c, b) <= persisted[c] + 1
      <4>1. persisted[c] \in Nat /\ b.first \in Nat
        BY <3>0, <3>1, SuffixType
      <4>2. b.first <= persisted[c] + 1
        BY <2>1 DEF Accepts
      <4> QED BY <4>1, <4>2 DEF SuffixStart
    <3>4. active'[c] /\ handler'[c] = "archived"
      BY <2>1, <2>2 DEF Accepts, Receives, TypeOK, ServerTypes
    <3> QED BY <2>2, <2>4, <3>1, <3>2, <3>3, <3>4 DEF BatchOf
  <2> QED BY <2>3, <2>4
<1>6. ASSUME NEW c \in Clusters, TryEnqueue(c) PROVE BatchOf(d)'
  BY <1>2, <1>3, <1>6 DEF TryEnqueue, TypeOK, ServerTypes
<1>7. ASSUME NEW c \in Clusters, SaveCheckpoint(c) PROVE BatchOf(d)'
  <2>1. UNCHANGED <<active, persisted, work>> /\ handler' = [handler EXCEPT ![c] = "saved"]
        /\ handler[c] = "waiting" /\ waits[c] \in closed
    BY <1>7 DEF SaveCheckpoint
  <2>2. CASE d # c
    BY <1>3, <2>1, <2>2 DEF TypeOK, ServerTypes
  <2>3. CASE d = c
    <3>1. \A s \in 1 .. work'[c].batch.last : SomeStored(c, s)'
      BY <2>1, NotifiedIsStored, SomeStoredStays
    <3>2. work'[c].batch.inst \in 1 .. inst'[c]
      BY <1>0, <2>1, <2>3 DEF BatchOf, Grows
    <3> QED BY <1>0, <2>1, <2>3, <3>1, <3>2 DEF BatchOf
  <2> QED BY <2>2, <2>3
<1>8. ASSUME NEW c \in Clusters, RefuseFull(c) \/ SaveFails(c) \/ AckPersisted(c) \/ Release(c)
      PROVE  BatchOf(d)'
  <2>1. CASE d = c
    BY <1>1, <1>8, <2>1
    DEF RefuseFull, SaveFails, AckPersisted, Release, TypeOK, ServerTypes
  <2>2. CASE d # c
    BY <1>3, <1>8, <2>2
    DEF RefuseFull, SaveFails, AckPersisted, Release, TypeOK, ServerTypes
  <2> QED BY <2>1, <2>2
<1>9. ASSUME NEW c \in Clusters,
             \/ Publish(c) \/ Handshake(c) \/ SendBatch(c) \/ ReceiveFlowControl(c)
             \/ ReceiveAck(c) \/ Disconnect(c) \/ Break(c) \/ AgentRestart(c)
             \/ RejectBatch(c) \/ AckDuplicate(c) \/ AckGap(c) \/ ArchiveFails(c)
      PROVE  UNCHANGED <<active, persisted, work, handler>>
  BY <1>9
  DEF Publish, Handshake, SendBatch, ReceiveFlowControl, ReceiveAck, Disconnect, Break,
      AgentRestart, RejectBatch, AckDuplicate, AckGap, ArchiveFails
<1>10. CASE ServerCrash
  BY <1>1, <1>10 DEF ServerCrash
<1>11. CASE PersistNext \/ UNCHANGED vars
  BY <1>3, <1>11 DEF PersistNext, vars
<1> QED
  BY <1>3, <1>4, <1>5, <1>6, <1>7, <1>8, <1>9, <1>10, <1>11
  DEF RestartNext, Next, ClientNext, SessionNext

\* Commit closes a channel only when some process's rows of the batch are stored.
LEMMA ChannelStep ==
  ASSUME TypeOK, ProcessInv, Grows, [RestartNext]_vars, NEW d \in Clusters
  PROVE  ChannelOf(d)'
<1>0. ChannelOf(d) /\ \A s : SomeStored(d, s) => SomeStored(d, s)'
  BY SomeStoredStays DEF ProcessInv
<1>1. ASSUME handler'[d] # "waiting" PROVE ChannelOf(d)'
  BY <1>1 DEF ChannelOf
<1>2. ASSUME UNCHANGED <<handler[d], work[d], waits[d]>>, handler[d] = "waiting",
             \A b \in Held' : b.chan = waits[d] => b \in Held,
             waits[d] \in closed' => waits[d] \in closed
      PROVE  ChannelOf(d)'
  <2>1. \A b \in Held' : b.chan = waits'[d] => /\ b.cluster = d
                                              /\ b.first = work'[d].from
                                              /\ b.last = work'[d].batch.last
    BY <1>0, <1>2 DEF ChannelOf
  <2>2. waits'[d] \in closed' =>
          \A s \in work'[d].from .. work'[d].batch.last : SomeStored(d, s)'
    BY <1>0, <1>2 DEF ChannelOf
  <2> QED BY <2>1, <2>2 DEF ChannelOf
<1>3. CASE WorkerCommit /\ PersistNext
  <2> SUFFICES ASSUME handler[d] = "waiting" PROVE ChannelOf(d)'
    BY <1>1, <1>3 DEF PersistNext
  <2>1. UNCHANGED <<handler, work, waits>> /\ UNCHANGED <<items, lease, stored>>
    BY <1>3 DEF PersistNext, WorkerCommit, CloseLeased
  <2>2. closed' = closed \cup {b.chan : b \in Elements(lease)} /\ worker = "persist" /\ todo = {}
    BY <1>3 DEF WorkerCommit, CloseLeased
  <2>3. Held' = Held
    BY <2>1 DEF Held, Elements
  <2>4. CASE waits[d] \in closed \/ waits[d] \notin closed'
    BY <1>2, <2>1, <2>2, <2>3, <2>4
  <2>5. CASE \E b \in Elements(lease) : waits[d] = b.chan
    <3>1. PICK b \in Elements(lease) : waits[d] = b.chan
      BY <2>5
    <3>2. b \in Held /\ b.cluster = d /\ b.first = work[d].from /\ b.last = work[d].batch.last
      BY <1>0, <3>1 DEF ChannelOf, Held
    <3>3. b.inst \in 1 .. inst[d]
      BY <3>2 DEF ProcessInv
    <3>4. ASSUME NEW s \in work[d].from .. work[d].batch.last PROVE SomeStored(d, s)
      BY <2>2, <3>2, <3>3 DEF ProcessInv, LeaseInv, SomeStored
    <3> QED BY <1>0, <2>1, <2>3, <3>4 DEF ChannelOf
  <2> QED BY <2>2, <2>4, <2>5
<1>4. ASSUME NEW c \in Clusters, TryEnqueue(c) PROVE ChannelOf(d)'
  <2>1. PICK ch \in FreshChans, b \in Batch :
            /\ b = [cluster |-> c, inst |-> work[c].batch.inst, first |-> work[c].from,
                    last |-> work[c].batch.last, chan |-> ch]
            /\ Held' = Held \cup {b}
            /\ closed' = closed \ {ch}
            /\ waits' = [waits EXCEPT ![c] = ch]
    BY <1>4, EnqueuedBatch
  <2>2. /\ b.cluster = c /\ b.first = work[c].from /\ b.last = work[c].batch.last
        /\ b.chan = ch
    BY <2>1
  <2>3. UNCHANGED work /\ handler' = [handler EXCEPT ![c] = "waiting"]
    BY <1>4 DEF TryEnqueue
  <2>4. CASE d = c
    <3>1. waits'[c] = ch
      BY <2>1 DEF TypeOK, ServerTypes
    <3>2. \A x \in Held : x.chan # ch
      BY DEF FreshChans, QueuedChans, Held
    <3> QED BY SMTT(60), <2>1, <2>2, <2>3, <2>4, <3>1, <3>2 DEF ChannelOf
  <2>5. CASE d # c
    <3>1. waits'[d] = waits[d] /\ waits[d] # ch /\ handler'[d] = handler[d]
      BY <2>1, <2>3, <2>5 DEF TypeOK, ServerTypes, FreshChans
    <3> QED BY <1>1, <1>2, <2>1, <2>2, <2>3, <3>1
  <2> QED BY <2>4, <2>5
<1>5. ASSUME closed' \subseteq closed,
             \A c \in Clusters : \/ handler'[c] # "waiting"
                                 \/ UNCHANGED <<handler[c], work[c], waits[c]>>
      PROVE  ChannelOf(d)'
  <2>1. \A c \in Clusters : ~TryEnqueue(c)
    BY <1>5 DEF TryEnqueue, TypeOK, ServerTypes
  <2>2. Held' \subseteq Held
    BY <2>1, HeldStep
  <2> QED BY <1>1, <1>2, <1>5, <2>2
<1>6. ASSUME NEW c \in Clusters, Publish(c) \/ ClientNext(c) \/ Break(c) \/ AgentRestart(c)
      PROVE  UNCHANGED <<closed, handler, work, waits>>
  BY <1>6
  DEF ClientNext, Publish, Connect, Handshake, SendBatch, ReceiveFlowControl,
      ReceiveAck, Disconnect, Break, AgentRestart
<1>7. ASSUME NEW c \in Clusters, RejectBatch(c) \/ AckDuplicate(c) \/ AckGap(c) \/ ArchiveFails(c)
      PROVE  UNCHANGED <<closed, handler, work, waits>>
  BY <1>7 DEF RejectBatch, AckDuplicate, AckGap, ArchiveFails
<1>8. ASSUME NEW c \in Clusters,
             \/ Archive(c) \/ RefuseFull(c) \/ SaveCheckpoint(c) \/ SaveFails(c)
             \/ AckPersisted(c) \/ Release(c)
      PROVE  /\ closed' = closed
             /\ \A x \in Clusters : \/ handler'[x] # "waiting"
                                    \/ UNCHANGED <<handler[x], work[x], waits[x]>>
  BY <1>8
  DEF Archive, RefuseFull, SaveCheckpoint, SaveFails, AckPersisted, Release, TypeOK,
      ServerTypes
<1>9. CASE PersistNext /\ ~WorkerCommit
  <2>1. closed' = closed
    BY <1>9
    DEF PersistNext, WorkerNext, WorkerAcquire, Acquire, WorkerSleep, WorkerWake,
        TakeReady, WorkerInsert, WorkerInsertFails, Retry, WorkerBackoffEnds,
        WorkerCommitEnds, ReleaseLeased
  <2>2. UNCHANGED <<handler, work, waits>>
    BY <1>9 DEF PersistNext
  <2> QED BY <1>5, <2>1, <2>2
<1>10. CASE ServerCrash
  BY <1>1, <1>10 DEF ServerCrash
<1>11. CASE UNCHANGED vars
  BY <1>5, <1>11 DEF vars
<1> QED
  BY <1>3, <1>4, <1>5, <1>6, <1>7, <1>8, <1>9, <1>10, <1>11
  DEF RestartNext, Next, SessionNext

\* The watermarks advance over numbers that some process got into ClickHouse.
LEMMA ProcessWatermarkStep ==
  ASSUME TypeOK, ProcessInv, Grows, [RestartNext]_vars
  PROVE  SomeProcessDurable'
<1> DEFINE Advances(c) == \A d \in Clusters :
             /\ \/ persisted'[d] \in {persisted[d], checkpoint[d], 0}
                \/ d = c /\ persisted'[d] = work[c].batch.last
             /\ \/ checkpoint'[d] = checkpoint[d]
                \/ d = c /\ checkpoint'[d] = work[c].batch.last
<1>1. ASSUME NEW c \in Clusters, Advances(c),
             \A s \in 1 .. work[c].batch.last : SomeStored(c, s)
      PROVE  SomeProcessDurable'
  <2> SUFFICES ASSUME NEW d \in Clusters, NEW s \in 1 .. MaxSequence,
                      s <= persisted'[d] \/ s <= checkpoint'[d]
               PROVE  SomeStored(d, s)'
    BY DEF SomeProcessDurable, SomeStored
  <2>1. s <= persisted[d] \/ s <= checkpoint[d] \/ (d = c /\ s <= work[c].batch.last)
    BY SMTT(60), <1>1, KindAssumption
  <2>2. work[c].batch.last \in Nat
    BY WorkType
  <2>3. SomeStored(d, s)
    BY SMTT(60), <1>1, <2>1, <2>2 DEF ProcessInv, SomeProcessDurable, SomeStored
  <2> QED BY <2>3, SomeStoredStays
<1>2. ASSUME \A d \in Clusters : /\ persisted'[d] \in {persisted[d], checkpoint[d], 0}
                                 /\ checkpoint'[d] = checkpoint[d]
      PROVE  SomeProcessDurable'
  <2> SUFFICES ASSUME NEW d \in Clusters, NEW s \in 1 .. MaxSequence,
                      s <= persisted'[d] \/ s <= checkpoint'[d]
               PROVE  SomeStored(d, s)'
    BY DEF SomeProcessDurable, SomeStored
  <2>1. s <= persisted[d] \/ s <= checkpoint[d]
    BY <1>2, KindAssumption
  <2>2. SomeStored(d, s)
    BY <2>1 DEF ProcessInv, SomeProcessDurable, SomeStored
  <2> QED BY <2>2, SomeStoredStays
<1>3. ASSUME NEW c \in Clusters, Connect(c) PROVE SomeProcessDurable'
  BY <1>2, <1>3 DEF Connect, TypeOK, ServerTypes
<1>4. ASSUME NEW c \in Clusters, SaveCheckpoint(c) PROVE SomeProcessDurable'
  <2>1. Advances(c)
    BY <1>4 DEF SaveCheckpoint, TypeOK, DiskTypes
  <2>2. \A s \in 1 .. work[c].batch.last : SomeStored(c, s)
    BY <1>4, NotifiedIsStored DEF SaveCheckpoint
  <2> QED BY <1>1, <2>1, <2>2
<1>5. ASSUME NEW c \in Clusters, AckPersisted(c) PROVE SomeProcessDurable'
  <2>1. Advances(c)
    BY <1>5 DEF AckPersisted, TypeOK, ServerTypes
  <2>2. \A s \in 1 .. work[c].batch.last : SomeStored(c, s)
    BY <1>5 DEF AckPersisted, ProcessInv, BatchOf
  <2> QED BY <1>1, <2>1, <2>2
<1>6. ASSUME NEW c \in Clusters,
             \/ Publish(c) \/ (ClientNext(c) /\ ~Connect(c)) \/ Break(c) \/ AgentRestart(c)
      PROVE  UNCHANGED <<persisted, checkpoint>>
  BY <1>6
  DEF ClientNext, Publish, Handshake, SendBatch, ReceiveFlowControl, ReceiveAck,
      Disconnect, Break, AgentRestart
<1>7. ASSUME NEW c \in Clusters, SessionNext(c), ~SaveCheckpoint(c), ~AckPersisted(c)
      PROVE  UNCHANGED <<persisted, checkpoint>>
  BY <1>7
  DEF SessionNext, RejectBatch, AckDuplicate, AckGap, Archive, ArchiveFails,
      TryEnqueue, RefuseFull, SaveFails, Release
<1>8. CASE PersistNext \/ ServerCrash \/ UNCHANGED vars
  BY <1>2, <1>8 DEF PersistNext, ServerCrash, vars
<1> QED
  BY <1>2, <1>3, <1>4, <1>5, <1>6, <1>7, <1>8 DEF RestartNext, Next

\* Every step, restarts of agents included.
LEMMA ProcessStep ==
  ASSUME TypeOK, TypeOK', ProcessInv, [RestartNext]_vars
  PROVE  ProcessInv'
<1>1. Grows
  BY ProcessGrows
<1>2. \A c \in Clusters : inst'[c] >= 1 /\ SentOf(c)' /\ BatchOf(c)' /\ ChannelOf(c)'
  BY <1>1, SentProcessStep, BatchStep, ChannelStep DEF Grows
<1>3. \A b \in Held' : b.inst \in 1 .. inst'[b.cluster]
  <2>1. ASSUME NEW b \in Held PROVE b.inst \in 1 .. inst'[b.cluster]
    BY <1>1, HeldType DEF ProcessInv, Grows
  <2>2. CASE \A c \in Clusters : ~TryEnqueue(c)
    BY <2>1, <2>2, HeldStep
  <2>3. ASSUME NEW c \in Clusters, TryEnqueue(c)
        PROVE  \A b \in Held' : b.inst \in 1 .. inst'[b.cluster]
    <3>1. PICK ch \in FreshChans, b \in Batch :
              /\ b = [cluster |-> c, inst |-> work[c].batch.inst, first |-> work[c].from,
                      last |-> work[c].batch.last, chan |-> ch]
              /\ Held' = Held \cup {b}
      BY <2>3, EnqueuedBatch
    <3>2. b.cluster = c /\ b.inst = work[c].batch.inst
      BY <3>1
    <3>3. work[c].batch.inst \in 1 .. inst'[c]
      BY <1>1, <2>3 DEF TryEnqueue, ProcessInv, BatchOf, Grows
    <3> QED BY <2>1, <3>1, <3>2, <3>3
  <2> QED BY <2>2, <2>3
<1>4. LeaseInv'
  BY <1>1, LeaseStep DEF ProcessInv, Grows
<1>5. SomeProcessDurable'
  BY <1>1, ProcessWatermarkStep
<1> QED BY <1>2, <1>3, <1>4, <1>5 DEF ProcessInv

\* Nothing is sent, leased or stored at the start.
LEMMA ProcessInit == Init => ProcessInv
<1> SUFFICES ASSUME Init PROVE ProcessInv
  OBVIOUS
<1>1. Held = {}
  BY ElementsEmpty DEF Init, QueueInit, Held
<1>2. \A c \in Clusters : inst[c] >= 1 /\ SentOf(c) /\ BatchOf(c) /\ ChannelOf(c)
  BY ElementsEmpty DEF Init, SentOf, BatchOf, ChannelOf
<1>3. LeaseInv
  BY DEF Init, WorkerInit, LeaseInv
<1>4. SomeProcessDurable
  <2>1. \A s \in 1 .. MaxSequence : ~(s <= 0)
    BY KindAssumption
  <2> QED BY <2>1 DEF Init, SomeProcessDurable
<1> QED BY <1>1, <1>2, <1>3, <1>4 DEF ProcessInv

\* Whatever agent processes come and go, the watermark covers only numbers of
\* which some process of the cluster has got an observation into ClickHouse.
THEOREM WatermarkOfSomeProcess == RestartSpec => []SomeProcessDurable
<1>1. TypeOK /\ TypeOK' /\ ProcessInv /\ [RestartNext]_vars => ProcessInv'
  BY ProcessStep
<1>2. ProcessInv => SomeProcessDurable
  BY DEF ProcessInv
<1> QED BY <1>1, <1>2, ProcessInit, TypeCorrect, PTL DEF RestartSpec
-----------------------------------------------------------------------------
(* The acknowledgement the agent awaits. *)

\* No frame of s is an acknowledgement.
NoAck(s) == \A i \in 1 .. Len(s) : s[i].type # "ack"

\* The last frame of s, and no other, is an acknowledgement, and of batch b.
EndsWithAck(s, b) ==
  /\ s # <<>> /\ s[Len(s)].type = "ack" /\ s[Len(s)].batch = b
  /\ \A i \in 1 .. Len(s) : i # Len(s) => s[i].type # "ack"

\* Where the one batch in flight is, on a stream that is up: the agent awaits
\* none; it is on its way; handleBatch has it; its acknowledgement is the last
\* frame on its way back.
NothingSent(c) == /\ agent[c] # "await" /\ toServer[c] = <<>>
                  /\ handler[c] = "recv" /\ NoAck(toAgent[c])

Underway(c) == /\ agent[c] = "await" /\ toServer[c] = <<awaiting[c]>>
               /\ handler[c] = "recv" /\ NoAck(toAgent[c])

InHandler(c) == /\ agent[c] = "await" /\ toServer[c] = <<>>
                /\ handler[c] # "recv" /\ work[c].batch = awaiting[c] /\ NoAck(toAgent[c])

Answered(c) == /\ agent[c] = "await" /\ toServer[c] = <<>>
               /\ handler[c] = "recv" /\ EndsWithAck(toAgent[c], awaiting[c])

\* A stream that is up has its one batch in one of these places.
AckOf(c) ==
  /\ handler[c] # "recv" => active[c]
  /\ link[c] => /\ active[c]
                /\ NothingSent(c) \/ Underway(c) \/ InHandler(c) \/ Answered(c)

\* The inductive invariant of what agents wait for.
AckInv == \A c \in Clusters : AckOf(c)
-----------------------------------------------------------------------------
\* The frames a session sends after others.
LEMMA FramesJoined ==
  ASSUME NEW s \in Seq(Frame), NEW t \in Seq(Frame), NEW b, NoAck(s)
  PROVE  /\ NoAck(t) => NoAck(s \o t)
         /\ EndsWithAck(t, b) => EndsWithAck(s \o t, b)
<1>1. /\ s \o t \in Seq(Frame) /\ Len(s \o t) = Len(s) + Len(t)
      /\ \A i \in 1 .. Len(s) : (s \o t)[i] = s[i]
      /\ \A i \in Len(s) + 1 .. Len(s) + Len(t) : /\ (s \o t)[i] = t[i - Len(s)]
                                                  /\ i - Len(s) \in 1 .. Len(t)
      /\ Len(s) \in Nat /\ Len(t) \in Nat
  OBVIOUS
<1> DEFINE u == s \o t
<1> HIDE DEF u
<1>2. ASSUME NoAck(t) PROVE NoAck(u)
  <2> SUFFICES ASSUME NEW i \in 1 .. Len(u) PROVE u[i].type # "ack"
    BY DEF NoAck
  <2>1. CASE i \in 1 .. Len(s)
    BY <1>1, <2>1 DEF NoAck, u
  <2>2. CASE i \in Len(s) + 1 .. Len(s) + Len(t)
    BY <1>1, <1>2, <2>2 DEF NoAck, u
  <2> QED BY <1>1, <2>1, <2>2 DEF u
<1>3. ASSUME EndsWithAck(t, b) PROVE EndsWithAck(u, b)
  <2>1. Len(t) > 0 /\ Len(t) \in 1 .. Len(t)
    BY <1>3 DEF EndsWithAck
  <2>2. Len(u) = Len(s) + Len(t) /\ Len(u) \in Len(s) + 1 .. Len(s) + Len(t)
    BY <1>1, <2>1 DEF u
  <2>3. u[Len(u)] = t[Len(t)]
    BY <1>1, <2>1, <2>2 DEF u
  <2>4. u # <<>>
    BY <1>1, <2>1, <2>2 DEF u
  <2>5. ASSUME NEW i \in 1 .. Len(u), i # Len(u) PROVE u[i].type # "ack"
    <3>1. CASE i \in 1 .. Len(s)
      BY <1>1, <3>1 DEF NoAck, u
    <3>2. CASE i \in Len(s) + 1 .. Len(s) + Len(t)
      <4>1. i - Len(s) \in 1 .. Len(t) /\ i - Len(s) # Len(t)
        BY <1>1, <2>2, <2>5, <3>2
      <4> QED BY <1>1, <1>3, <3>2, <4>1 DEF EndsWithAck, u
    <3> QED BY SMTT(60), <1>1, <2>2, <3>1, <3>2
  <2> QED BY <1>3, <2>3, <2>4, <2>5 DEF EndsWithAck
<1> QED BY <1>2, <1>3 DEF u

\* The agent receives a frame.
LEMMA FrameReceived ==
  ASSUME NEW s \in Seq(Frame), NEW b, s # <<>>
  PROVE  /\ NoAck(s) => NoAck(Tail(s)) /\ Head(s).type # "ack"
         /\ EndsWithAck(s, b) /\ Head(s).type # "ack" => EndsWithAck(Tail(s), b)
         /\ EndsWithAck(s, b) /\ Head(s).type = "ack" => Head(s).batch = b /\ NoAck(Tail(s))
<1>0. Len(s) \in Nat
  OBVIOUS
<1>1. /\ Len(s) \in Nat \ {0} /\ Len(Tail(s)) = Len(s) - 1 /\ Head(s) = s[1]
      /\ \A i \in 1 .. Len(s) - 1 : Tail(s)[i] = s[i + 1] /\ i + 1 \in 1 .. Len(s)
      /\ 1 \in 1 .. Len(s)
  OBVIOUS
<1> DEFINE u == Tail(s)
<1> HIDE DEF u
<1>2. ASSUME NoAck(s) PROVE NoAck(u) /\ Head(s).type # "ack"
  BY <1>1, <1>2 DEF NoAck, u
<1>3. ASSUME EndsWithAck(s, b), Head(s).type # "ack" PROVE EndsWithAck(u, b)
  <2>1. Len(s) # 1
    BY <1>1, <1>3 DEF EndsWithAck
  <2>2. Len(u) = Len(s) - 1 /\ Len(u) \in 1 .. Len(s) - 1
    BY SMTT(60), <1>1, <2>1 DEF u
  <2>3. u[Len(u)] = s[Len(s)]
    <3>1. Len(u) + 1 = Len(s)
      BY SMTT(60), <1>1, <2>2
    <3> QED BY <1>1, <2>2, <3>1 DEF u
  <2>4. u # <<>>
    BY <1>0, <2>2
  <2>5. ASSUME NEW i \in 1 .. Len(u), i # Len(u) PROVE u[i].type # "ack"
    <3>1. i \in 1 .. Len(s) - 1 /\ i + 1 # Len(s)
      BY <1>0, <2>2, <2>5
    <3> QED BY <1>1, <1>3, <3>1 DEF EndsWithAck, u
  <2> QED BY <1>3, <2>3, <2>4, <2>5 DEF EndsWithAck
<1>4. ASSUME EndsWithAck(s, b), Head(s).type = "ack" PROVE Head(s).batch = b /\ NoAck(u)
  <2>1. Len(s) = 1
    BY <1>1, <1>4 DEF EndsWithAck
  <2>2. 1 .. Len(u) = {}
    <3>1. Len(u) = 0
      BY SMTT(60), <1>1, <2>1 DEF u
    <3> QED BY <3>1
  <2> QED BY <1>1, <1>4, <2>1, <2>2 DEF EndsWithAck, NoAck
<1> QED BY <1>2, <1>3, <1>4 DEF u

\* The replies of a session: nothing or flow control, perhaps an acknowledgement.
LEMMA Replies ==
  ASSUME NEW b \in Interval, NEW n \in Nat, NEW R \in SUBSET Nat, NEW T \in SUBSET Nat,
         NEW p \in {<<>>, <<FlowControl>>}
  PROVE  /\ p \in Seq(Frame) /\ NoAck(p)
         /\ <<Ack(b, n, R, T)>> \in Seq(Frame) /\ EndsWithAck(<<Ack(b, n, R, T)>>, b)
         /\ p \o <<Ack(b, n, R, T)>> \in Seq(Frame)
         /\ EndsWithAck(p \o <<Ack(b, n, R, T)>>, b)
<1>1. p \in Seq(Frame) /\ NoAck(p)
  <2>1. FlowControl \in Frame /\ FlowControl.type = "flow"
    BY FrameTypes DEF FlowControl
  <2>2. CASE p = <<>>
    BY <2>2 DEF NoAck
  <2>3. CASE p = <<FlowControl>>
    BY <2>1, <2>3 DEF NoAck
  <2> QED BY <2>2, <2>3
<1>2. PICK f \in Frame : f = Ack(b, n, R, T)
  BY FrameTypes
<1>3. f.type = "ack" /\ f.batch = b
  BY <1>2 DEF Ack
<1>4. <<f>> \in Seq(Frame) /\ EndsWithAck(<<f>>, b)
  BY <1>3 DEF EndsWithAck
<1>5. p \o <<f>> \in Seq(Frame)
  BY <1>1, <1>4, ElementsConcat
<1>6. EndsWithAck(p \o <<f>>, b)
  BY <1>1, <1>4, FramesJoined
<1> QED BY <1>1, <1>2, <1>4, <1>5, <1>6
-----------------------------------------------------------------------------
(* The steps. *)

\* The state of the sender and its session that AckOf is about.
SameFor(d) == /\ link'[d] = link[d] /\ active'[d] = active[d] /\ agent'[d] = agent[d]
              /\ awaiting'[d] = awaiting[d] /\ toServer'[d] = toServer[d]
              /\ toAgent'[d] = toAgent[d] /\ handler'[d] = handler[d] /\ work'[d] = work[d]

\* A step of one cluster.
LEMMA OneSender ==
  ASSUME AckInv, NEW c \in Clusters, AckOf(c)', \A d \in Clusters : d # c => SameFor(d)
  PROVE  AckInv'
<1>1. ASSUME NEW d \in Clusters, d # c PROVE AckOf(d)'
  <2>1. SameFor(d) /\ AckOf(d)
    BY <1>1 DEF AckInv
  <2> QED BY <2>1 DEF SameFor, AckOf, NothingSent, Underway, InHandler, Answered
<1> QED BY <1>1 DEF AckInv

\* stream.Send of the session, on a stream that is up.
LEMMA ReplySent ==
  ASSUME TypeOK, NEW c \in Clusters, NEW frames, Reply(c, frames)
  PROVE  /\ link[c] => toAgent'[c] = toAgent[c] \o frames
         /\ \A d \in Clusters : d # c => toAgent'[d] = toAgent[d]
BY DEF TypeOK, StreamTypes, Reply

\* On a stream that is up the server receives the batch the agent awaits.
LEMMA ReceivesAwaited ==
  ASSUME TypeOK, AckInv, NEW c \in Clusters, NEW b, Receives(c, b)
  PROVE  /\ active[c] /\ handler[c] = "recv"
         /\ link[c] => Underway(c) /\ b = awaiting[c] /\ toServer'[c] = <<>>
         /\ \A d \in Clusters : d # c => toServer'[d] = toServer[d]
<1>1. toServer \in [Clusters -> Seq(Interval)]
  BY DEF TypeOK, StreamTypes
<1>2. active[c] /\ handler[c] = "recv" /\ toServer[c] # <<>>
  BY DEF Receives
<1>3. \A d \in Clusters : d # c => toServer'[d] = toServer[d]
  BY <1>1 DEF Receives
<1>4. ASSUME link[c] PROVE Underway(c) /\ b = awaiting[c] /\ toServer'[c] = <<>>
  <2>1. Underway(c)
    BY <1>2, <1>4 DEF AckInv, AckOf, NothingSent, InHandler, Answered
  <2>2. toServer[c] = <<awaiting[c]>>
    BY <2>1 DEF Underway
  <2>3. Head(<<awaiting[c]>>) = awaiting[c] /\ Tail(<<awaiting[c]>>) = <<>>
    OBVIOUS
  <2> QED BY <1>1, <2>1, <2>2, <2>3 DEF Receives
<1> QED BY <1>2, <1>3, <1>4

\* A batch that is answered when it is received.
LEMMA AnsweredAtOnce ==
  ASSUME TypeOK, AckInv, NEW c \in Clusters, NEW b, Receives(c, b),
         NEW frames \in Seq(Frame), EndsWithAck(frames, b), Reply(c, frames),
         UNCHANGED <<link, active, agent, awaiting, handler, work>>
  PROVE  AckInv'
<1>1. ASSUME link[c] PROVE Answered(c)'
  <2>1. Underway(c) /\ b = awaiting[c] /\ toServer'[c] = <<>>
    BY <1>1, ReceivesAwaited
  <2>2. toAgent'[c] = toAgent[c] \o frames
    BY <1>1, ReplySent
  <2>3. EndsWithAck(toAgent[c] \o frames, b)
    BY <2>1, FramesJoined DEF Underway, TypeOK, StreamTypes
  <2> QED BY <2>1, <2>2, <2>3 DEF Underway, Answered
<1>2. AckOf(c)'
  BY <1>1, ReceivesAwaited DEF AckOf
<1>3. \A d \in Clusters : d # c => SameFor(d)
  BY ReceivesAwaited, ReplySent DEF SameFor
<1> QED BY <1>2, <1>3, OneSender

\* A batch that handleBatch answers when it is done with it.
LEMMA AnsweredLater ==
  ASSUME TypeOK, AckInv, NEW c \in Clusters, handler[c] # "recv",
         NEW frames \in Seq(Frame), EndsWithAck(frames, work[c].batch), Reply(c, frames),
         handler' = [handler EXCEPT ![c] = "recv"], work' = [work EXCEPT ![c] = NoWork],
         UNCHANGED <<link, active, agent, awaiting, toServer>>
  PROVE  AckInv'
<1>0. handler'[c] = "recv" /\ \A d \in Clusters : d # c => /\ handler'[d] = handler[d]
                                                         /\ work'[d] = work[d]
  BY DEF TypeOK, ServerTypes
<1>1. ASSUME link[c] PROVE Answered(c)' /\ active'[c]
  <2>1. InHandler(c) /\ active[c]
    BY <1>1 DEF AckInv, AckOf, NothingSent, Underway, Answered
  <2>2. toAgent'[c] = toAgent[c] \o frames
    BY <1>1, ReplySent
  <2>3. EndsWithAck(toAgent[c] \o frames, work[c].batch)
    BY <2>1, FramesJoined DEF InHandler, TypeOK, StreamTypes
  <2> QED BY <1>0, <2>1, <2>2, <2>3 DEF InHandler, Answered
<1>2. AckOf(c)'
  BY <1>0, <1>1 DEF AckOf
<1>3. \A d \in Clusters : d # c => SameFor(d)
  BY <1>0, ReplySent DEF SameFor
<1> QED BY <1>2, <1>3, OneSender

\* The steps of a session.
LEMMA SessionAnswers ==
  ASSUME TypeOK, AckInv, NEW c \in Clusters, SessionNext(c)
  PROVE  AckInv'
<1>0. StreamTypes /\ ServerTypes
  BY DEF TypeOK
<1>1. ASSUME NEW b \in Elements(toServer[c]), Receives(c, b),
             NEW R \in SUBSET Nat, NEW T \in SUBSET Nat,
             Reply(c, <<Ack(b, persisted[c], R, T)>>),
             UNCHANGED <<link, active, agent, awaiting, handler, work>>
      PROVE  AckInv'
  <2>1. b \in Interval /\ persisted[c] \in Nat
    BY <1>0, <1>1, ReceivedType, SuffixType
  <2> QED BY <1>1, <2>1, Replies, AnsweredAtOnce
<1>2. CASE RejectBatch(c)
  <2>1. PICK b \in Elements(toServer[c]) :
          Receives(c, b) /\ Reply(c, <<Ack(b, persisted[c], {}, Rejections(b))>>)
    BY <1>2 DEF RejectBatch
  <2>2. Rejections(b) \in SUBSET Nat
    <3>1. b \in Interval
      BY <1>0, <2>1, ReceivedType
    <3> QED BY SMTT(60), <3>1, KindAssumption DEF Interval
  <2> QED BY <1>1, <1>2, <2>1, <2>2 DEF RejectBatch
<1>3. CASE AckDuplicate(c)
  BY SMTT(60), <1>1, <1>3 DEF AckDuplicate
<1>4. CASE AckGap(c)
  <2>1. PICK b \in Elements(toServer[c]) :
          /\ Receives(c, b)
          /\ Reply(c, <<Ack(b, persisted[c], persisted[c] + 1 .. b.first - 1, {})>>)
    BY <1>4 DEF AckGap
  <2>2. persisted[c] + 1 .. b.first - 1 \in SUBSET Nat
    BY SMTT(60), <1>0, <2>1, ReceivedType, SuffixType
  <2>3. PICK R \in SUBSET Nat : R = persisted[c] + 1 .. b.first - 1
    BY <2>2
  <2>4. UNCHANGED <<link, active, agent, awaiting, handler, work>>
    BY <1>4 DEF AckGap
  <2>5. Reply(c, <<Ack(b, persisted[c], R, {})>>)
    BY <2>1, <2>3
  <2> QED BY SMTT(60), <1>1, <2>1, <2>4, <2>5
<1>5. CASE ArchiveFails(c)
  <2>1. PICK b \in Elements(toServer[c]) :
          /\ Accepts(c, b)
          /\ Reply(c, (IF Slowed THEN <<FlowControl>> ELSE <<>>)
                      \o <<Ack(b, persisted[c], SuffixStart(c, b) .. b.last, {})>>)
    BY <1>5 DEF ArchiveFails
  <2>2. Receives(c, b)
    BY <2>1 DEF Accepts
  <2>3. SuffixStart(c, b) .. b.last \in SUBSET Nat
    <3>1. SuffixStart(c, b) \in Nat /\ b.last \in Nat
      BY <1>0, <2>2, ReceivedType, SuffixType
    <3> QED BY SMTT(60), <3>1
  <2>4. PICK p \in {<<>>, <<FlowControl>>} : p = IF Slowed THEN <<FlowControl>> ELSE <<>>
    OBVIOUS
  <2>5. PICK R \in SUBSET Nat : R = SuffixStart(c, b) .. b.last
    BY <2>3
  <2>6. UNCHANGED <<link, active, agent, awaiting, handler, work>>
    BY <1>5 DEF ArchiveFails
  <2>7. Reply(c, p \o <<Ack(b, persisted[c], R, {})>>)
    BY <2>1, <2>4, <2>5
  <2>8. /\ p \o <<Ack(b, persisted[c], R, {})>> \in Seq(Frame)
        /\ EndsWithAck(p \o <<Ack(b, persisted[c], R, {})>>, b)
    <3>1. b \in Interval /\ persisted[c] \in Nat /\ {} \in SUBSET Nat
      BY <1>0, <2>2, ReceivedType, SuffixType
    <3> QED BY <3>1, Replies
  <2> QED BY <2>2, <2>6, <2>7, <2>8, AnsweredAtOnce
<1>6. CASE Archive(c)
  <2>1. PICK b \in Elements(toServer[c]) :
          /\ Accepts(c, b)
          /\ Reply(c, IF Slowed THEN <<FlowControl>> ELSE <<>>)
          /\ work' = [work EXCEPT ![c] = [batch |-> b, from |-> SuffixStart(c, b),
                                          slowed |-> Slowed]]
    BY <1>6 DEF Archive
  <2>2. Receives(c, b)
    BY <2>1 DEF Accepts
  <2>3. /\ UNCHANGED <<link, active, agent, awaiting>>
        /\ handler' = [handler EXCEPT ![c] = "archived"]
    BY <1>6 DEF Archive
  <2>4. PICK p \in Seq(Frame) : /\ p = IF Slowed THEN <<FlowControl>> ELSE <<>>
                               /\ NoAck(p)
    BY <2>2, <1>0, ReceivedType, Replies
  <2>5. /\ handler'[c] = "archived" /\ work'[c].batch = b
        /\ \A d \in Clusters : d # c => handler'[d] = handler[d] /\ work'[d] = work[d]
    BY <2>1, <2>3 DEF TypeOK, ServerTypes
  <2>6. ASSUME link[c] PROVE InHandler(c)'
    <3>1. Underway(c) /\ b = awaiting[c] /\ toServer'[c] = <<>>
      BY <2>2, <2>6, ReceivesAwaited
    <3>2. toAgent'[c] = toAgent[c] \o p
      BY <2>1, <2>4, <2>6, ReplySent
    <3>3. NoAck(toAgent[c] \o p)
      BY <2>4, <3>1, FramesJoined DEF Underway, TypeOK, StreamTypes
    <3> QED BY <2>3, <2>5, <3>1, <3>2, <3>3 DEF Underway, InHandler
  <2>7. AckOf(c)'
    BY <2>2, <2>3, <2>6, ReceivesAwaited DEF AckOf
  <2>8. \A d \in Clusters : d # c => SameFor(d)
    BY SMTT(60), <2>1, <2>2, <2>3, <2>5, ReceivesAwaited, ReplySent DEF SameFor
  <2> QED BY <2>7, <2>8, OneSender
<1>7. ASSUME handler[c] # "recv", handler' = [handler EXCEPT ![c] = "waiting"]
                                  \/ handler' = [handler EXCEPT ![c] = "saved"],
             UNCHANGED <<link, active, agent, awaiting, toServer, toAgent, work>>
      PROVE  AckInv'
  <2>1. /\ handler'[c] # "recv"
        /\ \A d \in Clusters : d # c => handler'[d] = handler[d]
    BY <1>7 DEF TypeOK, ServerTypes
  <2>2. AckOf(c)'
    BY <1>7, <2>1 DEF AckInv, AckOf, NothingSent, Underway, InHandler, Answered
  <2>3. \A d \in Clusters : d # c => SameFor(d)
    BY <1>7, <2>1 DEF SameFor
  <2> QED BY <2>2, <2>3, OneSender
<1>8. CASE TryEnqueue(c) \/ SaveCheckpoint(c)
  BY <1>7, <1>8 DEF TryEnqueue, SaveCheckpoint
<1>9. ASSUME NEW b, b = work[c].batch, NEW n \in Nat, NEW R \in SUBSET Nat, NEW p \in {<<>>, <<FlowControl>>},
             handler[c] # "recv",
             Reply(c, p \o <<Ack(b, n, R, {})>>) \/ Reply(c, <<Ack(b, n, R, {})>>),
             handler' = [handler EXCEPT ![c] = "recv"], work' = [work EXCEPT ![c] = NoWork],
             UNCHANGED <<link, active, agent, awaiting, toServer>>
      PROVE  AckInv'
  <2>1. b \in Interval
    BY <1>9 DEF TypeOK, ServerTypes, Work
  <2> QED BY <1>9, <2>1, Replies, AnsweredLater
<1>10. /\ work[c].from .. work[c].batch.last \in SUBSET Nat
       /\ persisted[c] \in Nat /\ work[c].batch.last \in Nat
  BY SMTT(60), KindAssumption DEF TypeOK, ServerTypes, Work, Interval
<1>11. CASE RefuseFull(c)
  <2>1. PICK p \in {<<>>, <<FlowControl>>} : p = IF work[c].slowed THEN <<>> ELSE <<FlowControl>>
    OBVIOUS
  <2>2. Reply(c, p \o <<Ack(work[c].batch, persisted[c], work[c].from .. work[c].batch.last, {})>>)
    BY <1>11, <2>1 DEF RefuseFull, RetryAck
  <2> QED BY <1>9, <1>10, <1>11, <2>2 DEF RefuseFull
<1>12. CASE SaveFails(c)
  <2>1. Reply(c, <<Ack(work[c].batch, persisted[c], work[c].from .. work[c].batch.last, {})>>)
    BY <1>12 DEF SaveFails, RetryAck
  <2> QED BY <1>9, <1>10, <1>12, <2>1 DEF SaveFails
<1>13. CASE AckPersisted(c)
  <2>1. Reply(c, <<Ack(work[c].batch, work[c].batch.last, {}, {})>>)
    BY <1>13 DEF AckPersisted
  <2> QED BY <1>9, <1>10, <1>13, <2>1 DEF AckPersisted
<1>14. CASE Release(c)
  <2>1. AckOf(c)'
    BY <1>14 DEF Release, AckOf, TypeOK, ServerTypes
  <2>2. \A d \in Clusters : d # c => SameFor(d)
    BY <1>14 DEF Release, SameFor, TypeOK, ServerTypes, StreamTypes
  <2> QED BY <2>1, <2>2, OneSender
<1> QED
  BY <1>2, <1>3, <1>4, <1>5, <1>6, <1>8, <1>11, <1>12, <1>13, <1>14 DEF SessionNext

\* The steps of the agent, of its process and of its stream.
LEMMA SenderAwaits ==
  ASSUME TypeOK, AckInv, NEW c \in Clusters,
         Publish(c) \/ ClientNext(c) \/ Break(c) \/ AgentRestart(c)
  PROVE  AckInv'
<1>0. AckOf(c) /\ AgentTypes /\ StreamTypes
  BY DEF AckInv, TypeOK
<1>1. CASE Publish(c)
  <2>1. \A d \in Clusters : SameFor(d)
    BY <1>1 DEF Publish, SameFor
  <2>2. AckOf(c)'
    BY <1>0, <2>1 DEF SameFor, AckOf, NothingSent, Underway, InHandler, Answered
  <2> QED BY <2>1, <2>2, OneSender
<1>2. CASE Connect(c)
  <2>1. ~active[c] /\ handler[c] = "recv"
    BY <1>0, <1>2 DEF Connect, AckOf
  <2>2. /\ active'[c] /\ agent'[c] = "hello" /\ toServer'[c] = <<>>
        /\ toAgent'[c] = <<Hello(persisted'[c])>> /\ handler' = handler
    BY <1>2 DEF Connect, AgentTypes, StreamTypes, ServerTypes, TypeOK
  <2>3. NoAck(<<Hello(persisted'[c])>>)
    BY DEF NoAck, Hello
  <2>4. AckOf(c)'
    BY <2>1, <2>2, <2>3 DEF AckOf, NothingSent
  <2>5. \A d \in Clusters : d # c => SameFor(d)
    BY <1>2 DEF Connect, SameFor, AgentTypes, StreamTypes, ServerTypes, TypeOK
  <2> QED BY <2>4, <2>5, OneSender
<1>3. CASE Handshake(c)
  <2>1. /\ agent[c] = "hello" /\ agent'[c] = "idle" /\ toAgent[c] # <<>>
        /\ toAgent'[c] = Tail(toAgent[c]) /\ UNCHANGED <<link, active, toServer, handler>>
    BY <1>0, <1>3 DEF Handshake, AgentTypes, StreamTypes
  <2>2. ASSUME link[c] PROVE NothingSent(c)'
    <3>1. NothingSent(c)
      BY <1>0, <2>1, <2>2 DEF AckOf, Underway, InHandler, Answered
    <3>2. NoAck(Tail(toAgent[c]))
      BY <1>0, <2>1, <3>1, FrameReceived DEF NothingSent, StreamTypes
    <3> QED BY <2>1, <3>1, <3>2 DEF NothingSent
  <2>3. AckOf(c)'
    BY <1>0, <2>1, <2>2 DEF AckOf
  <2>4. \A d \in Clusters : d # c => SameFor(d)
    BY <1>0, <1>3 DEF Handshake, SameFor, AgentTypes, StreamTypes
  <2> QED BY <2>3, <2>4, OneSender
<1>4. CASE SendBatch(c)
  <2>1. /\ agent[c] = "idle" /\ agent'[c] = "await"
        /\ link[c] => toServer'[c] = Append(toServer[c], awaiting'[c])
        /\ UNCHANGED <<link, active, toAgent, handler>>
    BY <1>0, <1>4 DEF SendBatch, AgentTypes, StreamTypes
  <2>2. ASSUME link[c] PROVE Underway(c)'
    <3>1. NothingSent(c)
      BY <1>0, <2>1, <2>2 DEF AckOf, Underway, InHandler, Answered
    <3>2. toServer'[c] = <<awaiting'[c]>>
      BY <2>1, <2>2, <3>1 DEF NothingSent
    <3> QED BY <2>1, <3>1, <3>2 DEF NothingSent, Underway
  <2>3. AckOf(c)'
    BY <1>0, <2>1, <2>2 DEF AckOf
  <2>4. PICK a \in Interval \cup {awaiting'[c]} : awaiting' = [awaiting EXCEPT ![c] = a]
    BY <1>0, <1>4 DEF SendBatch, AgentTypes
  <2>5. \A d \in Clusters : d # c => SameFor(d)
    BY <1>0, <1>4, <2>4 DEF SendBatch, SameFor, AgentTypes, StreamTypes
  <2> QED BY <2>3, <2>5, OneSender
<1>5. CASE ReceiveFlowControl(c)
  <2>1. /\ agent[c] = "await" /\ toAgent[c] # <<>> /\ Head(toAgent[c]).type # "ack"
        /\ toAgent'[c] = Tail(toAgent[c])
        /\ UNCHANGED <<link, active, agent, awaiting, toServer, handler, work>>
    BY <1>0, <1>5 DEF ReceiveFlowControl, StreamTypes
  <2>2. /\ NoAck(toAgent[c]) => NoAck(Tail(toAgent[c]))
        /\ EndsWithAck(toAgent[c], awaiting[c]) => EndsWithAck(Tail(toAgent[c]), awaiting[c])
    BY <1>0, <2>1, FrameReceived DEF StreamTypes
  <2>3. AckOf(c)'
    BY <1>0, <2>1, <2>2 DEF AckOf, NothingSent, Underway, InHandler, Answered
  <2>4. \A d \in Clusters : d # c => SameFor(d)
    BY <1>0, <1>5 DEF ReceiveFlowControl, SameFor, StreamTypes
  <2> QED BY <2>3, <2>4, OneSender
<1>6. CASE ReceiveAck(c)
  <2>1. /\ agent[c] = "await" /\ toAgent[c] # <<>> /\ Head(toAgent[c]).type = "ack"
        /\ toAgent'[c] = Tail(toAgent[c])
        /\ UNCHANGED <<link, active, toServer, handler, work>>
    BY <1>0, <1>6 DEF ReceiveAck, StreamTypes
  <2>2. Head(toAgent[c]).batch = awaiting[c] => agent'[c] = "idle"
    BY <1>0, <1>6 DEF ReceiveAck, AgentTypes, SameBatchId
  <2>3. ASSUME link[c] PROVE NothingSent(c)'
    <3>1. ~NoAck(toAgent[c])
      BY <1>0, <2>1, FrameReceived DEF StreamTypes
    <3>2. Answered(c)
      BY <1>0, <2>1, <2>3, <3>1 DEF AckOf, NothingSent, Underway, InHandler
    <3>3. Head(toAgent[c]).batch = awaiting[c] /\ NoAck(Tail(toAgent[c]))
      BY <1>0, <2>1, <3>2, FrameReceived DEF Answered, StreamTypes
    <3> QED BY <2>1, <2>2, <3>2, <3>3 DEF Answered, NothingSent
  <2>4. AckOf(c)'
    BY <1>0, <2>1, <2>3 DEF AckOf
  <2>5. \A d \in Clusters : d # c => SameFor(d)
    BY <1>0, <1>6 DEF ReceiveAck, SameFor, AgentTypes, StreamTypes
  <2> QED BY <2>4, <2>5, OneSender
<1>7. CASE Disconnect(c) \/ Break(c) \/ AgentRestart(c)
  <2>1. ~link'[c] /\ UNCHANGED <<active, handler>>
    BY <1>0, <1>7 DEF Disconnect, Break, AgentRestart, StreamTypes
  <2>2. AckOf(c)'
    BY <1>0, <2>1 DEF AckOf
  <2>3. \A d \in Clusters : d # c => SameFor(d)
    BY <1>0, <1>7 DEF Disconnect, Break, AgentRestart, SameFor, AgentTypes, StreamTypes
  <2> QED BY <2>2, <2>3, OneSender
<1> QED BY <1>1, <1>2, <1>3, <1>4, <1>5, <1>6, <1>7 DEF ClientNext

\* Every step, of a new agent process too, keeps it.
LEMMA AckStep ==
  ASSUME TypeOK, AckInv, [RestartNext]_vars
  PROVE  AckInv'
<1>1. ASSUME NEW c \in Clusters, Publish(c) \/ ClientNext(c) \/ Break(c) \/ AgentRestart(c)
      PROVE  AckInv'
  BY <1>1, SenderAwaits
<1>2. ASSUME NEW c \in Clusters, SessionNext(c) PROVE AckInv'
  BY <1>2, SessionAnswers
<1>3. CASE PersistNext \/ UNCHANGED vars
  <2>1. UNCHANGED <<link, active, agent, awaiting, toServer, toAgent, handler, work>>
    BY <1>3 DEF PersistNext, vars
  <2> QED BY <2>1 DEF AckInv, AckOf, NothingSent, Underway, InHandler, Answered
<1>4. CASE ServerCrash
  BY <1>4 DEF ServerCrash, AckInv, AckOf
<1> QED BY <1>1, <1>2, <1>3, <1>4 DEF RestartNext, Next

\* The count of the frames of a kind, when there is none.  Cardinality is defined
\* by a function on subsets, of which one is given here.
LEMMA EmptyCardinality == Cardinality({}) = 0
<1> DEFINE Is(g) == g = [T \in SUBSET {} |-> IF T = {} THEN 0 ELSE 1 + g[T \ {CHOOSE x : x \in T}]]
           g0 == [T \in SUBSET {} |-> 0]
           CS == CHOOSE g : Is(g)
<1>1. Is(g0)
  OBVIOUS
<1>2. Is(CS)
  BY <1>1
<1>3. CS[{}] = 0
  BY <1>2
<1>4. Cardinality({}) = CS[{}]
  BY DEF Cardinality
<1> QED BY <1>3, <1>4

\* And for one frame of a kind.
LEMMA SingletonCardinality == ASSUME NEW e PROVE Cardinality({e}) = 1
<1> DEFINE Is(g) == g = [T \in SUBSET {e} |-> IF T = {} THEN 0 ELSE 1 + g[T \ {CHOOSE x : x \in T}]]
           g0 == [T \in SUBSET {e} |-> IF T = {} THEN 0 ELSE 1]
           CS == CHOOSE g : Is(g)
<1>1. Is(g0)
  <2>1. \A T \in SUBSET {e} : T = {} \/ T = {e}
    OBVIOUS
  <2>2. (CHOOSE x : x \in {e}) = e
    OBVIOUS
  <2>3. {e} \ {e} = {}
    OBVIOUS
  <2>4. \A T \in SUBSET {e} : T # {} => T \ {CHOOSE x : x \in T} = {}
    BY <2>1, <2>2, <2>3
  <2>5. {} \in SUBSET {e}
    OBVIOUS
  <2>6. g0[{}] = 0
    BY <2>5
  <2>7. \A T \in SUBSET {e} : g0[T] = IF T = {} THEN 0 ELSE 1 + g0[T \ {CHOOSE x : x \in T}]
    BY SMTT(60), <2>4, <2>6
  <2> QED BY <2>7
<1>2. Is(CS)
  BY <1>1
<1>3. CS[{}] = 0 /\ CS[{e}] = 1 + CS[{e} \ {CHOOSE x : x \in {e}}]
  BY <1>2
<1>4. {e} \ {CHOOSE x : x \in {e}} = {}
  OBVIOUS
<1>5. CS[{e}] = 1
  <2> HIDE DEF CS
  <2> QED BY SMTT(60), <1>3, <1>4
<1>6. Cardinality({e}) = CS[{e}]
  BY DEF Cardinality
<1> QED BY <1>5, <1>6

\* Of the four places, each has one batch or acknowledgement, or none.
LEMMA OneInFlight ==
  ASSUME TypeOK, AckInv
  PROVE  AwaitedAckIsComing
<1> SUFFICES ASSUME NEW c \in Clusters, link[c]
             PROVE  Len(toServer[c]) + Cardinality(AcksTo(c))
                      + (IF handler[c] = "recv" THEN 0 ELSE 1)
                      = (IF agent[c] = "await" THEN 1 ELSE 0)
  BY DEF AwaitedAckIsComing
<1>1. NothingSent(c) \/ Underway(c) \/ InHandler(c) \/ Answered(c)
  BY DEF AckInv, AckOf
<1>2. NoAck(toAgent[c]) => Cardinality(AcksTo(c)) = 0
  <2>1. NoAck(toAgent[c]) => AcksTo(c) = {}
    BY DEF NoAck, AcksTo
  <2> QED BY <2>1, EmptyCardinality
<1>3. Answered(c) => Cardinality(AcksTo(c)) = 1
  <2> SUFFICES ASSUME Answered(c) PROVE Cardinality(AcksTo(c)) = 1
    OBVIOUS
  <2>1. toAgent[c] \in Seq(Frame) /\ EndsWithAck(toAgent[c], awaiting[c])
    BY DEF Answered, TypeOK, StreamTypes
  <2>2. Len(toAgent[c]) \in 1 .. Len(toAgent[c])
    BY <2>1 DEF EndsWithAck
  <2>3. AcksTo(c) = {Len(toAgent[c])}
    BY <2>1, <2>2 DEF AcksTo, EndsWithAck
  <2> QED BY <2>3, SingletonCardinality
<1>4. Len(<<>>) = 0 /\ Len(<<awaiting[c]>>) = 1
  OBVIOUS
<1>5. CASE NothingSent(c)
  BY <1>2, <1>4, <1>5 DEF NothingSent
<1>6. CASE Underway(c)
  BY <1>2, <1>4, <1>6 DEF Underway
<1>7. CASE InHandler(c)
  BY <1>2, <1>4, <1>7 DEF InHandler
<1>8. CASE Answered(c)
  BY <1>3, <1>4, <1>8 DEF Answered
<1> QED BY <1>1, <1>5, <1>6, <1>7, <1>8

\* awaitAcknowledgement has no timeout, and needs none: on a stream that is up
\* the batch it waits for is on its way, in handleBatch or answered, however
\* streams break, the ingestion process crashes and agent processes change.
THEOREM AwaitedAckComes == RestartSpec => []AwaitedAckIsComing
<1>1. Init => AckInv
  BY DEF Init, AckInv, AckOf
<1>2. AckInv /\ TypeOK /\ TypeOK' /\ [RestartNext]_vars => AckInv'
  BY AckStep
<1>3. TypeOK /\ AckInv => AwaitedAckIsComing
  BY OneInFlight
<1>4. RestartSpec => []TypeOK
  BY TypeCorrect
<1> QED BY <1>1, <1>2, <1>3, <1>4, PTL DEF RestartSpec
=============================================================================
