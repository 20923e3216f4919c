-------------------------- MODULE DurabilityProofs ---------------------------
(*****************************************************************************)
(* Proofs about Delivery.  First the type correctness, with agent processes  *)
(* that come and go, and the bound of the queue: the operations on sequences,*)
(* the frames, the initial state, and the steps of worker, agent and stream  *)
(* server.  Then that DeliveryInv is inductive and what follows: nothing that*)
(* Publish accepted is lost silently, no watermark runs ahead of ClickHouse  *)
(* and the archive, and Delivery implements AtLeastOnce.                     *)
(*****************************************************************************)
EXTENDS DeliveryInvariant, TLAPS

\* The provers, in this order, and the seconds each may spend on a step; each
\* has a second, longer try.
USE ZenonT(30), SMTT(30), ZenonT(60), SMTT(60)

(* What Elements makes of the operations on sequences. *)

\* An empty queue holds nothing.
LEMMA ElementsEmpty == Elements(<<>>) = {}
BY DEF Elements

\* TryEnqueue adds one batch, stream.Send one frame.
LEMMA ElementsAppend ==
  ASSUME NEW S, NEW s \in Seq(S), NEW e \in S
  PROVE  Elements(Append(s, e)) = Elements(s) \cup {e}
BY SMTT(60) DEF Elements

\* A lease put back by Retry and the queue hold what both held.
LEMMA ElementsConcat ==
  ASSUME NEW S, NEW s \in Seq(S), NEW t \in Seq(S)
  PROVE  /\ s \o t \in Seq(S)
         /\ Elements(s \o t) = Elements(s) \cup Elements(t)
<1>1. /\ s \o t \in Seq(S)
      /\ Len(s \o t) = Len(s) + Len(t)
      /\ \A i \in 1 .. Len(s) : (s \o t)[i] = s[i]
      /\ \A i \in 1 .. Len(t) : (s \o t)[Len(s) + i] = t[i]
  OBVIOUS
<1>2. ASSUME NEW e \in Elements(s \o t) PROVE e \in Elements(s) \cup Elements(t)
  <2>1. PICK i \in 1 .. Len(s) + Len(t) : e = (s \o t)[i]
    BY <1>1 DEF Elements
  <2>2. CASE i \in 1 .. Len(s)
    BY <1>1, <2>1, <2>2 DEF Elements
  <2>3. CASE i - Len(s) \in 1 .. Len(t)
    <3>1. e = t[i - Len(s)]
      BY SMTT(60), <1>1, <2>1, <2>3
    <3> QED BY <2>3, <3>1 DEF Elements
  <2> QED BY <2>1, <2>2, <2>3
<1>3. ASSUME NEW e \in Elements(s) PROVE e \in Elements(s \o t)
  <2>1. PICK i \in 1 .. Len(s) : e = s[i]
    BY DEF Elements
  <2>2. i \in 1 .. Len(s \o t) /\ e = (s \o t)[i]
    BY <1>1, <2>1
  <2> QED BY <2>2 DEF Elements
<1>4. ASSUME NEW e \in Elements(t) PROVE e \in Elements(s \o t)
  <2>1. PICK i \in 1 .. Len(t) : e = t[i]
    BY DEF Elements
  <2>2. Len(s) + i \in 1 .. Len(s \o t) /\ e = (s \o t)[Len(s) + i]
    BY <1>1, <2>1
  <2> QED BY <2>2 DEF Elements
<1> QED BY <1>1, <1>2, <1>3, <1>4

\* Receiving a frame adds none.
LEMMA ElementsTail ==
  ASSUME NEW S, NEW s \in Seq(S), s # <<>>
  PROVE  /\ Elements(Tail(s)) \subseteq Elements(s)
         /\ Head(s) \in Elements(s)
         /\ Tail(s) \in Seq(S)
         /\ Head(s) \in S
BY DEF Elements

\* Acquire takes its lease out of the queue.
LEMMA ElementsSubSeq ==
  ASSUME NEW S, NEW s \in Seq(S), NEW m \in Nat \ {0}, NEW n \in 0 .. Len(s)
  PROVE  /\ SubSeq(s, m, n) \in Seq(S)
         /\ Elements(SubSeq(s, m, n)) \subseteq Elements(s)
BY SMTT(60) DEF Elements

\* What a typed queue holds is typed.
LEMMA ElementsType ==
  ASSUME NEW S, NEW s \in Seq(S)
  PROVE  Elements(s) \subseteq S
BY DEF Elements
-----------------------------------------------------------------------------
(* Type correctness. *)

USE DEF agentVars, streamVars, serverVars, diskVars, queueVars, workerVars,
        Load, Save, Rejections

\* serverHello, acknowledgement and flowControl build frames.
LEMMA FrameTypes ==
  /\ NoBatch \in Interval
  /\ NoWork \in Work
  /\ FlowControl \in Frame
  /\ \A n \in Nat : Hello(n) \in Frame
  /\ \A b \in Interval, n \in Nat, R, T \in SUBSET Nat : Ack(b, n, R, T) \in Frame
BY SMTT(60), KindAssumption DEF NoBatch, NoWork, FlowControl, Hello, Ack, Interval, Work, Frame

\* stream.Send keeps the type of the frames under way.
LEMMA ReplyType ==
  ASSUME NEW c \in Clusters, NEW frames \in Seq(Frame), StreamTypes, Reply(c, frames)
  PROVE  toAgent' \in [Clusters -> Seq(Frame)]
<1>1. toAgent[c] \o frames \in Seq(Frame)
  BY SMTT(60) DEF StreamTypes
<1> QED BY <1>1 DEF StreamTypes, Reply

\* Buffer.Acknowledge only removes entries.
LEMMA AcknowledgeType ==
  ASSUME NEW c \in Clusters, NEW through, NEW terminal,
         AgentTypes, Acknowledge(c, through, terminal)
  PROVE  entries' \in [Clusters -> SUBSET (1 .. MaxSequence)]
BY DEF AgentTypes, Acknowledge

\* stream.Recv of the server yields a batch and keeps the rest.
LEMMA ReceivedType ==
  ASSUME NEW c \in Clusters, NEW b, StreamTypes, Receives(c, b)
  PROVE  /\ b \in Interval
         /\ b \in Elements(toServer[c])
         /\ toServer' \in [Clusters -> Seq(Interval)]
<1>1. toServer[c] \in Seq(Interval) /\ toServer[c] # <<>> /\ b = Head(toServer[c])
  BY DEF StreamTypes, Receives
<1>2. Tail(toServer[c]) \in Seq(Interval) /\ b \in Interval /\ b \in Elements(toServer[c])
  BY <1>1, ElementsTail
<1> QED BY <1>2 DEF StreamTypes, Receives

\* The rows of a typed batch are typed.
LEMMA ObservationsType ==
  ASSUME NEW b \in Batch, NEW o \in Observations(b)
  PROVE  /\ o \in Clusters \X Nat \X (1 .. MaxSequence)
         /\ Kind[o[3]] \in 0 .. NumTables
<1>1. PICK s \in b.first .. b.last : o = <<b.cluster, b.inst, s>>
  BY DEF Observations
<1>2. s \in 1 .. MaxSequence /\ b.cluster \in Clusters /\ b.inst \in Nat
  BY SMTT(60), <1>1, KindAssumption DEF Batch
<1> QED BY <1>1, <1>2, KindAssumption

\* The processes start with typed state.
LEMMA InitTypeOK == Init => TypeOK
<1> SUFFICES ASSUME Init PROVE TypeOK
  OBVIOUS
<1>1. ready \in BOOLEAN
  BY DEF Init, QueueInit
<1>2. QueueTypes
  BY <1>1 DEF Init, QueueInit, QueueTypes
<1>3. WorkerTypes
  BY DEF Init, WorkerInit, WorkerTypes
<1>4. AgentTypes
  BY SMTT(60), FrameTypes, KindAssumption DEF Init, AgentTypes
<1>5. StreamTypes
  BY DEF Init, StreamTypes
<1>6. ServerTypes
  BY FrameTypes DEF Init, ServerTypes
<1>7. DiskTypes /\ HistoryTypes
  BY DEF Init, DiskTypes, HistoryTypes
<1> QED BY <1>2, <1>3, <1>4, <1>5, <1>6, <1>7 DEF TypeOK

\* The worker's steps.
LEMMA WorkerStepTypes ==
  ASSUME QueueTypes, WorkerTypes, inFlight = Len(lease), WorkerNext
  PROVE  QueueTypes' /\ WorkerTypes'
<1>1. ASSUME NEW t \in todo PROVE RowsOf(t) \subseteq Clusters \X Nat \X (1 .. MaxSequence)
  BY ObservationsType, ElementsType DEF QueueTypes, RowsOf
<1>2. CASE WorkerAcquire
  <2>1. LeaseCount \in 0 .. Len(items)
    BY QueueAssumption DEF LeaseCount, QueueTypes
  <2>2. lease' \in Seq(Batch) /\ items' \in Seq(Batch)
    BY SMTT(60), <1>2, <2>1, ElementsSubSeq DEF WorkerAcquire, Acquire, QueueTypes
  <2>3. todo' \subseteq 1 .. NumTables
    <3> SUFFICES ASSUME NEW t \in todo' PROVE t \in 1 .. NumTables
      OBVIOUS
    <3>1. PICK b \in Elements(lease') : \E o \in Observations(b) : t = Kind[o[3]] /\ t # 0
      BY <1>2 DEF WorkerAcquire, TablesOf
    <3>2. b \in Batch
      BY <2>2, ElementsType
    <3> QED BY SMTT(60), <3>1, <3>2, ObservationsType, KindAssumption
  <2>4. ready' \in BOOLEAN
    BY <1>2 DEF WorkerAcquire, Acquire
  <2> QED
    BY <1>2, <2>1, <2>2, <2>3, <2>4
    DEF WorkerAcquire, Acquire, QueueTypes, WorkerTypes
<1>3. CASE WorkerSleep
  BY <1>3 DEF WorkerSleep, QueueTypes, WorkerTypes
<1>4. CASE WorkerWake
  <2>1. ready' \in BOOLEAN
    BY <1>4 DEF WorkerWake, TakeReady
  <2> QED BY <1>4, <2>1 DEF WorkerWake, TakeReady, QueueTypes, WorkerTypes
<1>5. ASSUME NEW t \in todo, WorkerInsert(t) PROVE QueueTypes' /\ WorkerTypes'
  BY <1>1, <1>5 DEF WorkerInsert, QueueTypes, WorkerTypes
<1>6. ASSUME NEW t \in todo, WorkerInsertFails(t) PROVE QueueTypes' /\ WorkerTypes'
  <2>1. ready' \in BOOLEAN
    BY <1>6 DEF WorkerInsertFails, Retry
  <2> QED
    BY SMTT(60), <1>1, <1>6, <2>1 DEF WorkerInsertFails, Retry, QueueTypes, WorkerTypes
<1>7. CASE WorkerBackoffEnds
  BY <1>7 DEF WorkerBackoffEnds, QueueTypes, WorkerTypes
<1>8. CASE WorkerCommit
  <2>1. \A b \in Elements(lease) : b.chan \in Chan
    <3>1. Elements(lease) \subseteq Batch
      BY ElementsType DEF QueueTypes
    <3> QED BY <3>1 DEF Batch
  <2>2. closed' \subseteq Chan
    BY <1>8, <2>1 DEF WorkerCommit, CloseLeased, QueueTypes
  <2> QED
    BY <1>8, <2>2 DEF WorkerCommit, CloseLeased, QueueTypes, WorkerTypes
<1>9. CASE WorkerCommitEnds
  BY <1>9 DEF WorkerCommitEnds, ReleaseLeased, QueueTypes, WorkerTypes
<1> QED
  BY <1>2, <1>3, <1>4, <1>5, <1>6, <1>7, <1>8, <1>9 DEF WorkerNext

\* The agent's steps.
LEMMA AgentStepTypes ==
  ASSUME NEW c \in Clusters, TypeOK,
         Publish(c) \/ ClientNext(c) \/ Break(c) \/ AgentRestart(c)
  PROVE  TypeOK'
<1> USE DEF TypeOK
<1>1. CASE Publish(c)
  <2>1. next[c] \in 1 .. MaxSequence
    <3>1. next[c] \in 1 .. MaxSequence + 1 /\ next[c] <= MaxSequence
      BY <1>1 DEF Publish, AgentTypes
    <3> QED BY SMTT(60), <3>1, KindAssumption
  <2>2. AgentTypes'
    <3>1. next[c] + 1 \in 1 .. MaxSequence + 1
      BY <2>1, KindAssumption
    <3>2. next' \in [Clusters -> 1 .. MaxSequence + 1]
      BY <1>1, <3>1 DEF Publish, AgentTypes
    <3>3. entries' \in [Clusters -> SUBSET (1 .. MaxSequence)]
      BY <1>1, <2>1 DEF Publish, AgentTypes
    <3> QED BY <1>1, <3>2, <3>3 DEF Publish, AgentTypes
  <2> QED
    BY <1>1, <2>2
    DEF Publish, QueueTypes, WorkerTypes, StreamTypes, ServerTypes, DiskTypes,
        HistoryTypes
<1>2. CASE Connect(c)
  <2>1. persisted' \in [Clusters -> Nat]
    BY <1>2 DEF Connect, ServerTypes, DiskTypes
  <2>2. active' \in [Clusters -> BOOLEAN] /\ loaded' \in [Clusters -> BOOLEAN]
    BY <1>2 DEF Connect, ServerTypes
  <2>3. ServerTypes'
    BY <1>2, <2>1, <2>2 DEF Connect, ServerTypes
  <2>4. <<Hello(persisted'[c])>> \in Seq(Frame)
    BY <2>1, FrameTypes
  <2>5. StreamTypes'
    BY SMTT(60), <1>2, <2>4 DEF Connect, StreamTypes
  <2> QED
    BY <1>2, <2>3, <2>5
    DEF Connect, QueueTypes, WorkerTypes, AgentTypes, DiskTypes, HistoryTypes
<1>3. CASE Handshake(c)
  <2>1. AgentTypes'
    BY <1>3, AcknowledgeType DEF Handshake, AgentTypes
  <2>2. StreamTypes'
    BY <1>3, ElementsTail DEF Handshake, StreamTypes
  <2> QED
    BY <1>3, <2>1, <2>2
    DEF Handshake, QueueTypes, WorkerTypes, ServerTypes, DiskTypes, HistoryTypes
<1>4. CASE SendBatch(c)
  <2>1. AgentTypes'
    <3>1. PICK f \in entries[c], l \in entries[c] :
            awaiting' = [awaiting EXCEPT ![c] = [inst |-> inst[c], first |-> f, last |-> l]]
      BY <1>4 DEF SendBatch
    <3>2. f \in 1 .. MaxSequence /\ l \in 1 .. MaxSequence /\ inst[c] \in Nat
      BY DEF AgentTypes
    <3>3. [inst |-> inst[c], first |-> f, last |-> l] \in Interval
      BY SMTT(60), <3>2, KindAssumption DEF Interval
    <3>4. awaiting' \in [Clusters -> Interval]
      BY <3>1, <3>3 DEF AgentTypes
    <3> QED BY <1>4, <3>4 DEF SendBatch, AgentTypes
  <2>2. awaiting'[c] \in Interval
    BY <2>1 DEF AgentTypes
  <2>3. StreamTypes'
    <3>1. Append(toServer[c], awaiting'[c]) \in Seq(Interval)
      BY SMTT(60), <2>2 DEF StreamTypes
    <3> QED BY <1>4, <3>1 DEF SendBatch, StreamTypes
  <2> QED
    BY <1>4, <2>1, <2>3
    DEF SendBatch, QueueTypes, WorkerTypes, ServerTypes, DiskTypes, HistoryTypes
<1>5. CASE ReceiveFlowControl(c)
  <2>1. StreamTypes'
    BY <1>5, ElementsTail DEF ReceiveFlowControl, StreamTypes
  <2> QED
    BY <1>5, <2>1
    DEF ReceiveFlowControl, QueueTypes, WorkerTypes, AgentTypes, ServerTypes,
        DiskTypes, HistoryTypes
<1>6. CASE ReceiveAck(c)
  <2>1. entries' \in [Clusters -> SUBSET (1 .. MaxSequence)]
    BY <1>6, AcknowledgeType DEF ReceiveAck, AgentTypes
  <2>2. AgentTypes'
    BY <1>6, <2>1, FrameTypes DEF ReceiveAck, AgentTypes
  <2>3. StreamTypes'
    BY <1>6, ElementsTail DEF ReceiveAck, StreamTypes
  <2> QED
    BY <1>6, <2>2, <2>3
    DEF ReceiveAck, QueueTypes, WorkerTypes, ServerTypes, DiskTypes, HistoryTypes
<1>7. CASE Disconnect(c)
  <2>1. AgentTypes'
    BY <1>7, FrameTypes DEF Disconnect, AgentTypes
  <2>2. StreamTypes'
    BY SMTT(60), <1>7 DEF Disconnect, StreamTypes
  <2> QED
    BY <1>7, <2>1, <2>2
    DEF Disconnect, QueueTypes, WorkerTypes, ServerTypes, DiskTypes, HistoryTypes
<1>8. CASE Break(c)
  <2>1. StreamTypes'
    BY <1>8 DEF Break, StreamTypes
  <2>2. faults' \in Nat
    BY <1>8 DEF Break, HistoryTypes
  <2> QED
    BY <1>8, <2>1, <2>2
    DEF Break, QueueTypes, WorkerTypes, AgentTypes, ServerTypes, DiskTypes, HistoryTypes
<1>9. CASE AgentRestart(c)
  <2>1. AgentTypes'
    <3>1. inst' \in [Clusters -> Nat]
      BY SMTT(60), <1>9 DEF AgentRestart, AgentTypes
    <3>2. 1 \in 1 .. MaxSequence + 1
      BY KindAssumption
    <3>3. next' \in [Clusters -> 1 .. MaxSequence + 1]
      BY <1>9, <3>2 DEF AgentRestart, AgentTypes
    <3>4. /\ entries' \in [Clusters -> SUBSET (1 .. MaxSequence)]
          /\ agent' \in [Clusters -> {"down", "hello", "idle", "await"}]
          /\ awaiting' \in [Clusters -> Interval]
      BY <1>9, FrameTypes DEF AgentRestart, AgentTypes
    <3> QED BY <3>1, <3>3, <3>4 DEF AgentTypes
  <2>2. StreamTypes'
    BY SMTT(60), <1>9 DEF AgentRestart, StreamTypes
  <2> QED BY <1>9, <2>1, <2>2
          DEF AgentRestart, QueueTypes, WorkerTypes, ServerTypes, DiskTypes, HistoryTypes
<1> QED
  BY <1>1, <1>2, <1>3, <1>4, <1>5, <1>6, <1>7, <1>8, <1>9 DEF ClientNext
\* suffixAfter starts at a positive number.
LEMMA SuffixType ==
  ASSUME NEW c \in Clusters, NEW b \in Interval, ServerTypes
  PROVE  /\ SuffixStart(c, b) \in Nat \ {0}
         /\ persisted[c] \in Nat
         /\ b.first \in Nat
         /\ b.last \in Nat
BY SMTT(60), KindAssumption DEF SuffixStart, ServerTypes, Interval

\* The acknowledgement that asks for a batch again is a frame.
LEMMA RetryAckType ==
  ASSUME NEW c \in Clusters, ServerTypes
  PROVE  RetryAck(c) \in Frame
<1>1. /\ work[c].batch \in Interval /\ work[c].from \in Nat
      /\ work[c].batch.last \in Nat /\ persisted[c] \in Nat
  BY SMTT(60), KindAssumption DEF ServerTypes, Work, Interval
<1> QED BY SMTT(60), <1>1, FrameTypes DEF RetryAck

\* The session's steps.
LEMMA SessionStepTypes ==
  ASSUME NEW c \in Clusters, TypeOK, SessionNext(c)
  PROVE  TypeOK'
<1> USE DEF TypeOK
<1>1. CASE RejectBatch(c)
  <2>1. PICK b : /\ Receives(c, b)
                 /\ Reply(c, <<Ack(b, persisted[c], {}, b.first .. b.last)>>)
                 /\ rejected' = rejected \cup {<<c, b.inst, s>> : s \in b.first .. b.last}
    BY <1>1 DEF RejectBatch
  <2>2. b \in Interval /\ toServer' \in [Clusters -> Seq(Interval)]
    BY <2>1, ReceivedType
  <2>3. b.first \in Nat /\ b.last \in Nat /\ b.inst \in Nat /\ persisted[c] \in Nat
    BY <2>2, SuffixType DEF Interval
  <2>4. <<Ack(b, persisted[c], {}, b.first .. b.last)>> \in Seq(Frame)
    <3>1. b.first .. b.last \in SUBSET Nat
      BY SMTT(60), <2>3
    <3>2. Ack(b, persisted[c], {}, b.first .. b.last) \in Frame
      BY <2>2, <2>3, <3>1, FrameTypes
    <3> QED BY <3>2
  <2>5. toAgent' \in [Clusters -> Seq(Frame)]
    BY <2>1, <2>4, ReplyType
  <2>6. StreamTypes'
    BY <1>1, <2>2, <2>5 DEF RejectBatch, StreamTypes
  <2>7. HistoryTypes'
    BY SMTT(60), <1>1, <2>1, <2>3 DEF RejectBatch, HistoryTypes
  <2> QED
    BY <1>1, <2>6, <2>7
    DEF RejectBatch, QueueTypes, WorkerTypes, AgentTypes, ServerTypes, DiskTypes
<1>2. CASE AckDuplicate(c)
  <2>1. PICK b : Receives(c, b) /\ Reply(c, <<Ack(b, persisted[c], {}, {})>>)
    BY <1>2 DEF AckDuplicate
  <2>2. b \in Interval /\ toServer' \in [Clusters -> Seq(Interval)]
    BY <2>1, ReceivedType
  <2>3. <<Ack(b, persisted[c], {}, {})>> \in Seq(Frame)
    <3>1. persisted[c] \in Nat
      BY <2>2, SuffixType
    <3>2. Ack(b, persisted[c], {}, {}) \in Frame
      BY <2>2, <3>1, FrameTypes
    <3> QED BY <3>2
  <2>4. toAgent' \in [Clusters -> Seq(Frame)]
    BY <2>1, <2>3, ReplyType
  <2>5. StreamTypes'
    BY <1>2, <2>2, <2>4 DEF AckDuplicate, StreamTypes
  <2> QED
    BY <1>2, <2>5
    DEF AckDuplicate, QueueTypes, WorkerTypes, AgentTypes, ServerTypes, DiskTypes,
        HistoryTypes
<1>3. CASE AckGap(c)
  <2>1. PICK b : /\ Receives(c, b)
                 /\ Reply(c, <<Ack(b, persisted[c], persisted[c] + 1 .. b.first - 1, {})>>)
    BY <1>3 DEF AckGap
  <2>2. b \in Interval /\ toServer' \in [Clusters -> Seq(Interval)]
    BY <2>1, ReceivedType
  <2>3. persisted[c] \in Nat /\ persisted[c] + 1 .. b.first - 1 \subseteq Nat
    BY SMTT(60), <2>2, SuffixType
  <2>4. <<Ack(b, persisted[c], persisted[c] + 1 .. b.first - 1, {})>> \in Seq(Frame)
    <3>1. Ack(b, persisted[c], persisted[c] + 1 .. b.first - 1, {}) \in Frame
      BY <2>2, <2>3, FrameTypes
    <3> QED BY <3>1
  <2>5. toAgent' \in [Clusters -> Seq(Frame)]
    BY <2>1, <2>4, ReplyType
  <2>6. StreamTypes'
    BY <1>3, <2>2, <2>5 DEF AckGap, StreamTypes
  <2> QED
    BY <1>3, <2>6
    DEF AckGap, QueueTypes, WorkerTypes, AgentTypes, ServerTypes, DiskTypes,
        HistoryTypes
<1>4. CASE Archive(c)
  <2>1. PICK b : /\ Receives(c, b)
                 /\ Reply(c, IF Slowed THEN <<FlowControl>> ELSE <<>>)
                 /\ WriteFile([cluster |-> c, batch |-> b, from |-> SuffixStart(c, b)])
                 /\ work' = [work EXCEPT ![c] = [batch |-> b, from |-> SuffixStart(c, b),
                                                 slowed |-> Slowed]]
    BY <1>4 DEF Archive, Accepts
  <2>2. b \in Interval /\ toServer' \in [Clusters -> Seq(Interval)]
    BY <2>1, ReceivedType
  <2>3. (IF Slowed THEN <<FlowControl>> ELSE <<>>) \in Seq(Frame)
    BY FrameTypes
  <2>4. toAgent' \in [Clusters -> Seq(Frame)]
    BY <2>1, <2>3, ReplyType
  <2>5. StreamTypes'
    BY <1>4, <2>2, <2>4 DEF Archive, StreamTypes
  <2>6. SuffixStart(c, b) \in Nat \ {0} /\ b.inst \in Nat /\ b.last \in Nat
    BY <2>2, SuffixType DEF Interval
  <2>7. Slowed \in BOOLEAN
    BY DEF Slowed
  <2>8. [batch |-> b, from |-> SuffixStart(c, b), slowed |-> Slowed] \in Work
    BY <2>2, <2>6, <2>7 DEF Work
  <2>9. ServerTypes'
    BY <1>4, <2>1, <2>8 DEF Archive, ServerTypes
  <2>10. DiskTypes'
    <3>1. [cluster |-> c, batch |-> b, from |-> SuffixStart(c, b)]
            \in [cluster : Clusters, batch : Interval, from : Nat \ {0}]
      BY <2>2, <2>6
    <3> QED BY <1>4, <2>1, <3>1 DEF Archive, DiskTypes, WriteFile
  <2> QED
    BY <1>4, <2>5, <2>9, <2>10
    DEF Archive, QueueTypes, WorkerTypes, AgentTypes, HistoryTypes
<1>5. CASE ArchiveFails(c)
  <2>1. PICK b : /\ Receives(c, b)
                 /\ Reply(c, (IF Slowed THEN <<FlowControl>> ELSE <<>>)
                       \o <<Ack(b, persisted[c], SuffixStart(c, b) .. b.last, {})>>)
    BY <1>5 DEF ArchiveFails, Accepts
  <2>2. b \in Interval /\ toServer' \in [Clusters -> Seq(Interval)]
    BY <2>1, ReceivedType
  <2>3. persisted[c] \in Nat /\ SuffixStart(c, b) .. b.last \subseteq Nat
    BY SMTT(60), <2>2, SuffixType
  <2>4. Ack(b, persisted[c], SuffixStart(c, b) .. b.last, {}) \in Frame
    BY <2>2, <2>3, FrameTypes
  <2>5. (IF Slowed THEN <<FlowControl>> ELSE <<>>)
          \o <<Ack(b, persisted[c], SuffixStart(c, b) .. b.last, {})>> \in Seq(Frame)
    BY <2>4, FrameTypes
  <2>6. toAgent' \in [Clusters -> Seq(Frame)]
    BY <2>1, <2>5, ReplyType
  <2>7. StreamTypes'
    BY <1>5, <2>2, <2>6 DEF ArchiveFails, StreamTypes
  <2> QED
    BY <1>5, <2>7
    DEF ArchiveFails, QueueTypes, WorkerTypes, AgentTypes, ServerTypes, DiskTypes,
        HistoryTypes
<1>6. CASE TryEnqueue(c)
  <2>1. PICK ch \in Chan :
          /\ Enqueue([cluster |-> c, inst |-> work[c].batch.inst,
                      first |-> work[c].from, last |-> work[c].batch.last,
                      chan |-> ch])
          /\ waits' = [waits EXCEPT ![c] = ch]
    BY <1>6 DEF TryEnqueue, FreshChans
  <2>2. [cluster |-> c, inst |-> work[c].batch.inst, first |-> work[c].from,
         last |-> work[c].batch.last, chan |-> ch] \in Batch
    BY DEF ServerTypes, Work, Interval, Batch
  <2>3. ready' \in BOOLEAN
    BY <2>1 DEF Enqueue
  <2>4. QueueTypes'
    BY <2>1, <2>2, <2>3 DEF Enqueue, QueueTypes
  <2>5. ServerTypes'
    BY <1>6, <2>1 DEF TryEnqueue, ServerTypes
  <2> QED
    BY <1>6, <2>4, <2>5
    DEF TryEnqueue, WorkerTypes, AgentTypes, StreamTypes, DiskTypes, HistoryTypes
<1>7. CASE RefuseFull(c)
  <2>1. (IF work[c].slowed THEN <<>> ELSE <<FlowControl>>) \o <<RetryAck(c)>> \in Seq(Frame)
    BY RetryAckType, FrameTypes
  <2>2. toAgent' \in [Clusters -> Seq(Frame)]
    BY <1>7, <2>1, ReplyType DEF RefuseFull
  <2>3. StreamTypes'
    BY <1>7, <2>2 DEF RefuseFull, StreamTypes
  <2>4. ServerTypes'
    BY <1>7, FrameTypes DEF RefuseFull, ServerTypes
  <2> QED
    BY <1>7, <2>3, <2>4
    DEF RefuseFull, QueueTypes, WorkerTypes, AgentTypes, DiskTypes, HistoryTypes
<1>8. CASE SaveCheckpoint(c)
  <2>1. work[c].batch.last \in Nat
    BY SMTT(60), KindAssumption DEF ServerTypes, Work, Interval
  <2>2. DiskTypes'
    BY <1>8, <2>1 DEF SaveCheckpoint, DiskTypes
  <2>3. ServerTypes'
    BY <1>8 DEF SaveCheckpoint, ServerTypes
  <2> QED
    BY <1>8, <2>2, <2>3
    DEF SaveCheckpoint, QueueTypes, WorkerTypes, AgentTypes, StreamTypes, HistoryTypes
<1>9. CASE SaveFails(c)
  <2>1. <<RetryAck(c)>> \in Seq(Frame)
    BY RetryAckType
  <2>2. toAgent' \in [Clusters -> Seq(Frame)]
    BY <1>9, <2>1, ReplyType DEF SaveFails
  <2>3. StreamTypes'
    BY <1>9, <2>2 DEF SaveFails, StreamTypes
  <2>4. ServerTypes'
    BY <1>9, FrameTypes DEF SaveFails, ServerTypes
  <2> QED
    BY <1>9, <2>3, <2>4
    DEF SaveFails, QueueTypes, WorkerTypes, AgentTypes, DiskTypes, HistoryTypes
<1>10. CASE AckPersisted(c)
  <2>1. work[c].batch \in Interval /\ work[c].batch.last \in Nat
    BY SMTT(60), KindAssumption DEF ServerTypes, Work, Interval
  <2>2. <<Ack(work[c].batch, work[c].batch.last, {}, {})>> \in Seq(Frame)
    BY <2>1, FrameTypes
  <2>3. toAgent' \in [Clusters -> Seq(Frame)]
    BY <1>10, <2>2, ReplyType DEF AckPersisted
  <2>4. StreamTypes'
    BY <1>10, <2>3 DEF AckPersisted, StreamTypes
  <2>5. ServerTypes'
    BY <1>10, <2>1, FrameTypes DEF AckPersisted, ServerTypes
  <2> QED
    BY <1>10, <2>4, <2>5
    DEF AckPersisted, QueueTypes, WorkerTypes, AgentTypes, DiskTypes, HistoryTypes
<1>11. CASE Release(c)
  <2>1. ServerTypes'
    BY <1>11, FrameTypes DEF Release, ServerTypes
  <2>2. StreamTypes'
    BY SMTT(60), <1>11 DEF Release, StreamTypes
  <2> QED
    BY <1>11, <2>1, <2>2
    DEF Release, QueueTypes, WorkerTypes, AgentTypes, DiskTypes, HistoryTypes
<1> QED
  BY <1>1, <1>2, <1>3, <1>4, <1>5, <1>6, <1>7, <1>8, <1>9, <1>10, <1>11
  DEF SessionNext

\* A crash of the ingestion process leaves typed state.
LEMMA CrashTypes == TypeOK /\ ServerCrash => TypeOK'
<1> SUFFICES ASSUME TypeOK, ServerCrash PROVE TypeOK'
  OBVIOUS
<1>1. ready' \in BOOLEAN
  BY DEF ServerCrash
<1>2. QueueTypes' /\ WorkerTypes'
  BY <1>1 DEF ServerCrash, TypeOK, QueueTypes, WorkerTypes
<1>3. StreamTypes'
  BY SMTT(60) DEF ServerCrash, TypeOK, StreamTypes
<1>4. ServerTypes'
  BY FrameTypes DEF ServerCrash, ServerTypes
<1> QED
  BY SMTT(60), <1>2, <1>3, <1>4
  DEF ServerCrash, TypeOK, AgentTypes, DiskTypes, HistoryTypes
-----------------------------------------------------------------------------
(* Capacity.  QueueFull counts leased batches, so a lease that comes back by *)
(* Retry finds room; TypeOK needs this too, for inFlight to stay in Nat.     *)

\* TryEnqueue, Acquire, Commit, Retry and crashes respect the capacity.
LEMMA CapacityStep ==
  ASSUME TypeOK, CapacityRespected, LeasePhase, [RestartNext]_vars
  PROVE  CapacityRespected' /\ LeasePhase'
<1> USE QueueAssumption DEF CapacityRespected, LeasePhase, TypeOK, QueueTypes
<1>1. CASE UNCHANGED <<items, lease, inFlight, worker>>
  BY <1>1
<1>2. ASSUME NEW c \in Clusters, TryEnqueue(c) PROVE CapacityRespected' /\ LeasePhase'
  BY SMTT(60), <1>2 DEF TryEnqueue, Enqueue, QueueFull
<1>3. CASE PersistNext
  <2>1. CASE WorkerAcquire
    <3>1. LeaseCount \in 0 .. Len(items) /\ lease = <<>>
      BY <2>1 DEF WorkerAcquire, LeaseCount
    <3>2. Len(lease') = LeaseCount /\ Len(items') = Len(items) - LeaseCount
      BY <2>1, <3>1 DEF WorkerAcquire, Acquire
    <3>3. inFlight' = LeaseCount /\ worker' = "persist"
      BY <2>1, <3>1 DEF WorkerAcquire, Acquire
    <3> QED BY <3>1, <3>2, <3>3
  <2>2. CASE WorkerSleep \/ WorkerBackoffEnds
    BY <2>2 DEF WorkerSleep, WorkerBackoffEnds
  <2>3. CASE WorkerWake
    BY <2>3 DEF WorkerWake, TakeReady
  <2>4. ASSUME NEW t \in todo, WorkerInsert(t) PROVE CapacityRespected' /\ LeasePhase'
    BY <2>4 DEF WorkerInsert
  <2>5. ASSUME NEW t \in todo, WorkerInsertFails(t) PROVE CapacityRespected' /\ LeasePhase'
    BY <2>5 DEF WorkerInsertFails, Retry
  <2>6. CASE WorkerCommit
    BY <2>6 DEF WorkerCommit, CloseLeased
  <2>7. CASE WorkerCommitEnds
    BY <2>7 DEF WorkerCommitEnds, ReleaseLeased
  <2> QED
    BY <1>3, <2>1, <2>2, <2>3, <2>4, <2>5, <2>6, <2>7 DEF PersistNext, WorkerNext
<1>4. CASE ServerCrash
  BY <1>4 DEF ServerCrash
<1>5. ASSUME NEW c \in Clusters,
             \/ Publish(c) \/ ClientNext(c) \/ Break(c) \/ AgentRestart(c)
      PROVE  UNCHANGED <<items, lease, inFlight, worker>>
  BY <1>5
  DEF ClientNext, Publish, Connect, Handshake, SendBatch, ReceiveFlowControl,
      ReceiveAck, Disconnect, Break, AgentRestart
<1>6. ASSUME NEW c \in Clusters, SessionNext(c), ~TryEnqueue(c)
      PROVE  UNCHANGED <<items, lease, inFlight, worker>>
  BY <1>6
  DEF SessionNext, RejectBatch, AckDuplicate, AckGap, Archive, ArchiveFails,
      RefuseFull, SaveCheckpoint, SaveFails, AckPersisted, Release
<1>7. CASE UNCHANGED vars
  BY <1>7 DEF vars
<1> QED
  BY <1>1, <1>2, <1>3, <1>4, <1>5, <1>6, <1>7 DEF RestartNext, Next

\* Every step of agent, server, worker, crash or restart preserves the types.
LEMMA TypeStep ==
  ASSUME TypeOK, CapacityRespected, [RestartNext]_vars
  PROVE  TypeOK'
<1>1. CASE PersistNext
  <2>1. QueueTypes' /\ WorkerTypes'
    BY <1>1, WorkerStepTypes DEF PersistNext, TypeOK, CapacityRespected
  <2> QED
    BY <1>1, <2>1
    DEF PersistNext, TypeOK, AgentTypes, StreamTypes, ServerTypes, DiskTypes,
        HistoryTypes
<1>2. CASE UNCHANGED vars
  BY <1>2
  DEF vars, TypeOK, QueueTypes, WorkerTypes, AgentTypes, StreamTypes, ServerTypes,
      DiskTypes, HistoryTypes
<1> QED
  BY <1>1, <1>2, AgentStepTypes, SessionStepTypes, CrashTypes DEF RestartNext, Next

\* The queue starts empty and the worker without a lease.
LEMMA InitCapacity == Init => CapacityRespected /\ LeasePhase
BY SMTT(60), QueueAssumption
DEF Init, QueueInit, WorkerInit, CapacityRespected, LeasePhase

\* Type correctness, also when agent processes restart.
THEOREM TypeCorrect == RestartSpec => []TypeOK
<1>1. Init => TypeOK /\ CapacityRespected /\ LeasePhase
  BY InitTypeOK, InitCapacity
<1>2. TypeOK /\ CapacityRespected /\ LeasePhase /\ [RestartNext]_vars
        => (TypeOK /\ CapacityRespected /\ LeasePhase)'
  BY TypeStep, CapacityStep
<1> QED BY <1>1, <1>2, PTL DEF RestartSpec

\* TryEnqueue, Acquire, Commit and Retry keep waiting and leased batches within
\* the capacity of the queue, through crashes and agent restarts.
THEOREM Capacity == RestartSpec => []CapacityRespected
<1>1. Init => TypeOK /\ CapacityRespected /\ LeasePhase
  BY InitTypeOK, InitCapacity
<1>2. TypeOK /\ CapacityRespected /\ LeasePhase /\ [RestartNext]_vars
        => (TypeOK /\ CapacityRespected /\ LeasePhase)'
  BY TypeStep, CapacityStep
<1> QED BY <1>1, <1>2, PTL DEF RestartSpec
-----------------------------------------------------------------------------
(* Steps preserve DeliveryInv: the agent's buffer, the watermark, the queue *)
(* and the lease. *)

\* What no step takes back.
Monotone == /\ inst' = inst
            /\ stored \subseteq stored'
            /\ \A c \in Clusters : \A s \in Nat : Archived(c, s) => Archived(c, s)'
            /\ rejected \subseteq rejected'
            /\ \A c \in Clusters : next[c] <= next'[c]

\* os.WriteFile replaces a file of the archive only by one of the same process
\* and range.
LEMMA WriteFileKeeps ==
  ASSUME NEW c \in Clusters, NEW b, NEW from, b.inst = inst[c], UNCHANGED inst,
         WriteFile([cluster |-> c, batch |-> b, from |-> from]),
         NEW d \in Clusters, NEW s \in Nat, Archived(d, s)
  PROVE  Archived(d, s)'
<1> DEFINE file == [cluster |-> c, batch |-> b, from |-> from]
<1>1. PICK f \in archived : f.cluster = d /\ f.batch.inst = inst[d]
                            /\ s \in f.from .. f.batch.last
  BY DEF Archived
<1>2. CASE f \in archived'
  BY <1>1, <1>2 DEF Archived
<1>3. CASE f \notin archived'
  <2>1. SamePath(f, file) /\ file \in archived'
    BY <1>3 DEF WriteFile
  <2>2. file.cluster = d /\ file.batch.inst = inst[d] /\ s \in file.from .. file.batch.last
    BY <1>1, <2>1 DEF SamePath, SameBatchId
  <2> QED BY <2>1, <2>2 DEF Archived
<1> QED BY <1>2, <1>3

\* No step takes back what is stored, archived, rejected or published.
LEMMA StepMonotone ==
  ASSUME TypeOK, SentInv, [Next]_vars
  PROVE  Monotone
<1> USE DEF Monotone, TypeOK, AgentTypes
<1>0. ASSUME UNCHANGED <<archived, inst>>, NEW c \in Clusters, NEW s \in Nat,
             Archived(c, s)
      PROVE  Archived(c, s)'
  BY <1>0 DEF Archived
<1>1. ASSUME NEW c \in Clusters, Publish(c) PROVE Monotone
  BY <1>0, <1>1 DEF Publish
<1>2. ASSUME NEW c \in Clusters, ClientNext(c) \/ Break(c) PROVE Monotone
  <2>1. UNCHANGED <<inst, next, stored, archived, rejected>>
    BY <1>2
    DEF ClientNext, Connect, Handshake, SendBatch, ReceiveFlowControl, ReceiveAck,
        Disconnect, Break
  <2>2. \A d \in Clusters : next[d] <= next'[d]
    BY <2>1
  <2> QED BY <1>0, <2>1, <2>2
<1>3. ASSUME NEW c \in Clusters, SessionNext(c) PROVE Monotone
  <2>1. UNCHANGED <<inst, next, stored>>
    BY <1>3
    DEF SessionNext, RejectBatch, AckDuplicate, AckGap, Archive, ArchiveFails,
        TryEnqueue, RefuseFull, SaveCheckpoint, SaveFails, AckPersisted, Release
  <2>2. rejected \subseteq rejected' /\ (~Archive(c) => UNCHANGED archived)
    BY <1>3
    DEF SessionNext, RejectBatch, AckDuplicate, AckGap, Archive, ArchiveFails,
        TryEnqueue, RefuseFull, SaveCheckpoint, SaveFails, AckPersisted, Release
  <2>3. ASSUME Archive(c), NEW d \in Clusters, NEW s \in Nat, Archived(d, s)
        PROVE  Archived(d, s)'
    <3>1. PICK b \in Elements(toServer[c]) :
            WriteFile([cluster |-> c, batch |-> b, from |-> SuffixStart(c, b)])
      BY <2>3 DEF Archive
    <3>2. b.inst = inst[c]
      BY DEF SentInv, Own
    <3> QED BY <2>1, <2>3, <3>1, <3>2, WriteFileKeeps
  <2> QED BY <1>0, <2>1, <2>2, <2>3
<1>4. CASE PersistNext
  BY <1>0, <1>4
  DEF PersistNext, WorkerNext, WorkerAcquire, WorkerSleep, WorkerWake, WorkerInsert,
      WorkerInsertFails, WorkerBackoffEnds, WorkerCommit, WorkerCommitEnds
<1>5. CASE ServerCrash
  BY <1>0, <1>5 DEF ServerCrash
<1>6. CASE UNCHANGED vars
  BY <1>0, <1>6 DEF vars
<1> QED BY <1>1, <1>2, <1>3, <1>4, <1>5, <1>6 DEF Next

\* ClickHouse keeps what it has.
LEMMA DurableStays ==
  ASSUME NEW c \in Clusters, NEW s, Monotone, Durable(c, s)
  PROVE  Durable(c, s)'
BY DEF Monotone, Durable

\* A range of the running agent's published numbers stays one.
LEMMA OwnStays ==
  ASSUME NEW c \in Clusters, NEW b, b.last \in Nat, TypeOK, TypeOK', Monotone, Own(c, b)
  PROVE  Own(c, b)'
BY DEF Monotone, Own, TypeOK, AgentTypes

\* The fields of what handleBatch works on.
LEMMA WorkType ==
  ASSUME NEW c \in Clusters, TypeOK
  PROVE  /\ work[c].batch \in Interval
         /\ work[c].batch.last \in 0 .. MaxSequence
         /\ work[c].batch.last \in Nat
         /\ work[c].from \in Nat \ {0}
         /\ persisted[c] \in Nat
BY SMTT(60), KindAssumption DEF TypeOK, ServerTypes, Work, Interval

\* A frame that tells the truth goes on doing so.
LEMMA GoodFrameStays ==
  ASSUME NEW c \in Clusters, NEW frame, Monotone, GoodFrame(c, frame)
  PROVE  GoodFrame(c, frame)'
BY DurableStays DEF GoodFrame, Monotone
-----------------------------------------------------------------------------
(* The buffer: entries leave it only when an acknowledgement covers them. *)

\* Buffer.Acknowledge with a good frame drops nothing that is not settled.
LEMMA AcknowledgeStep ==
  ASSUME NEW c \in Clusters, NEW frame \in Frame, NEW terminal,
         terminal \subseteq frame.terminal, GoodFrame(c, frame),
         TypeOK, Monotone, UNCHANGED next, BufferInv, NoSilentLoss,
         Acknowledge(c, frame.through, terminal)
  PROVE  BufferInv' /\ NoSilentLoss'
<1>1. \A d \in Clusters : entries'[d] \subseteq entries[d]
  BY DEF Acknowledge, TypeOK, AgentTypes
<1>2. BufferInv'
  BY <1>1 DEF BufferInv
<1>3. ASSUME NEW d \in Clusters, NEW s \in 1 .. next'[d] - 1,
             s \notin entries'[d], ~Durable(d, s)'
      PROVE  <<d, inst'[d], s>> \in rejected'
  <2>1. s \in 1 .. MaxSequence /\ s \in 1 .. next[d] - 1
    BY SMTT(60), KindAssumption DEF TypeOK, AgentTypes
  <2>2. ~Durable(d, s)
    BY <1>3, DurableStays
  <2>3. s \in entries[d] \/ <<d, inst[d], s>> \in rejected
    BY <2>1, <2>2 DEF NoSilentLoss
  <2>4. CASE d = c /\ s \in entries[c]
    <3>1. s <= frame.through \/ s \in terminal
      BY SMTT(60), <1>3, <2>1, <2>4 DEF Acknowledge, TypeOK, AgentTypes, Frame
    <3>2. s \in terminal
      BY <2>1, <2>2, <2>4, <3>1 DEF GoodFrame
    <3> QED BY <2>4, <3>2 DEF GoodFrame, Monotone
  <2>5. CASE d # c /\ s \in entries[d]
    BY <1>3, <2>5 DEF Acknowledge, TypeOK, AgentTypes
  <2> QED BY <2>3, <2>4, <2>5 DEF Monotone
<1> QED BY <1>2, <1>3 DEF NoSilentLoss

\* What a session works on stays in the archive.
LEMMA ArchivedStays ==
  ASSUME NEW c \in Clusters, TypeOK, Monotone, SessionInv, handler[c] # "recv"
  PROVE  \A s \in work[c].from .. work[c].batch.last : Archived(c, s)'
<1> SUFFICES ASSUME NEW s \in work[c].from .. work[c].batch.last
             PROVE  Archived(c, s)'
  OBVIOUS
<1>1. s \in Nat
  BY WorkType
<1>2. Archived(c, s)
  BY DEF SessionInv, WorkOf
<1> QED BY <1>1, <1>2 DEF Monotone

\* Publish and Acknowledge, the steps on the buffer, lose nothing.
LEMMA BufferStep ==
  ASSUME TypeOK, DeliveryInv, [Next]_vars
  PROVE  BufferInv' /\ NoSilentLoss'
<1>1. Monotone
  BY StepMonotone DEF DeliveryInv
<1>2. CASE UNCHANGED <<entries, next>>
  <2>1. BufferInv'
    BY <1>2 DEF DeliveryInv, BufferInv
  <2>2. NoSilentLoss'
    BY <1>1, <1>2, DurableStays DEF DeliveryInv, NoSilentLoss, Monotone
  <2> QED BY <2>1, <2>2
<1>3. ASSUME NEW c \in Clusters, Publish(c) PROVE BufferInv' /\ NoSilentLoss'
  <2>1. /\ next' = [next EXCEPT ![c] = @ + 1]
        /\ entries' = [entries EXCEPT ![c] = @ \cup {next[c]}]
        /\ UNCHANGED <<inst, stored, rejected>>
    BY <1>3 DEF Publish
  <2>2. next \in [Clusters -> Nat \ {0}] /\ entries \in [Clusters -> SUBSET Nat]
    BY SMTT(60) DEF TypeOK, AgentTypes
  <2>3. BufferInv'
    BY SMTT(60), <2>1, <2>2 DEF DeliveryInv, BufferInv
  <2>4. NoSilentLoss'
    BY SMTT(60), <2>1, <2>2 DEF DeliveryInv, NoSilentLoss, Durable
  <2> QED BY <2>3, <2>4
<1>4. ASSUME NEW c \in Clusters, Handshake(c) PROVE BufferInv' /\ NoSilentLoss'
  <2>1. toAgent[c] \in Seq(Frame) /\ toAgent[c] # <<>>
    BY <1>4 DEF Handshake, TypeOK, StreamTypes
  <2>2. Head(toAgent[c]) \in Frame /\ Head(toAgent[c]) \in Elements(toAgent[c])
    BY <2>1, ElementsTail
  <2>3. GoodFrame(c, Head(toAgent[c])) /\ BufferInv /\ NoSilentLoss
    BY <2>2 DEF DeliveryInv, FrameInv
  <2>4. Acknowledge(c, Head(toAgent[c]).through, {}) /\ UNCHANGED next
    BY <1>4 DEF Handshake
  <2> QED BY <1>1, <2>2, <2>3, <2>4, AcknowledgeStep
<1>5. ASSUME NEW c \in Clusters, ReceiveAck(c) PROVE BufferInv' /\ NoSilentLoss'
  <2>1. toAgent[c] \in Seq(Frame) /\ toAgent[c] # <<>>
    BY <1>5 DEF ReceiveAck, TypeOK, StreamTypes
  <2>2. Head(toAgent[c]) \in Frame /\ Head(toAgent[c]) \in Elements(toAgent[c])
    BY <2>1, ElementsTail
  <2>3. GoodFrame(c, Head(toAgent[c]))
    BY <2>2 DEF DeliveryInv, FrameInv
  <2>4. CASE Acknowledge(c, Head(toAgent[c]).through, Head(toAgent[c]).terminal)
    BY <1>1, <1>5, <2>2, <2>3, <2>4, AcknowledgeStep DEF ReceiveAck, DeliveryInv
  <2>5. CASE UNCHANGED entries
    BY <1>2, <1>5, <2>5 DEF ReceiveAck
  <2> QED BY <1>5, <2>4, <2>5 DEF ReceiveAck
<1>6. ASSUME NEW c \in Clusters,
             \/ Connect(c) \/ SendBatch(c) \/ ReceiveFlowControl(c)
             \/ Disconnect(c) \/ Break(c)
      PROVE  UNCHANGED <<entries, next>>
  BY <1>6 DEF Connect, SendBatch, ReceiveFlowControl, Disconnect, Break
<1>7. ASSUME NEW c \in Clusters, SessionNext(c) PROVE UNCHANGED <<entries, next>>
  BY <1>7
  DEF SessionNext, RejectBatch, AckDuplicate, AckGap, Archive, ArchiveFails,
      TryEnqueue, RefuseFull, SaveCheckpoint, SaveFails, AckPersisted, Release
<1>8. CASE PersistNext \/ ServerCrash \/ UNCHANGED vars
  BY <1>2, <1>8 DEF PersistNext, ServerCrash, vars
<1> QED
  BY <1>2, <1>3, <1>4, <1>5, <1>6, <1>7, <1>8 DEF Next, ClientNext
-----------------------------------------------------------------------------
(* The watermark: it advances only over what NotifyInv shows to be stored. *)

\* What the handler has when its channel is closed: all of its batch is stored
\* and archived, and the watermark below it was so before.
LEMMA NotifiedIsDurable ==
  ASSUME NEW c \in Clusters, TypeOK, DeliveryInv,
         handler[c] = "waiting", waits[c] \in closed
  PROVE  \A s \in 1 .. work[c].batch.last :
            Durable(c, s) /\ Archived(c, s)
<1> SUFFICES ASSUME NEW s \in 1 .. work[c].batch.last
             PROVE  Durable(c, s) /\ Archived(c, s)
  OBVIOUS
<1>1. /\ work[c].batch.last \in 0 .. MaxSequence /\ work[c].from \in Nat \ {0}
      /\ persisted[c] \in Nat
  BY WorkType
<1>2. s \in 1 .. MaxSequence
  BY SMTT(60), <1>1, KindAssumption
<1>3. WorkOf(c) /\ NotifyOf(c) /\ WatermarkIsDurable
  BY DEF DeliveryInv, SessionInv, NotifyInv
<1>4. CASE s <= persisted[c]
  BY <1>2, <1>3, <1>4 DEF WatermarkIsDurable
<1>5. CASE s \in work[c].from .. work[c].batch.last
  BY <1>3, <1>5 DEF NotifyOf, WorkOf
<1>6. work[c].from <= persisted[c] + 1
  BY <1>3 DEF WorkOf
<1> QED BY <1>1, <1>4, <1>5, <1>6

\* The same, once the checkpoint is saved.
LEMMA SavedIsArchived ==
  ASSUME NEW c \in Clusters, TypeOK, DeliveryInv, handler[c] = "saved"
  PROVE  \A s \in 1 .. work[c].batch.last :
            Durable(c, s) /\ Archived(c, s)
<1> SUFFICES ASSUME NEW s \in 1 .. work[c].batch.last
             PROVE  Durable(c, s) /\ Archived(c, s)
  OBVIOUS
<1>1. /\ work[c].batch.last \in 0 .. MaxSequence /\ work[c].from \in Nat \ {0}
      /\ persisted[c] \in Nat
  BY WorkType
<1>2. s \in 1 .. MaxSequence
  BY SMTT(60), <1>1, KindAssumption
<1>3. work[c].from <= persisted[c] + 1 /\ Durable(c, s)
  BY DEF DeliveryInv, SessionInv, WorkOf
<1>4. CASE s <= persisted[c]
  BY <1>2, <1>3, <1>4 DEF DeliveryInv, WatermarkIsDurable
<1>5. CASE s \in work[c].from .. work[c].batch.last
  BY <1>3, <1>5 DEF DeliveryInv, SessionInv, WorkOf
<1> QED BY <1>1, <1>2, <1>3, <1>4, <1>5

\* persistedThrough and the checkpoint advance only over durable numbers.
LEMMA WatermarkStep ==
  ASSUME TypeOK, DeliveryInv, [Next]_vars
  PROVE  WatermarkIsDurable'
<1>0. Monotone /\ WatermarkIsDurable
  BY StepMonotone DEF DeliveryInv
<1> USE <1>0
<1>1. ASSUME NEW d \in Clusters, NEW s \in 1 .. MaxSequence,
             Durable(d, s), Archived(d, s)
      PROVE  Durable(d, s)' /\ Archived(d, s)'
  BY <1>1, DurableStays DEF Monotone
<1>2. ASSUME \A d \in Clusters :
                /\ persisted'[d] = persisted[d] \/ persisted'[d] = checkpoint[d]
                     \/ persisted'[d] = 0
                /\ checkpoint'[d] = checkpoint[d]
      PROVE  WatermarkIsDurable'
  <2> SUFFICES ASSUME NEW d \in Clusters, NEW s \in 1 .. MaxSequence,
                      s <= persisted'[d] \/ s <= checkpoint'[d]
               PROVE  Durable(d, s)' /\ Archived(d, s)'
    BY DEF WatermarkIsDurable
  <2>1. s <= persisted[d] \/ s <= checkpoint[d]
    BY <1>2, KindAssumption
  <2> QED BY <1>1, <2>1 DEF WatermarkIsDurable
<1>3. ASSUME NEW c \in Clusters, Connect(c) PROVE WatermarkIsDurable'
  BY <1>2, <1>3 DEF Connect, TypeOK, ServerTypes
<1>4. ASSUME NEW c \in Clusters, SaveCheckpoint(c) PROVE WatermarkIsDurable'
  <2>1. work[c].batch.last \in Nat
    BY WorkType
  <2>2. \A s \in 1 .. work[c].batch.last : Durable(c, s) /\ Archived(c, s)
    BY <1>4, NotifiedIsDurable DEF SaveCheckpoint
  <2>3. ASSUME NEW d \in Clusters, NEW s \in 1 .. MaxSequence,
               s <= persisted'[d] \/ s <= checkpoint'[d]
        PROVE  Durable(d, s) /\ Archived(d, s)
    <3>1. s <= persisted[d] \/ s <= checkpoint[d] \/ (d = c /\ s <= work[c].batch.last)
      BY <1>4, <2>3 DEF SaveCheckpoint, TypeOK, DiskTypes
    <3> QED BY <2>1, <2>2, <3>1 DEF WatermarkIsDurable
  <2> QED BY <1>1, <2>3 DEF WatermarkIsDurable
<1>5. ASSUME NEW c \in Clusters, AckPersisted(c) PROVE WatermarkIsDurable'
  <2>1. work[c].batch.last \in Nat
    BY WorkType
  <2>2. \A s \in 1 .. work[c].batch.last : Durable(c, s) /\ Archived(c, s)
    BY <1>5, SavedIsArchived DEF AckPersisted
  <2>3. ASSUME NEW d \in Clusters, NEW s \in 1 .. MaxSequence,
               s <= persisted'[d] \/ s <= checkpoint'[d]
        PROVE  Durable(d, s) /\ Archived(d, s)
    <3>1. s <= persisted[d] \/ s <= checkpoint[d] \/ (d = c /\ s <= work[c].batch.last)
      BY <1>5, <2>3 DEF AckPersisted, TypeOK, ServerTypes
    <3> QED BY <2>1, <2>2, <3>1 DEF WatermarkIsDurable
  <2> QED BY <1>1, <2>3 DEF WatermarkIsDurable
<1>6. ASSUME NEW c \in Clusters,
             Publish(c) \/ (ClientNext(c) /\ ~Connect(c)) \/ Break(c)
      PROVE  UNCHANGED <<persisted, checkpoint>>
  BY <1>6
  DEF ClientNext, Publish, Handshake, SendBatch, ReceiveFlowControl, ReceiveAck,
      Disconnect, Break
<1>7. ASSUME NEW c \in Clusters, SessionNext(c), ~SaveCheckpoint(c), ~AckPersisted(c)
      PROVE  UNCHANGED <<persisted, checkpoint>>
  BY <1>7
  DEF SessionNext, RejectBatch, AckDuplicate, AckGap, Archive, ArchiveFails,
      TryEnqueue, RefuseFull, SaveFails, Release
<1>8. CASE PersistNext \/ UNCHANGED vars
  BY <1>2, <1>8 DEF PersistNext, vars
<1>9. CASE ServerCrash
  BY <1>2, <1>9 DEF ServerCrash
<1> QED
  BY <1>2, <1>3, <1>4, <1>5, <1>6, <1>7, <1>8, <1>9 DEF Next
-----------------------------------------------------------------------------
(* The queue and the worker. *)

\* The fields of a queued or leased batch.
LEMMA HeldType ==
  ASSUME TypeOK, NEW b \in Held
  PROVE  b \in Batch /\ b.cluster \in Clusters /\ b.last \in Nat /\ b.first \in Nat
<1>1. b \in Batch
  BY ElementsType DEF TypeOK, QueueTypes, Held
<1> QED BY SMTT(60), <1>1, KindAssumption DEF Batch

\* Only TryEnqueue brings a new batch into the queue.
LEMMA HeldStep ==
  ASSUME TypeOK, [RestartNext]_vars, \A c \in Clusters : ~TryEnqueue(c)
  PROVE  Held' \subseteq Held
<1> USE DEF Held
<1>0. items \in Seq(Batch) /\ lease \in Seq(Batch)
  BY DEF TypeOK, QueueTypes
<1>1. CASE UNCHANGED <<items, lease>>
  BY <1>1 DEF Elements
<1>2. CASE WorkerAcquire
  <2>1. LeaseCount \in 0 .. Len(items)
    BY <1>0, QueueAssumption DEF LeaseCount
  <2>2. /\ Elements(SubSeq(items, 1, LeaseCount)) \subseteq Elements(items)
        /\ Elements(SubSeq(items, LeaseCount + 1, Len(items))) \subseteq Elements(items)
    <3>1. LeaseCount + 1 \in Nat \ {0} /\ Len(items) \in 0 .. Len(items) /\ 1 \in Nat \ {0}
      BY <1>0, <2>1
    <3> QED BY <1>0, <2>1, <3>1, ElementsSubSeq
  <2>3. Elements(lease') \subseteq Elements(items) /\ Elements(items') \subseteq Elements(items)
    BY <1>2, <2>2 DEF WorkerAcquire, Acquire
  <2>4. Held' = Elements(items') \cup Elements(lease')
    BY DEF Elements
  <2> QED BY <2>3, <2>4
<1>3. ASSUME NEW t \in todo, WorkerInsertFails(t) PROVE Held' \subseteq Held
  <2>1. Elements(lease \o items) = Elements(lease) \cup Elements(items)
    BY <1>0, ElementsConcat
  <2>2. Elements(items') = Elements(lease) \cup Elements(items) /\ Elements(lease') = {}
    BY <1>3, <2>1, ElementsEmpty DEF WorkerInsertFails, Retry
  <2>3. Held' = Elements(items') \cup Elements(lease')
    BY DEF Elements
  <2> QED BY <2>2, <2>3
<1>4. CASE WorkerCommitEnds
  <2>1. items' = items /\ Elements(lease') = {}
    BY <1>4, ElementsEmpty DEF WorkerCommitEnds, ReleaseLeased
  <2>2. Held' = Elements(items') \cup Elements(lease')
    BY DEF Elements
  <2> QED BY <2>1, <2>2
<1>5. CASE ServerCrash
  <2>1. Elements(items') = {} /\ Elements(lease') = {}
    BY <1>5, ElementsEmpty DEF ServerCrash
  <2>2. Held' = Elements(items') \cup Elements(lease')
    BY DEF Elements
  <2> QED BY <2>1, <2>2
<1>6. ASSUME NEW c \in Clusters, Publish(c) \/ ClientNext(c) \/ Break(c) \/ AgentRestart(c)
      PROVE  UNCHANGED <<items, lease>>
  BY <1>6
  DEF ClientNext, Publish, Connect, Handshake, SendBatch, ReceiveFlowControl,
      ReceiveAck, Disconnect, Break, AgentRestart
<1>7. ASSUME NEW c \in Clusters, SessionNext(c) PROVE UNCHANGED <<items, lease>>
  BY <1>7
  DEF SessionNext, RejectBatch, AckDuplicate, AckGap, Archive, ArchiveFails,
      RefuseFull, SaveCheckpoint, SaveFails, AckPersisted, Release
<1>8. CASE WorkerSleep \/ WorkerWake \/ WorkerBackoffEnds \/ WorkerCommit
           \/ \E t \in todo : WorkerInsert(t)
  BY <1>1, <1>8
  DEF WorkerSleep, WorkerWake, TakeReady, WorkerBackoffEnds, WorkerCommit, CloseLeased,
      WorkerInsert
<1>9. CASE UNCHANGED vars
  BY <1>1, <1>9 DEF vars
<1> QED
  BY <1>1, <1>2, <1>3, <1>4, <1>5, <1>6, <1>7, <1>8, <1>9
  DEF RestartNext, Next, PersistNext, WorkerNext

\* TryEnqueue puts the session's batch, with a channel nobody uses, behind.
LEMMA EnqueuedBatch ==
  ASSUME NEW c \in Clusters, TypeOK, TryEnqueue(c)
  PROVE  \E ch \in FreshChans : \E b \in Batch :
            /\ b = [cluster |-> c, inst |-> work[c].batch.inst, first |-> work[c].from,
                    last |-> work[c].batch.last, chan |-> ch]
            /\ Held' = Held \cup {b}
            /\ closed' = closed \ {ch}
            /\ waits' = [waits EXCEPT ![c] = ch]
<1>1. PICK ch \in FreshChans :
        /\ Enqueue([cluster |-> c, inst |-> work[c].batch.inst,
                    first |-> work[c].from, last |-> work[c].batch.last,
                    chan |-> ch])
        /\ waits' = [waits EXCEPT ![c] = ch]
  BY DEF TryEnqueue
<1>2. [cluster |-> c, inst |-> work[c].batch.inst, first |-> work[c].from,
       last |-> work[c].batch.last, chan |-> ch] \in Batch
  BY DEF TypeOK, ServerTypes, Work, Interval, Batch, FreshChans
<1>3. PICK b \in Batch :
        b = [cluster |-> c, inst |-> work[c].batch.inst, first |-> work[c].from,
             last |-> work[c].batch.last, chan |-> ch]
  BY <1>2
<1>4. items' = Append(items, b) /\ lease' = lease /\ closed' = closed \ {ch}
  BY <1>1, <1>3 DEF Enqueue
<1>5. Elements(items') = Elements(items) \cup {b}
  BY SMTT(60), <1>4, ElementsAppend DEF TypeOK, QueueTypes
<1>6. Held' = Elements(items') \cup Elements(lease')
  BY DEF Held, Elements
<1>7. Held' = Held \cup {b}
  BY <1>4, <1>5, <1>6 DEF Held
<1> QED BY <1>1, <1>3, <1>4, <1>7

\* Only handleBatch puts batches into the queue.
LEMMA QueueStep ==
  ASSUME TypeOK, TypeOK', DeliveryInv, [Next]_vars
  PROVE  QueueInv'
<1>0. Monotone /\ QueueInv
  BY StepMonotone DEF DeliveryInv
<1>1. ASSUME NEW b \in Held PROVE Own(b.cluster, b)'
  BY <1>0, HeldType, OwnStays DEF QueueInv
<1>2. CASE \A c \in Clusters : ~TryEnqueue(c)
  BY <1>1, <1>2, HeldStep DEF QueueInv, RestartNext
<1>3. ASSUME NEW c \in Clusters, TryEnqueue(c) PROVE QueueInv'
  <2>1. PICK ch \in FreshChans : \E b \in Batch :
            /\ b = [cluster |-> c, inst |-> work[c].batch.inst, first |-> work[c].from,
                    last |-> work[c].batch.last, chan |-> ch]
            /\ Held' = Held \cup {b}
    BY <1>3, EnqueuedBatch
  <2>2. PICK b \in Batch :
            /\ b = [cluster |-> c, inst |-> work[c].batch.inst, first |-> work[c].from,
                    last |-> work[c].batch.last, chan |-> ch]
            /\ Held' = Held \cup {b}
    BY <2>1
  <2>3. Own(c, b) /\ b.last \in Nat /\ b.cluster = c
    BY <1>3, <2>2, WorkType DEF DeliveryInv, SessionInv, WorkOf, Own, TryEnqueue
  <2>4. Own(b.cluster, b)'
    BY <1>0, <2>3, OwnStays
  <2> QED BY <1>1, <2>2, <2>4 DEF QueueInv
<1> QED BY <1>2, <1>3

\* Persist inserts, table by table, all that it leased.
LEMMA LeaseStep ==
  ASSUME LeaseInv, stored \subseteq stored', [RestartNext]_vars
  PROVE  LeaseInv'
<1>1. CASE worker' # "persist"
  BY <1>1 DEF LeaseInv
<1>2. CASE UNCHANGED <<worker, lease, todo>>
  BY <1>2 DEF LeaseInv, Elements
<1>3. CASE WorkerAcquire
  <2> SUFFICES ASSUME NEW b \in Elements(lease'), NEW s \in b.first .. b.last, Kind[s] # 0
               PROVE  Kind[s] \in todo'
    BY DEF LeaseInv, Elements
  <2>1. <<b.cluster, b.inst, s>> \in Observations(b)
    BY DEF Observations
  <2>2. todo' = TablesOf(Elements(lease'))
    BY <1>3 DEF WorkerAcquire
  <2>3. PICK o \in Observations(b) : o[3] = s
    BY <2>1
  <2>4. o \in UNION {Observations(x) : x \in Elements(lease')}
    OBVIOUS
  <2> QED BY <2>2, <2>3, <2>4 DEF TablesOf
<1>4. ASSUME NEW t \in todo, WorkerInsert(t) PROVE LeaseInv'
  <2>1. /\ worker = "persist" /\ lease' = lease
        /\ stored' = stored \cup RowsOf(t) /\ todo' = todo \ {t}
    BY <1>4 DEF WorkerInsert
  <2>2. ASSUME NEW b \in Elements(lease), NEW s \in b.first .. b.last, Kind[s] = t
        PROVE  <<b.cluster, b.inst, s>> \in RowsOf(t)
    <3>1. <<b.cluster, b.inst, s>> \in Observations(b)
      BY DEF Observations
    <3> QED BY <2>2, <3>1 DEF RowsOf
  <2>3. ASSUME NEW b \in Elements(lease), NEW s \in b.first .. b.last
        PROVE  Kind[s] = 0 \/ Kind[s] \in todo' \/ <<b.cluster, b.inst, s>> \in stored'
    BY <2>1, <2>2 DEF LeaseInv
  <2>4. Elements(lease') = Elements(lease)
    BY <2>1
  <2> QED BY <2>3, <2>4 DEF LeaseInv, Elements
<1>5. ASSUME NEW t \in todo, WorkerInsertFails(t) PROVE worker' # "persist"
  BY <1>5 DEF WorkerInsertFails
<1>6. CASE WorkerSleep \/ WorkerWake \/ WorkerBackoffEnds \/ WorkerCommit
           \/ WorkerCommitEnds \/ ServerCrash
  BY <1>1, <1>6
  DEF WorkerSleep, WorkerWake, WorkerBackoffEnds, WorkerCommit, WorkerCommitEnds,
      ServerCrash
<1>7. ASSUME NEW c \in Clusters, Publish(c) \/ ClientNext(c) \/ Break(c) \/ AgentRestart(c)
      PROVE  UNCHANGED <<worker, lease, todo>>
  BY <1>7
  DEF ClientNext, Publish, Connect, Handshake, SendBatch, ReceiveFlowControl,
      ReceiveAck, Disconnect, Break, AgentRestart
<1>8. ASSUME NEW c \in Clusters, SessionNext(c) PROVE UNCHANGED <<worker, lease, todo>>
  BY <1>8
  DEF SessionNext, RejectBatch, AckDuplicate, AckGap, Archive, ArchiveFails,
      TryEnqueue, Enqueue, RefuseFull, SaveCheckpoint, SaveFails, AckPersisted, Release
<1>9. CASE UNCHANGED vars
  BY <1>2, <1>9 DEF vars
<1> QED
  BY <1>1, <1>2, <1>3, <1>4, <1>5, <1>6, <1>7, <1>8, <1>9
  DEF RestartNext, Next, PersistNext, WorkerNext
-----------------------------------------------------------------------------
(* Frames: every acknowledgement carries a watermark that is durable. *)

\* A reply of one frame.
LEMMA ElementsSingle ==
  ASSUME NEW e
  PROVE  Elements(<<e>>) = {e}
BY DEF Elements

\* A session that sends good frames keeps FrameInv.
LEMMA ReplyStep ==
  ASSUME NEW c \in Clusters, NEW frames \in Seq(Frame),
         \A frame \in Elements(frames) : GoodFrame(c, frame)',
         TypeOK, Monotone, FrameInv, Reply(c, frames)
  PROVE  FrameInv'
<1> SUFFICES ASSUME NEW d \in Clusters, NEW frame \in Elements(toAgent'[d])
             PROVE  GoodFrame(d, frame)'
  BY DEF FrameInv
<1>1. CASE frame \in Elements(toAgent[d])
  BY <1>1, GoodFrameStays DEF FrameInv
<1>2. CASE d = c /\ toAgent'[c] = toAgent[c] \o frames
  <2>1. toAgent[c] \in Seq(Frame)
    BY DEF TypeOK, StreamTypes
  <2>2. frame \in Elements(toAgent[c]) \cup Elements(frames)
    BY SMTT(60), <1>2, <2>1, ElementsConcat
  <2> QED BY <1>1, <1>2, <2>2
<1>3. toAgent'[d] = toAgent[d] \/ (d = c /\ toAgent'[c] = toAgent[c] \o frames)
  BY DEF Reply, TypeOK, StreamTypes
<1> QED BY <1>1, <1>2, <1>3

\* An acknowledgement with a durable boundary and true rejections is good.
LEMMA AckGood ==
  ASSUME NEW c \in Clusters, NEW b \in Interval, NEW p \in Nat, NEW R \in SUBSET Nat,
         Monotone, \A s \in 1 .. MaxSequence : s <= p => Durable(c, s)
  PROVE  /\ Ack(b, p, R, {}) \in Frame
         /\ GoodFrame(c, Ack(b, p, R, {}))'
<1>1. \A s \in 1 .. MaxSequence : s <= p => Durable(c, s)'
  BY DurableStays
<1> QED BY <1>1, FrameTypes DEF GoodFrame, Ack

\* FlowControl acknowledges nothing.
LEMMA FlowControlGood ==
  ASSUME NEW c \in Clusters
  PROVE  GoodFrame(c, FlowControl)'
BY KindAssumption DEF GoodFrame, FlowControl

\* The optional FlowControl before an acknowledgement is good.
LEMMA SlowFrames ==
  ASSUME NEW slow \in {<<>>, <<FlowControl>>}
  PROVE  slow \in Seq(Frame) /\ Elements(slow) \subseteq {FlowControl}
<1>1. <<>> \in Seq(Frame) /\ Elements(<<>>) \subseteq {FlowControl}
  BY ElementsEmpty
<1>2. <<FlowControl>> \in Seq(Frame)
  BY FrameTypes
<1>3. Elements(<<FlowControl>>) \subseteq {FlowControl}
  BY ElementsSingle
<1>4. CASE slow = <<>>
  BY ONLY <1>1, <1>4, Zenon
<1>5. CASE slow = <<FlowControl>>
  BY ONLY <1>2, <1>3, <1>5, Zenon
<1> QED BY <1>4, <1>5, Zenon

\* Every frame that Connect or handleBatch sends is good.
LEMMA FrameStep ==
  ASSUME TypeOK, DeliveryInv, [Next]_vars
  PROVE  FrameInv'
<1>0. Monotone /\ FrameInv
  BY StepMonotone DEF DeliveryInv
<1> USE <1>0
<1>1. ASSUME NEW c \in Clusters, NEW b \in Interval, NEW p \in Nat, p = persisted[c],
             NEW R \in SUBSET Nat
      PROVE  /\ Ack(b, p, R, {}) \in Frame
             /\ GoodFrame(c, Ack(b, p, R, {}))'
  <2>1. \A s \in 1 .. MaxSequence : s <= p => Durable(c, s)
    BY <1>1 DEF DeliveryInv, WatermarkIsDurable
  <2> QED BY <2>1, AckGood
<1>2. ASSUME NEW c \in Clusters, NEW ack \in Frame, NEW slow,
             slow \in {<<>>, <<FlowControl>>}, GoodFrame(c, ack)', Reply(c, slow \o <<ack>>)
      PROVE  FrameInv'
  <2>1. slow \in Seq(Frame) /\ Elements(slow) \subseteq {FlowControl}
    BY <1>2, SlowFrames
  <2>2. PICK answer \in Seq(Frame) : answer = <<ack>> /\ Elements(answer) = {ack}
    <3>1. <<ack>> \in Seq(Frame) /\ Elements(<<ack>>) = {ack}
      BY ElementsSingle
    <3> QED BY ONLY <3>1, Zenon
  <2>3. /\ slow \o answer \in Seq(Frame)
        /\ Elements(slow \o answer) = Elements(slow) \cup Elements(answer)
    BY <2>1, ElementsConcat
  <2>4. GoodFrame(c, FlowControl)'
    BY FlowControlGood
  <2>5. \A frame \in Elements(slow \o answer) : GoodFrame(c, frame)'
    <3> SUFFICES ASSUME NEW frame \in Elements(slow \o answer) PROVE GoodFrame(c, frame)'
      OBVIOUS
    <3>1. CASE frame = ack
      BY <1>2, <3>1
    <3>2. CASE frame = FlowControl
      BY <2>4, <3>2
    <3> QED BY <2>1, <2>2, <2>3, <3>1, <3>2, Zenon
  <2>6. Reply(c, slow \o answer)
    BY <1>2, <2>2
  <2> QED BY <2>3, <2>5, <2>6, ReplyStep
<1>3. ASSUME NEW c \in Clusters, NEW ack \in Frame, GoodFrame(c, ack)', Reply(c, <<ack>>)
      PROVE  FrameInv'
  <2>1. <<ack>> \in Seq(Frame) /\ Elements(<<ack>>) = {ack}
    BY ElementsSingle
  <2> QED BY <1>3, <2>1, ReplyStep
<1>4. CASE UNCHANGED toAgent
  BY <1>4, GoodFrameStays DEF FrameInv
<1>5. ASSUME NEW c \in Clusters, toAgent' = [toAgent EXCEPT ![c] = Tail(@)], toAgent[c] # <<>>
      PROVE  FrameInv'
  <2>1. toAgent[c] \in Seq(Frame)
    BY DEF TypeOK, StreamTypes
  <2>2. \A d \in Clusters : Elements(toAgent'[d]) \subseteq Elements(toAgent[d])
    BY <1>5, <2>1, ElementsTail DEF TypeOK, StreamTypes
  <2> QED BY <2>2, GoodFrameStays DEF FrameInv
<1>6. ASSUME NEW c \in Clusters, Handshake(c) \/ ReceiveFlowControl(c) \/ ReceiveAck(c)
      PROVE  FrameInv'
  BY <1>5, <1>6 DEF Handshake, ReceiveFlowControl, ReceiveAck
<1>7. ASSUME NEW c \in Clusters, Disconnect(c) PROVE FrameInv'
  <2>1. \A d \in Clusters : Elements(toAgent'[d]) \subseteq Elements(toAgent[d])
    BY <1>7, ElementsEmpty DEF Disconnect, TypeOK, StreamTypes
  <2> QED BY <2>1, GoodFrameStays DEF FrameInv
<1>8. ASSUME NEW c \in Clusters, Connect(c) PROVE FrameInv'
  <2>1. PICK p : p = persisted'[c]
    OBVIOUS
  <2>2. p = persisted[c] \/ p = checkpoint[c]
    BY <1>8, <2>1 DEF Connect, TypeOK, ServerTypes
  <2>3. \A s \in 1 .. MaxSequence : s <= p => Durable(c, s)'
    BY <2>2, DurableStays DEF DeliveryInv, WatermarkIsDurable
  <2>4. GoodFrame(c, Hello(p))'
    BY <2>3 DEF GoodFrame, Hello
  <2>5. toAgent' = [toAgent EXCEPT ![c] = <<Hello(p)>>]
    BY <1>8, <2>1 DEF Connect
  <2>6. ASSUME NEW d \in Clusters, NEW frame \in Elements(toAgent'[d])
        PROVE  GoodFrame(d, frame)'
    <3>1. CASE d = c
      <4>1. frame = Hello(p)
        BY <2>5, <2>6, <3>1, ElementsSingle DEF TypeOK, StreamTypes
      <4> QED BY <2>4, <3>1, <4>1
    <3>2. CASE d # c
      BY <2>5, <2>6, <3>2, GoodFrameStays DEF FrameInv, TypeOK, StreamTypes
    <3> QED BY <3>1, <3>2
  <2> QED BY <2>6 DEF FrameInv
<1>9. ASSUME NEW c \in Clusters, Publish(c) \/ SendBatch(c) \/ Break(c)
      PROVE  UNCHANGED toAgent
  BY <1>9 DEF Publish, SendBatch, Break
<1>10. ASSUME NEW c \in Clusters, RejectBatch(c) PROVE FrameInv'
  <2>1. PICK b \in Elements(toServer[c]) :
               /\ Receives(c, b)
               /\ Reply(c, <<Ack(b, persisted[c], {}, b.first .. b.last)>>)
               /\ rejected' = rejected \cup {<<c, b.inst, s>> : s \in b.first .. b.last}
    BY <1>10 DEF RejectBatch
  <2>2. b \in Interval /\ b.inst = inst[c]
    BY <2>1, ReceivedType DEF TypeOK, DeliveryInv, SentInv, Own
  <2>3. PICK p \in Nat : p = persisted[c]
    BY DEF TypeOK, ServerTypes
  <2>4. \A s \in 1 .. MaxSequence : s <= p => Durable(c, s)'
    BY <2>3, DurableStays DEF DeliveryInv, WatermarkIsDurable
  <2>5. \A s \in b.first .. b.last : <<c, inst'[c], s>> \in rejected'
    BY <2>1, <2>2 DEF Monotone
  <2>6. GoodFrame(c, Ack(b, p, {}, b.first .. b.last))'
    BY <2>4, <2>5 DEF GoodFrame, Ack
  <2>7. b.first .. b.last \subseteq Nat
    BY SMTT(60), <2>2, KindAssumption DEF Interval
  <2>8. Ack(b, p, {}, b.first .. b.last) \in Frame
    BY <2>2, <2>7, FrameTypes
  <2> QED BY <1>3, <2>1, <2>3, <2>6, <2>8
<1>11. ASSUME NEW c \in Clusters, AckDuplicate(c) PROVE FrameInv'
  <2>1. PICK b : Receives(c, b) /\ Reply(c, <<Ack(b, persisted[c], {}, {})>>)
    BY <1>11 DEF AckDuplicate
  <2>2. b \in Interval
    BY <2>1, ReceivedType DEF TypeOK
  <2>3. PICK p \in Nat : p = persisted[c]
    BY DEF TypeOK, ServerTypes
  <2> QED BY <1>1, <1>3, <2>1, <2>2, <2>3
<1>12. ASSUME NEW c \in Clusters, AckGap(c) PROVE FrameInv'
  <2>1. PICK b : /\ Receives(c, b)
                 /\ Reply(c, <<Ack(b, persisted[c], persisted[c] + 1 .. b.first - 1, {})>>)
    BY <1>12 DEF AckGap
  <2>2. b \in Interval
    BY <2>1, ReceivedType DEF TypeOK
  <2>3. PICK p \in Nat : p = persisted[c]
    BY DEF TypeOK, ServerTypes
  <2>4. p + 1 .. b.first - 1 \in SUBSET Nat
    BY SMTT(60), <2>2, SuffixType DEF TypeOK
  <2>5. /\ Ack(b, p, p + 1 .. b.first - 1, {}) \in Frame
        /\ GoodFrame(c, Ack(b, p, p + 1 .. b.first - 1, {}))'
    BY <1>1, <2>2, <2>3, <2>4
  <2> QED BY <1>3, <2>1, <2>3, <2>5
<1>13. ASSUME NEW c \in Clusters, Archive(c) PROVE FrameInv'
  <2>1. Reply(c, IF Slowed THEN <<FlowControl>> ELSE <<>>)
    BY <1>13 DEF Archive
  <2>2. PICK frames : /\ frames \in {<<>>, <<FlowControl>>}
                      /\ Reply(c, frames)
    BY <2>1
  <2>3. frames \in Seq(Frame) /\ Elements(frames) \subseteq {FlowControl}
    BY <2>2, SlowFrames
  <2>4. GoodFrame(c, FlowControl)'
    BY FlowControlGood
  <2>5. \A frame \in Elements(frames) : GoodFrame(c, frame)'
    <3> SUFFICES ASSUME NEW frame \in Elements(frames) PROVE GoodFrame(c, frame)'
      OBVIOUS
    <3> QED BY <2>3, <2>4
  <2> QED BY <2>2, <2>3, <2>5, ReplyStep
<1>14. ASSUME NEW c \in Clusters, ArchiveFails(c) PROVE FrameInv'
  <2>1. PICK b : /\ Receives(c, b)
                 /\ Reply(c, (IF Slowed THEN <<FlowControl>> ELSE <<>>)
                       \o <<Ack(b, persisted[c], SuffixStart(c, b) .. b.last, {})>>)
    BY <1>14 DEF ArchiveFails, Accepts
  <2>2. b \in Interval
    BY <2>1, ReceivedType DEF TypeOK
  <2>3. PICK p \in Nat : p = persisted[c]
    BY DEF TypeOK, ServerTypes
  <2>4. PICK R \in SUBSET Nat : R = SuffixStart(c, b) .. b.last
    BY SMTT(60), <2>2, SuffixType DEF TypeOK
  <2>5. PICK slow : /\ slow \in {<<>>, <<FlowControl>>}
                    /\ Reply(c, slow \o <<Ack(b, p, R, {})>>)
    BY <2>1, <2>3, <2>4
  <2>6. Ack(b, p, R, {}) \in Frame /\ GoodFrame(c, Ack(b, p, R, {}))'
    BY <1>1, <2>2, <2>3
  <2> QED BY <1>2, <2>5, <2>6
<1>15. ASSUME NEW c \in Clusters, RefuseFull(c) \/ SaveFails(c) PROVE FrameInv'
  <2>1. PICK b \in Interval : b = work[c].batch
    BY DEF TypeOK, ServerTypes, Work
  <2>2. PICK p \in Nat : p = persisted[c]
    BY DEF TypeOK, ServerTypes
  <2>3. PICK R \in SUBSET Nat : R = work[c].from .. work[c].batch.last
    BY SMTT(60), KindAssumption DEF TypeOK, ServerTypes, Work, Interval
  <2>4. RetryAck(c) = Ack(b, p, R, {})
    BY <2>1, <2>2, <2>3 DEF RetryAck
  <2>5. Ack(b, p, R, {}) \in Frame /\ GoodFrame(c, Ack(b, p, R, {}))'
    BY <1>1, <2>2
  <2>6. CASE RefuseFull(c)
    <3>1. PICK slow : /\ slow \in {<<>>, <<FlowControl>>}
                      /\ Reply(c, slow \o <<Ack(b, p, R, {})>>)
      BY <2>4, <2>6 DEF RefuseFull
    <3> QED BY <1>2, <2>5, <3>1
  <2>7. CASE SaveFails(c)
    BY <1>3, <2>4, <2>5, <2>7 DEF SaveFails
  <2> QED BY <1>15, <2>6, <2>7
<1>16. ASSUME NEW c \in Clusters, AckPersisted(c) PROVE FrameInv'
  <2>1. PICK b \in Interval : b = work[c].batch
    BY DEF TypeOK, ServerTypes, Work
  <2>2. b.last \in Nat
    BY SMTT(60), KindAssumption DEF Interval
  <2>3. \A s \in 1 .. MaxSequence : s <= b.last => Durable(c, s)
    <3>1. handler[c] = "saved" /\ WorkOf(c)
      BY <1>16 DEF AckPersisted, DeliveryInv, SessionInv
    <3>2. \A s \in 1 .. b.last : Durable(c, s)
      BY <2>1, <3>1 DEF WorkOf
    <3> QED BY SMTT(60), <2>2, <3>2
  <2>4. Ack(b, b.last, {}, {}) \in Frame /\ GoodFrame(c, Ack(b, b.last, {}, {}))'
    BY <2>2, <2>3, AckGood
  <2> QED BY <1>3, <1>16, <2>1, <2>4 DEF AckPersisted
<1>17. ASSUME NEW c \in Clusters, TryEnqueue(c) \/ SaveCheckpoint(c) \/ Release(c)
       PROVE  UNCHANGED toAgent
  BY <1>17 DEF TryEnqueue, SaveCheckpoint, Release
<1>18. CASE PersistNext \/ ServerCrash \/ UNCHANGED vars
  BY <1>4, <1>18 DEF PersistNext, ServerCrash, vars
<1> QED
  BY <1>4, <1>6, <1>7, <1>8, <1>9, <1>10, <1>11, <1>12, <1>13, <1>14, <1>15, <1>16,
     <1>17, <1>18
  DEF Next, ClientNext, SessionNext
-----------------------------------------------------------------------------
(* The session: what it has received and what handleBatch works on. *)

\* Only the running agent's batches are on their way to the server.
LEMMA SentStep ==
  ASSUME TypeOK, TypeOK', DeliveryInv, [Next]_vars
  PROVE  SentInv'
<1>0. Monotone /\ SentInv
  BY StepMonotone DEF DeliveryInv
<1> USE <1>0
<1>1. ASSUME NEW d \in Clusters, NEW b \in Elements(toServer[d]) PROVE Own(d, b)'
  <2>1. b \in Interval
    BY ElementsType DEF TypeOK, StreamTypes
  <2>2. b.last \in Nat
    BY SMTT(60), <2>1, KindAssumption DEF Interval
  <2> QED BY <2>2, OwnStays DEF SentInv
<1>2. ASSUME \A d \in Clusters : Elements(toServer'[d]) \subseteq Elements(toServer[d])
      PROVE  SentInv'
  BY <1>1, <1>2 DEF SentInv
<1>3. ASSUME NEW c \in Clusters, SendBatch(c) PROVE SentInv'
  <2>1. PICK f \in entries[c], l \in entries[c] :
          awaiting' = [awaiting EXCEPT ![c] = [inst |-> inst[c], first |-> f, last |-> l]]
    BY <1>3 DEF SendBatch
  <2>2. l \in 1 .. next[c] - 1
    BY DEF DeliveryInv, BufferInv
  <2>3. PICK b \in Interval : b = awaiting'[c]
    BY DEF TypeOK, AgentTypes
  <2>4. Own(c, b)'
    <3>1. b = [inst |-> inst[c], first |-> f, last |-> l] /\ UNCHANGED <<inst, next>>
      BY <1>3, <2>1, <2>3 DEF SendBatch, TypeOK, AgentTypes
    <3>2. b.inst = inst[c] /\ b.last = l
      BY <3>1
    <3>3. next[c] \in Nat
      BY SMTT(60), KindAssumption DEF TypeOK, AgentTypes
    <3>4. l < next[c]
      BY <2>2, <3>3
    <3> QED BY <3>1, <3>2, <3>4 DEF Own
  <2>5. \A d \in Clusters :
          Elements(toServer'[d]) \subseteq Elements(toServer[d]) \cup (IF d = c THEN {b} ELSE {})
    <3>1. toServer[c] \in Seq(Interval) /\ toServer \in [Clusters -> Seq(Interval)]
      BY DEF TypeOK, StreamTypes
    <3>2. Elements(Append(toServer[c], b)) = Elements(toServer[c]) \cup {b}
      BY SMTT(60), <3>1, ElementsAppend
    <3>3. toServer' = toServer \/ toServer' = [toServer EXCEPT ![c] = Append(@, b)]
      BY <1>3, <2>3 DEF SendBatch
    <3> QED BY <3>1, <3>2, <3>3
  <2>6. ASSUME NEW d \in Clusters, NEW x \in Elements(toServer'[d]) PROVE Own(d, x)'
    <3>1. CASE x \in Elements(toServer[d])
      BY <1>1, <3>1
    <3>2. CASE d = c /\ x = b
      BY <2>4, <3>2
    <3> QED BY <2>5, <3>1, <3>2
  <2> QED BY <2>6 DEF SentInv
<1>4. ASSUME NEW c \in Clusters, NEW b, Receives(c, b) PROVE SentInv'
  BY <1>2, <1>4, ElementsTail DEF Receives, TypeOK, StreamTypes
<1>5. ASSUME NEW c \in Clusters,
             RejectBatch(c) \/ AckDuplicate(c) \/ AckGap(c) \/ Archive(c) \/ ArchiveFails(c)
      PROVE  SentInv'
  BY <1>4, <1>5 DEF RejectBatch, AckDuplicate, AckGap, Archive, ArchiveFails, Accepts
<1>6. ASSUME NEW c \in Clusters, Connect(c) \/ Release(c) PROVE SentInv'
  BY <1>2, <1>6, ElementsEmpty DEF Connect, Release, TypeOK, StreamTypes
<1>7. CASE UNCHANGED toServer
  BY <1>2, <1>7
<1>8. ASSUME NEW c \in Clusters,
             \/ Publish(c) \/ Handshake(c) \/ ReceiveFlowControl(c) \/ ReceiveAck(c)
             \/ Disconnect(c) \/ Break(c)
      PROVE  UNCHANGED toServer
  BY <1>8 DEF Publish, Handshake, ReceiveFlowControl, ReceiveAck, Disconnect, Break
<1>9. ASSUME NEW c \in Clusters,
             \/ TryEnqueue(c) \/ RefuseFull(c) \/ SaveCheckpoint(c) \/ SaveFails(c)
             \/ AckPersisted(c)
      PROVE  UNCHANGED toServer
  BY <1>9 DEF TryEnqueue, RefuseFull, SaveCheckpoint, SaveFails, AckPersisted
<1>10. CASE ServerCrash
  BY <1>2, <1>10, ElementsEmpty DEF ServerCrash
<1>11. CASE PersistNext \/ UNCHANGED vars
  BY <1>7, <1>11 DEF PersistNext, vars
<1> QED
  BY <1>3, <1>5, <1>6, <1>7, <1>8, <1>9, <1>10, <1>11 DEF Next, ClientNext, SessionNext

\* handleBatch works on an archived suffix of its own agent throughout.
LEMMA SessionStep ==
  ASSUME TypeOK, TypeOK', DeliveryInv, [Next]_vars
  PROVE  SessionInv'
<1>0. Monotone /\ SessionInv
  BY StepMonotone DEF DeliveryInv
<1> USE <1>0
<1>1. ASSUME NEW d \in Clusters, handler'[d] = "recv" PROVE WorkOf(d)'
  BY <1>1 DEF WorkOf
<1>2. ASSUME NEW d \in Clusters, UNCHANGED <<active[d], persisted[d], work[d]>>,
             handler[d] # "recv", handler'[d] \in {handler[d], "waiting"}
      PROVE  WorkOf(d)'
  <2>1. work[d].batch.last \in Nat
    BY WorkType
  <2>2. PICK b : b = work[d].batch
    OBVIOUS
  <2>3. Own(d, b)'
    BY <1>2, <2>1, <2>2, OwnStays DEF SessionInv, WorkOf
  <2>4. Own(d, work[d].batch)'
    BY <1>2, <2>2, <2>3 DEF Own
  <2>5. \A s : Durable(d, s) => Durable(d, s)'
    BY DurableStays
  <2>6. \A s \in work[d].from .. work[d].batch.last : Archived(d, s)'
    BY <1>2, ArchivedStays
  <2> QED BY <1>2, <2>4, <2>5, <2>6 DEF SessionInv, WorkOf
<1>3. ASSUME NEW d \in Clusters, UNCHANGED <<active[d], persisted[d], work[d], handler[d]>>
      PROVE  WorkOf(d)'
  BY <1>1, <1>2, <1>3
<1>4. ASSUME NEW c \in Clusters, Publish(c) \/ (ClientNext(c) /\ ~Connect(c)) \/ Break(c)
      PROVE  UNCHANGED <<active, persisted, work, handler>>
  BY <1>4
  DEF ClientNext, Publish, Handshake, SendBatch, ReceiveFlowControl, ReceiveAck,
      Disconnect, Break
<1>5. ASSUME NEW c \in Clusters, Connect(c), NEW d \in Clusters PROVE WorkOf(d)'
  <2>1. CASE d = c
    <3>1. handler'[c] = "recv"
      BY <1>5 DEF Connect, SessionInv, WorkOf
    <3> QED BY <1>1, <2>1, <3>1
  <2>2. CASE d # c
    BY <1>3, <1>5, <2>2 DEF Connect, TypeOK, ServerTypes
  <2> QED BY <2>1, <2>2
<1>6. ASSUME NEW c \in Clusters, RejectBatch(c) \/ AckDuplicate(c) \/ AckGap(c) \/ ArchiveFails(c)
      PROVE  UNCHANGED <<active, persisted, work, handler>>
  BY <1>6 DEF RejectBatch, AckDuplicate, AckGap, ArchiveFails
<1>7. ASSUME NEW c \in Clusters, Archive(c), NEW d \in Clusters PROVE WorkOf(d)'
  <2>1. PICK b \in Elements(toServer[c]) :
          /\ Accepts(c, b)
          /\ WriteFile([cluster |-> c, batch |-> b, from |-> SuffixStart(c, b)])
          /\ work' = [work EXCEPT ![c] = [batch |-> b, from |-> SuffixStart(c, b),
                                          slowed |-> Slowed]]
    BY <1>7 DEF Archive
  <2>2. UNCHANGED <<active, persisted>> /\ handler' = [handler EXCEPT ![c] = "archived"]
    BY <1>7 DEF Archive
  <2>3. CASE d # c
    BY <1>3, <2>1, <2>2, <2>3 DEF TypeOK, ServerTypes
  <2>4. CASE d = c
    <3>0. Receives(c, b) /\ StreamTypes /\ ServerTypes
      BY <2>1 DEF Accepts, TypeOK
    <3>1. b \in Interval /\ b.last \in Nat
      <4>1. b \in Interval
        BY <3>0, ReceivedType
      <4> QED BY <3>0, <4>1, SuffixType
    <3>2. Own(c, b)
      BY DEF DeliveryInv, SentInv
    <3>3. Own(c, b)'
      BY <3>1, <3>2, OwnStays
    <3>4. work'[c].batch = b /\ work'[c].from = SuffixStart(c, b)
      BY <2>1 DEF TypeOK, ServerTypes
    <3>5. Own(c, work[c].batch)'
      BY <3>3, <3>4 DEF Own
    <3>6. SuffixStart(c, b) <= persisted[c] + 1
      <4>1. persisted[c] \in Nat /\ b.first \in Nat
        BY <3>0, <3>1, SuffixType
      <4>2. b.first <= persisted[c] + 1
        BY <2>1 DEF Accepts
      <4> QED BY <4>1, <4>2 DEF SuffixStart
    <3>7. \A s \in SuffixStart(c, b) .. b.last : Archived(c, s)'
      <4> DEFINE file == [cluster |-> c, batch |-> b, from |-> SuffixStart(c, b)]
      <4>1. file \in archived' /\ b.inst = inst'[c]
        BY <2>1, <3>2 DEF Own, Monotone, WriteFile
      <4> QED BY <4>1 DEF Archived
    <3>8. active'[c] /\ handler'[c] = "archived"
      BY <2>1, <2>2 DEF Accepts, Receives, TypeOK, ServerTypes
    <3> QED BY <2>2, <2>4, <3>4, <3>5, <3>6, <3>7, <3>8 DEF WorkOf
  <2> QED BY <2>3, <2>4
<1>8. ASSUME NEW c \in Clusters, TryEnqueue(c), NEW d \in Clusters PROVE WorkOf(d)'
  <2>1. UNCHANGED <<active, persisted, work>> /\ handler' = [handler EXCEPT ![c] = "waiting"]
        /\ handler[c] = "archived"
    BY <1>8 DEF TryEnqueue
  <2>2. CASE d = c
    BY <1>2, <2>1, <2>2 DEF TypeOK, ServerTypes
  <2>3. CASE d # c
    BY <1>3, <2>1, <2>3 DEF TypeOK, ServerTypes
  <2> QED BY <2>2, <2>3
<1>9. ASSUME NEW c \in Clusters, SaveCheckpoint(c), NEW d \in Clusters PROVE WorkOf(d)'
  <2>1. UNCHANGED <<active, persisted, work>> /\ handler' = [handler EXCEPT ![c] = "saved"]
        /\ handler[c] = "waiting" /\ waits[c] \in closed
    BY <1>9 DEF SaveCheckpoint
  <2>2. CASE d # c
    BY <1>3, <2>1, <2>2 DEF TypeOK, ServerTypes
  <2>3. CASE d = c
    <3>1. \A s \in 1 .. work[c].batch.last : Durable(c, s)
      BY <2>1, NotifiedIsDurable
    <3>2. \A s \in 1 .. work'[c].batch.last : Durable(c, s)'
      BY <2>1, <3>1, DurableStays
    <3>3. work[c].batch.last \in Nat
      BY WorkType
    <3>4. PICK b : b = work[c].batch
      OBVIOUS
    <3>5. Own(c, b)'
      BY <2>1, <3>3, <3>4, OwnStays DEF SessionInv, WorkOf
    <3>6. Own(c, work[c].batch)'
      BY <2>1, <3>4, <3>5 DEF Own
    <3>7. \A s \in work[c].from .. work[c].batch.last : Archived(c, s)'
      BY <2>1, ArchivedStays
    <3> QED BY <2>1, <2>3, <3>2, <3>6, <3>7 DEF SessionInv, WorkOf
  <2> QED BY <2>2, <2>3
<1>10. ASSUME NEW c \in Clusters, NEW d \in Clusters,
              RefuseFull(c) \/ SaveFails(c) \/ AckPersisted(c) \/ Release(c)
       PROVE  WorkOf(d)'
  <2>1. CASE d = c
    BY <1>1, <1>10, <2>1
    DEF RefuseFull, SaveFails, AckPersisted, Release, TypeOK, ServerTypes
  <2>2. CASE d # c
    BY <1>3, <1>10, <2>2
    DEF RefuseFull, SaveFails, AckPersisted, Release, TypeOK, ServerTypes
  <2> QED BY <2>1, <2>2
<1>11. CASE ServerCrash
  BY <1>1, <1>11 DEF ServerCrash, SessionInv
<1>12. CASE PersistNext \/ UNCHANGED vars
  BY <1>3, <1>12 DEF PersistNext, vars, SessionInv
<1>13. CASE UNCHANGED <<active, persisted, work, handler>>
  BY <1>3, <1>13 DEF SessionInv
<1>14. ASSUME NEW c \in Clusters, SessionNext(c) PROVE SessionInv'
  BY <1>6, <1>7, <1>8, <1>9, <1>10, <1>13, <1>14 DEF SessionNext, SessionInv
<1>15. ASSUME NEW c \in Clusters, Publish(c) \/ ClientNext(c) \/ Break(c) PROVE SessionInv'
  BY <1>4, <1>5, <1>13, <1>15 DEF SessionInv
<1> QED BY <1>11, <1>12, <1>14, <1>15 DEF Next
-----------------------------------------------------------------------------
(* The notification of the waiting handler, and what is stored or rejected. *)

\* Persist without an error has stored the whole lease when Commit begins.
LEMMA LeasedIsDurable ==
  ASSUME TypeOK, DeliveryInv, WorkerCommit, NEW b \in Elements(lease),
         NEW s \in b.first .. b.last
  PROVE  Durable(b.cluster, s)
<1>1. worker = "persist" /\ todo = {}
  BY DEF WorkerCommit
<1>2. Kind[s] = 0 \/ <<b.cluster, b.inst, s>> \in stored
  BY <1>1 DEF DeliveryInv, LeaseInv
<1>3. b.inst = inst[b.cluster]
  BY DEF DeliveryInv, QueueInv, Held, Own
<1> QED BY <1>2, <1>3 DEF Durable

\* Persisted() is closed only when its batch is in ClickHouse.
LEMMA NotifyStep ==
  ASSUME TypeOK, DeliveryInv, [Next]_vars
  PROVE  NotifyInv'
<1>0. Monotone /\ NotifyInv
  BY StepMonotone DEF DeliveryInv
<1> USE <1>0
<1>1. ASSUME NEW d \in Clusters, handler'[d] # "waiting" PROVE NotifyOf(d)'
  BY <1>1 DEF NotifyOf
<1>2. ASSUME NEW d \in Clusters, UNCHANGED <<handler[d], work[d], waits[d]>>,
             Held' \subseteq Held, closed' \subseteq closed
      PROVE  NotifyOf(d)'
  <2>1. \A s : Durable(d, s) => Durable(d, s)'
    BY DurableStays
  <2>2. NotifyOf(d)
    BY DEF NotifyInv
  <2>3. CASE handler[d] = "waiting"
    <3>1. \A b \in Held' : b.chan = waits'[d] => /\ b.cluster = d
                                                /\ b.first = work'[d].from
                                                /\ b.last = work'[d].batch.last
      BY <1>2, <2>2, <2>3 DEF NotifyOf
    <3>2. waits'[d] \in closed' =>
            \A s \in work'[d].from .. work'[d].batch.last : Durable(d, s)'
      BY <1>2, <2>1, <2>2, <2>3 DEF NotifyOf
    <3> QED BY <3>1, <3>2 DEF NotifyOf
  <2> QED BY <1>1, <1>2, <2>3
<1>3. CASE WorkerCommit /\ PersistNext
  <2> SUFFICES ASSUME NEW d \in Clusters PROVE NotifyOf(d)'
    BY DEF NotifyInv
  <2>1. UNCHANGED <<handler, work, waits>> /\ UNCHANGED <<items, lease, stored>>
    BY <1>3 DEF PersistNext, WorkerCommit, CloseLeased
  <2>2. closed' = closed \cup {b.chan : b \in Elements(lease)}
    BY <1>3 DEF WorkerCommit, CloseLeased
  <2>3. Held' = Held
    BY <2>1 DEF Held, Elements
  <2>4. ASSUME handler[d] = "waiting", waits[d] \in closed',
               NEW s \in work[d].from .. work[d].batch.last
        PROVE  Durable(d, s)'
    <3>1. CASE waits[d] \in closed
      BY <2>4, <3>1, DurableStays DEF NotifyInv, NotifyOf
    <3>2. CASE \E b \in Elements(lease) : waits[d] = b.chan
      <4>1. PICK b \in Elements(lease) : waits[d] = b.chan
        BY <3>2
      <4>2. b.cluster = d /\ s \in b.first .. b.last
        BY <2>4, <4>1 DEF NotifyInv, NotifyOf, Held
      <4>3. Durable(d, s)
        BY <1>3, <4>2, LeasedIsDurable
      <4> QED BY <4>3, DurableStays
    <3> QED BY <2>2, <2>4, <3>1, <3>2
  <2> QED BY <2>1, <2>3, <2>4 DEF NotifyInv, NotifyOf
<1>4. ASSUME NEW c \in Clusters, TryEnqueue(c), NEW d \in Clusters PROVE NotifyOf(d)'
  <2>1. PICK ch \in FreshChans : \E b \in Batch :
            /\ b = [cluster |-> c, inst |-> work[c].batch.inst, first |-> work[c].from,
                    last |-> work[c].batch.last, chan |-> ch]
            /\ Held' = Held \cup {b}
            /\ closed' = closed \ {ch}
            /\ waits' = [waits EXCEPT ![c] = ch]
    BY <1>4, EnqueuedBatch
  <2>2. PICK b \in Batch :
            /\ b = [cluster |-> c, inst |-> work[c].batch.inst, first |-> work[c].from,
                    last |-> work[c].batch.last, chan |-> ch]
            /\ Held' = Held \cup {b}
            /\ closed' = closed \ {ch}
            /\ waits' = [waits EXCEPT ![c] = ch]
    BY <2>1
  <2>3. /\ b.cluster = c /\ b.first = work[c].from /\ b.last = work[c].batch.last
        /\ b.chan = ch
    BY <2>2
  <2>4. UNCHANGED <<work, stored>> /\ handler' = [handler EXCEPT ![c] = "waiting"]
    BY <1>4 DEF TryEnqueue
  <2>5. CASE d = c
    <3>1. waits'[c] = ch
      BY <2>2 DEF TypeOK, ServerTypes
    <3>2. \A x \in Held : x.chan # ch
      BY DEF FreshChans, QueuedChans, Held
    <3>3. \A x \in Held' : x.chan = waits'[c] => x = b
      BY <2>2, <3>1, <3>2
    <3>4. waits'[c] \notin closed'
      BY <2>2, <3>1
    <3> QED BY <2>3, <2>4, <2>5, <3>3, <3>4 DEF NotifyOf
  <2>6. CASE d # c
    <3>1. waits'[d] = waits[d] /\ waits[d] # ch /\ handler'[d] = handler[d]
      BY <2>2, <2>4, <2>6 DEF TypeOK, ServerTypes, FreshChans
    <3>2. \A s : Durable(d, s) => Durable(d, s)'
      BY DurableStays
    <3>3. NotifyOf(d) /\ work'[d] = work[d]
      BY <2>4 DEF NotifyInv
    <3>4. CASE handler[d] = "waiting"
      <4>1. \A x \in Held' : x.chan = waits'[d] => /\ x.cluster = d
                                                  /\ x.first = work'[d].from
                                                  /\ x.last = work'[d].batch.last
        BY <2>2, <2>3, <3>1, <3>3, <3>4 DEF NotifyOf
      <4>2. waits'[d] \in closed' =>
              \A s \in work'[d].from .. work'[d].batch.last : Durable(d, s)'
        <5>1. waits'[d] \in closed' => waits[d] \in closed
          BY <2>2, <3>1
        <5>2. waits[d] \in closed =>
                \A s \in work'[d].from .. work'[d].batch.last : Durable(d, s)
          BY <3>3, <3>4 DEF NotifyOf
        <5> QED BY <3>2, <5>1, <5>2
      <4> QED BY <4>1, <4>2 DEF NotifyOf
    <3> QED BY <1>1, <3>1, <3>4
  <2> QED BY <2>5, <2>6
<1>5. CASE /\ closed' \subseteq closed
           /\ \A d \in Clusters : \/ handler'[d] # "waiting"
                                  \/ UNCHANGED <<handler[d], work[d], waits[d]>>
  <2>1. \A c \in Clusters : ~TryEnqueue(c)
    BY <1>5 DEF TryEnqueue, TypeOK, ServerTypes
  <2>2. Held' \subseteq Held
    BY <2>1, HeldStep DEF RestartNext
  <2> QED BY <1>1, <1>2, <1>5, <2>2 DEF NotifyInv
<1>6. ASSUME NEW c \in Clusters, Publish(c) \/ ClientNext(c) \/ Break(c)
      PROVE  UNCHANGED <<closed, handler, work, waits>>
  BY <1>6
  DEF ClientNext, Publish, Connect, Handshake, SendBatch, ReceiveFlowControl,
      ReceiveAck, Disconnect, Break
<1>7. ASSUME NEW c \in Clusters, RejectBatch(c) \/ AckDuplicate(c) \/ AckGap(c) \/ ArchiveFails(c)
      PROVE  UNCHANGED <<closed, handler, work, waits>>
  BY <1>7 DEF RejectBatch, AckDuplicate, AckGap, ArchiveFails
<1>8. ASSUME NEW c \in Clusters,
             \/ Archive(c) \/ RefuseFull(c) \/ SaveCheckpoint(c) \/ SaveFails(c)
             \/ AckPersisted(c) \/ Release(c)
      PROVE  /\ closed' = closed
             /\ \A d \in Clusters : \/ handler'[d] # "waiting"
                                    \/ UNCHANGED <<handler[d], work[d], waits[d]>>
  BY <1>8
  DEF Archive, RefuseFull, SaveCheckpoint, SaveFails, AckPersisted, Release, TypeOK,
      ServerTypes
<1>9. CASE PersistNext /\ ~WorkerCommit
  <2>1. closed' = closed
    BY <1>9
    DEF PersistNext, WorkerNext, WorkerAcquire, Acquire, WorkerSleep, WorkerWake,
        TakeReady, WorkerInsert, WorkerInsertFails, Retry, WorkerBackoffEnds,
        WorkerCommitEnds, ReleaseLeased
  <2>2. UNCHANGED <<handler, work, waits>>
    BY <1>9 DEF PersistNext
  <2> QED BY <1>5, <2>1, <2>2
<1>10. CASE ServerCrash
  BY <1>1, <1>10 DEF ServerCrash, NotifyInv
<1>11. CASE UNCHANGED vars
  BY <1>5, <1>11 DEF vars
<1> QED
  BY <1>3, <1>4, <1>5, <1>6, <1>7, <1>8, <1>9, <1>10, <1>11
  DEF Next, SessionNext, NotifyInv

\* Only published observations are stored or rejected.
LEMMA IntegrityStep ==
  ASSUME TypeOK, TypeOK', DeliveryInv, [Next]_vars
  PROVE  IntegrityInv'
<1>0. Monotone /\ IntegrityInv
  BY StepMonotone DEF DeliveryInv
<1>1. ASSUME NEW o \in stored \cup rejected PROVE o[2] = inst'[o[1]] /\ o[3] < next'[o[1]]
  <2>1. o[1] \in Clusters /\ o[3] \in Nat
    BY SMTT(60), KindAssumption DEF TypeOK, WorkerTypes, HistoryTypes
  <2>2. o[2] = inst[o[1]] /\ o[3] < next[o[1]]
    BY <1>0 DEF IntegrityInv
  <2> QED BY SMTT(60), <1>0, <2>1, <2>2 DEF Monotone, TypeOK, AgentTypes
<1>2. CASE UNCHANGED <<stored, rejected>>
  BY <1>1, <1>2 DEF IntegrityInv
<1>3. ASSUME NEW t \in todo, NEW o \in RowsOf(t)
      PROVE  o[2] = inst[o[1]] /\ o[3] < next[o[1]] /\ o[1] \in Clusters /\ o[3] \in Nat
  <2>1. PICK b \in Elements(lease) : o \in Observations(b)
    BY DEF RowsOf
  <2>2. PICK s \in b.first .. b.last : o = <<b.cluster, b.inst, s>>
    BY <2>1 DEF Observations
  <2>3. Own(b.cluster, b) /\ b.cluster \in Clusters /\ b.last \in Nat /\ b.first \in Nat
    BY HeldType DEF DeliveryInv, QueueInv, Held
  <2>4. s \in Nat /\ s <= b.last /\ next[b.cluster] \in Nat
    BY SMTT(60), <2>2, <2>3 DEF TypeOK, AgentTypes
  <2> QED BY <2>2, <2>3, <2>4 DEF Own
<1>4. ASSUME NEW t \in todo, PersistNext, WorkerInsert(t) \/ WorkerInsertFails(t)
      PROVE  IntegrityInv'
  <2>1. UNCHANGED <<inst, next, rejected>> /\ stored' \subseteq stored \cup RowsOf(t)
    BY <1>4 DEF PersistNext, WorkerInsert, WorkerInsertFails
  <2> QED BY <1>1, <1>3, <2>1 DEF IntegrityInv
<1>5. ASSUME NEW c \in Clusters, RejectBatch(c) PROVE IntegrityInv'
  <2>1. PICK b \in Elements(toServer[c]) :
               /\ Receives(c, b)
               /\ rejected' = rejected \cup {<<c, b.inst, s>> : s \in b.first .. b.last}
               /\ UNCHANGED <<inst, next, stored>>
    BY <1>5 DEF RejectBatch
  <2>2. Own(c, b)
    BY DEF DeliveryInv, SentInv
  <2>3. b \in Interval /\ b.first \in Nat /\ b.last \in Nat
    BY <2>1, ReceivedType, SuffixType DEF TypeOK
  <2>4. next[c] \in Nat
    BY SMTT(60) DEF TypeOK, AgentTypes
  <2>5. ASSUME NEW s \in b.first .. b.last PROVE b.inst = inst[c] /\ s < next[c]
    BY <2>2, <2>3, <2>4 DEF Own
  <2>6. ASSUME NEW o \in stored' \cup rejected' PROVE o[2] = inst'[o[1]] /\ o[3] < next'[o[1]]
    <3>1. CASE o \in stored \cup rejected
      BY <1>1, <3>1
    <3>2. CASE \E s \in b.first .. b.last : o = <<c, b.inst, s>>
      BY <2>1, <2>5, <3>2
    <3> QED BY <2>1, <3>1, <3>2
  <2> QED BY <2>6 DEF IntegrityInv
<1>6. ASSUME NEW c \in Clusters, Publish(c) \/ ClientNext(c) \/ Break(c)
      PROVE  UNCHANGED <<stored, rejected>>
  BY <1>6
  DEF ClientNext, Publish, Connect, Handshake, SendBatch, ReceiveFlowControl,
      ReceiveAck, Disconnect, Break
<1>7. ASSUME NEW c \in Clusters, SessionNext(c), ~RejectBatch(c)
      PROVE  UNCHANGED <<stored, rejected>>
  BY <1>7
  DEF SessionNext, AckDuplicate, AckGap, Archive, ArchiveFails, TryEnqueue,
      RefuseFull, SaveCheckpoint, SaveFails, AckPersisted, Release
<1>8. CASE /\ PersistNext
           /\ \/ WorkerAcquire \/ WorkerSleep \/ WorkerWake \/ WorkerBackoffEnds
              \/ WorkerCommit \/ WorkerCommitEnds
  BY <1>2, <1>8
  DEF PersistNext, WorkerAcquire, WorkerSleep, WorkerWake, WorkerBackoffEnds,
      WorkerCommit, WorkerCommitEnds
<1>9. CASE ServerCrash \/ UNCHANGED vars
  BY <1>2, <1>9 DEF ServerCrash, vars
<1>10. CASE PersistNext
  BY <1>4, <1>8, <1>10 DEF PersistNext, WorkerNext
<1> QED
  BY <1>2, <1>5, <1>6, <1>7, <1>9, <1>10 DEF Next
-----------------------------------------------------------------------------
(* The invariant as a whole, and what it gives. *)

\* The invariant holds when the processes start.
LEMMA InitDelivery == Init => DeliveryInv
<1> SUFFICES ASSUME Init PROVE DeliveryInv
  OBVIOUS
<1>1. Elements(items) = {} /\ Elements(lease) = {}
  BY ElementsEmpty DEF Init, QueueInit
<1>2. \A c \in Clusters : Elements(toServer[c]) = {} /\ Elements(toAgent[c]) = {}
  BY ElementsEmpty DEF Init
<1>3. BufferInv /\ SentInv /\ FrameInv
  BY <1>2 DEF Init, BufferInv, SentInv, FrameInv
<1>4. SessionInv /\ NotifyInv
  BY DEF Init, SessionInv, WorkOf, NotifyInv, NotifyOf
<1>5. QueueInv
  BY <1>1 DEF QueueInv, Held
<1>6. LeaseInv /\ IntegrityInv
  BY DEF Init, WorkerInit, LeaseInv, IntegrityInv
<1>7. WatermarkIsDurable /\ NoSilentLoss
  BY SMTT(60), KindAssumption DEF Init, WatermarkIsDurable, NoSilentLoss
<1> QED BY <1>3, <1>4, <1>5, <1>6, <1>7, InitCapacity DEF DeliveryInv

\* Every step preserves the invariant.
LEMMA DeliveryStep ==
  ASSUME TypeOK, DeliveryInv, [Next]_vars
  PROVE  TypeOK' /\ DeliveryInv'
<1>1. [RestartNext]_vars /\ CapacityRespected /\ LeasePhase
  BY DEF RestartNext, DeliveryInv
<1>2. TypeOK'
  BY <1>1, TypeStep
<1>3. CapacityRespected' /\ LeasePhase'
  BY <1>1, CapacityStep
<1>4. SentInv' /\ SessionInv' /\ QueueInv' /\ IntegrityInv'
  BY <1>2, SentStep, SessionStep, QueueStep, IntegrityStep
<1>5. BufferInv' /\ NoSilentLoss' /\ FrameInv' /\ WatermarkIsDurable'
  BY BufferStep, FrameStep, WatermarkStep
<1>6. NotifyInv' /\ LeaseInv'
  BY <1>1, NotifyStep, LeaseStep, StepMonotone DEF DeliveryInv, Monotone
<1> QED BY <1>2, <1>3, <1>4, <1>5, <1>6 DEF DeliveryInv

\* DeliveryInv is an invariant of the delivery path: buffer, stream, session,
\* queue, lease, watermark and storage fit together in every reachable state.
THEOREM InvariantHolds == Spec => [](TypeOK /\ DeliveryInv)
<1>1. Init => TypeOK /\ DeliveryInv
  BY InitTypeOK, InitDelivery
<1>2. TypeOK /\ DeliveryInv /\ [Next]_vars => (TypeOK /\ DeliveryInv)'
  BY DeliveryStep
<1> QED BY <1>1, <1>2, PTL DEF Spec

\* What Publish accepted stays in the agent's buffer until it is in ClickHouse,
\* is of a kind that has no row, or was rejected for good.
THEOREM NothingLost == Spec => []NoSilentLoss
<1>1. TypeOK /\ DeliveryInv => NoSilentLoss
  BY DEF DeliveryInv
<1> QED BY <1>1, InvariantHolds, PTL

\* persistedThrough and the checkpoint file cover only what the worker has
\* inserted and the archiver has written.
THEOREM WatermarkDurable == Spec => []WatermarkIsDurable
<1>1. TypeOK /\ DeliveryInv => WatermarkIsDurable
  BY DEF DeliveryInv
<1> QED BY <1>1, InvariantHolds, PTL

\* Every ServerHello and acknowledgement on its way to the agent carries a
\* persisted_through_sequence below which the agent's observations are durable.
THEOREM BoundaryDurable == Spec => []BoundaryIsDurable
<1>1. TypeOK /\ DeliveryInv => BoundaryIsDurable
  <2> SUFFICES ASSUME TypeOK, DeliveryInv, NEW c \in Clusters,
                      NEW frame \in Elements(toAgent[c]), NEW s \in 1 .. next[c] - 1,
                      s <= frame.through
               PROVE  Durable(c, s)
    BY DEF BoundaryIsDurable
  <2>1. s \in 1 .. MaxSequence
    BY SMTT(60), KindAssumption DEF TypeOK, AgentTypes
  <2> QED BY <2>1 DEF DeliveryInv, FrameInv, GoodFrame
<1> QED BY <1>1, InvariantHolds, PTL
-----------------------------------------------------------------------------
(* Delivery implements AtLeastOnce. *)

\* Steps that leave the buffers alone can only settle published observations.
LEMMA SettleStep ==
  ASSUME TypeOK, Monotone, UNCHANGED <<entries, next>>, IntegrityInv'
  PROVE  Promise!Settle
<1>1. ASSUME NEW o \in Numbered, <<o[1], inst[o[1]], o[2]>> \in stored \cup rejected
      PROVE  <<o[1], inst'[o[1]], o[2]>> \in stored' \cup rejected'
  BY <1>1 DEF Monotone
<1>2. ASSUME NEW o \in Numbered, <<o[1], inst'[o[1]], o[2]>> \in stored' \cup rejected'
      PROVE  o[2] < next[o[1]]
  <2>1. PICK x \in stored' \cup rejected' : x = <<o[1], inst'[o[1]], o[2]>>
    BY <1>2
  <2>2. x[1] = o[1] /\ x[3] = o[2]
    BY <2>1
  <2>3. x[3] < next'[x[1]]
    BY DEF IntegrityInv
  <2> QED BY <2>2, <2>3
<1> QED BY <1>1, <1>2 DEF Promise!Settle

\* Steps that drop buffer entries drop only settled or exempt observations.
LEMMA ForgetStep ==
  ASSUME TypeOK, UNCHANGED <<inst, next, stored, rejected>>, NoSilentLoss',
         \A c \in Clusters : entries'[c] \subseteq entries[c], BufferInv
  PROVE  Promise!Forget
<1>1. ASSUME NEW o \in Numbered, o[2] \in entries[o[1]], o[2] \notin entries'[o[1]]
      PROVE  Kind[o[2]] = 0 \/ <<o[1], inst[o[1]], o[2]>> \in stored \cup rejected
  <2>1. o[1] \in Clusters
    BY DEF Numbered
  <2>2. o[2] \in 1 .. next'[o[1]] - 1
    BY <1>1, <2>1 DEF BufferInv
  <2>3. Durable(o[1], o[2])' \/ <<o[1], inst'[o[1]], o[2]>> \in rejected'
    BY <1>1, <2>1, <2>2 DEF NoSilentLoss
  <2> QED BY <2>3 DEF Durable
<1>2. \A o \in Numbered : o[1] \in Clusters
  BY DEF Numbered
<1> QED BY <1>1, <1>2 DEF Promise!Forget

\* Publish is a Publish of AtLeastOnce.
LEMMA PublishStep ==
  ASSUME TypeOK, NEW c \in Clusters, Publish(c)
  PROVE  Promise!Publish
<1>1. /\ next' = [next EXCEPT ![c] = @ + 1]
      /\ entries' = [entries EXCEPT ![c] = @ \cup {next[c]}]
      /\ UNCHANGED <<inst, stored, rejected>>
      /\ next[c] <= MaxSequence
  BY DEF Publish
<1>2. next \in [Clusters -> Nat \ {0}] /\ entries \in [Clusters -> SUBSET Nat]
  BY SMTT(60), KindAssumption DEF TypeOK, AgentTypes
<1>3. PICK o \in Numbered : o = <<c, next[c]>>
  <2>1. next[c] \in 1 .. MaxSequence
    BY SMTT(60), <1>1, <1>2, KindAssumption
  <2> QED BY <2>1 DEF Numbered
<1>4. \A x \in Numbered : /\ x[1] \in Clusters /\ x[2] \in Nat
                          /\ x = <<x[1], x[2]>>
  BY KindAssumption DEF Numbered
<1>5. ASSUME NEW x \in Numbered
      PROVE  /\ x[2] < next'[x[1]] <=> x[2] < next[x[1]] \/ x = o
             /\ x[2] \in entries'[x[1]] <=> x[2] \in entries[x[1]] \/ x = o
  <2>1. CASE x[1] = c
    BY SMTT(60), <1>1, <1>2, <1>3, <1>4, <2>1
  <2>2. CASE x[1] # c
    BY <1>1, <1>2, <1>3, <1>4, <2>2
  <2> QED BY <2>1, <2>2
<1>6. ~(o[2] < next[o[1]])
  BY <1>2, <1>3
<1> QED BY <1>1, <1>3, <1>5, <1>6 DEF Promise!Publish

\* Every step of Delivery is a step of AtLeastOnce, or stutters.
LEMMA PromiseStep ==
  ASSUME TypeOK, DeliveryInv, [Next]_vars, DeliveryInv'
  PROVE  [Promise!Next]_(Promise!vars)
<1>1. Monotone /\ IntegrityInv' /\ NoSilentLoss' /\ BufferInv
  BY StepMonotone DEF DeliveryInv
<1>2. CASE UNCHANGED <<entries, next>>
  BY <1>1, <1>2, SettleStep DEF Promise!Next
<1>3. ASSUME NEW c \in Clusters, Publish(c) PROVE Promise!Next
  BY <1>3, PublishStep DEF Promise!Next
<1>4. ASSUME NEW c \in Clusters, Handshake(c) \/ ReceiveAck(c) PROVE Promise!Next
  <2>1. UNCHANGED <<inst, next, stored, rejected>>
    BY <1>4 DEF Handshake, ReceiveAck
  <2>2. \A d \in Clusters : entries'[d] \subseteq entries[d]
    <3>1. \/ \E through, terminal : Acknowledge(c, through, terminal)
          \/ UNCHANGED entries
      BY <1>4 DEF Handshake, ReceiveAck
    <3> QED BY <3>1 DEF Acknowledge, TypeOK, AgentTypes
  <2> QED BY <1>1, <2>1, <2>2, ForgetStep DEF Promise!Next
<1>5. ASSUME NEW c \in Clusters,
             \/ Connect(c) \/ SendBatch(c) \/ ReceiveFlowControl(c)
             \/ Disconnect(c) \/ Break(c)
      PROVE  UNCHANGED <<entries, next>>
  BY <1>5 DEF Connect, SendBatch, ReceiveFlowControl, Disconnect, Break
<1>6. ASSUME NEW c \in Clusters, SessionNext(c) PROVE UNCHANGED <<entries, next>>
  BY <1>6
  DEF SessionNext, RejectBatch, AckDuplicate, AckGap, Archive, ArchiveFails,
      TryEnqueue, RefuseFull, SaveCheckpoint, SaveFails, AckPersisted, Release
<1>7. CASE PersistNext \/ ServerCrash \/ UNCHANGED vars
  BY <1>2, <1>7 DEF PersistNext, ServerCrash, vars
<1> QED
  BY <1>2, <1>3, <1>4, <1>5, <1>6, <1>7 DEF Next, ClientNext

\* The delivery path implements AtLeastOnce: Publish accepts, the worker and
\* the rejections settle, and Acknowledge forgets only what is settled.
THEOREM Refinement == Spec => KeepsPromise
<1>1. Init => Promise!Init
  BY SMTT(60) DEF Init, QueueInit, WorkerInit, Promise!Init, Numbered
<1>2. TypeOK /\ DeliveryInv /\ [Next]_vars /\ (TypeOK /\ DeliveryInv)'
        => [Promise!Next]_(Promise!vars)
  BY PromiseStep
<1> QED BY <1>1, <1>2, InvariantHolds, PTL DEF Spec, KeepsPromise, Promise!Spec
=============================================================================
