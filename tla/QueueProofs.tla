---------------------------- MODULE QueueProofs -----------------------------
(***************************************************************************)
(* Proofs about the queue and the worker as QueueService closes them, for    *)
(* any number of handlers, any capacity and any size of a lease.  What the   *)
(* worker has leased and what is queued behind it are one line: Acquire and  *)
(* Retry only move the place where it is cut.                                *)
(***************************************************************************)
EXTENDS QueueService, SequenceTheorems, TLAPS

\* The provers, in this order, and the seconds each may spend on a step; each
\* has a second, longer try.
USE ZenonT(30), SMTT(30), ZenonT(60), SMTT(60)

\* What is to be persisted, in the order it will be: the lease, then the queue.
Line == lease \o items

\* A batch of a handler, with its number and its channel.
Ticketed == [cluster : Handlers, inst : {1}, first : 1 .. MaxSequence,
             last : 1 .. MaxSequence, chan : Chan]

\* The types of queue, worker and handlers.
ServiceTypes ==
  /\ lease \in Seq(Ticketed) /\ items \in Seq(Ticketed)
  /\ waits \in [Handlers -> Chan \cup {NoChan}]
  /\ ticket \in [Handlers -> 0 .. MaxSequence]
  /\ count \in 0 .. MaxSequence
  /\ closed \subseteq Chan
  /\ worker \in {"acquire", "select", "persist", "commit", "backoff"}

\* A batch in the line holds one observation, was numbered after those before it
\* and not after n, and has a channel of its own.
InLine(s, n) ==
  /\ \A i \in 1 .. Len(s) : s[i].first = s[i].last /\ s[i].first <= n
  /\ \A i, j \in 1 .. Len(s) : i < j => s[i].first < s[j].first
  /\ \A i, j \in 1 .. Len(s) : s[i].chan = s[j].chan => i = j

\* The worker has a lease only while it persists or commits.
LeaseOnlyAtWork == worker \notin {"persist", "commit"} => lease = <<>>

\* Channels in the line are open, but for those of a lease being committed.
OpenInv ==
  /\ \A b \in Elements(items) : b.chan \notin closed
  /\ worker # "commit" => \A b \in Elements(lease) : b.chan \notin closed

\* A handler waits on the channel of its own batch.
OwnChannel(b) ==
  \A h \in Handlers : waits[h] = b.chan => b.cluster = h /\ b.first = ticket[h]

\* The observation of a batch needs no insert any more.
Settled(b) == Kind[b.first] = 0 \/ <<b.cluster, 1, b.first>> \in stored

\* While it is being persisted, a leased row is stored or its table is to come.
LeaseProgress ==
  worker = "persist" =>
    \A b \in Elements(lease) : Settled(b) \/ Kind[b.first] \in todo

\* The inductive invariant of the queue service.
ServiceInv ==
  /\ ServiceTypes
  /\ InLine(Line, count)
  /\ LeaseOnlyAtWork
  /\ OpenInv
  /\ \A b \in Elements(Line) : OwnChannel(b)
  /\ LeaseProgress
  /\ NotifiedMeansStored
-----------------------------------------------------------------------------
(* Facts about sequences. *)

\* The elements of a queue after TryEnqueue, which are batches.
LEMMA ElementsOfAppend ==
  ASSUME NEW S, NEW s \in Seq(S), NEW e \in S
  PROVE  Elements(Append(s, e)) = Elements(s) \cup {e}
BY SMTT(60) DEF Elements

\* Lease and queue hold batches.
LEMMA ElementsIn ==
  ASSUME NEW S, NEW s \in Seq(S)
  PROVE  Elements(s) \subseteq S
BY DEF Elements

\* The elements of a lease and of a queue put together.
LEMMA ElementsOf ==
  ASSUME NEW S, NEW s \in Seq(S), NEW t \in Seq(S)
  PROVE  Elements(s \o t) = Elements(s) \cup Elements(t)
<1>1. \A i \in 1 .. Len(s) : (s \o t)[i] = s[i] /\ i \in 1 .. Len(s \o t)
  OBVIOUS
<1>2. \A i \in 1 .. Len(t) : (s \o t)[Len(s) + i] = t[i] /\ Len(s) + i \in 1 .. Len(s \o t)
  OBVIOUS
<1>3. ASSUME NEW i \in 1 .. Len(s \o t)
      PROVE  (s \o t)[i] \in Elements(s) \cup Elements(t)
  <2>1. CASE i \in 1 .. Len(s)
    BY <1>1, <2>1 DEF Elements
  <2>2. CASE i \notin 1 .. Len(s)
    <3>1. i - Len(s) \in 1 .. Len(t) /\ (s \o t)[i] = t[i - Len(s)]
      BY <2>2
    <3> QED BY <3>1 DEF Elements
  <2> QED BY <2>1, <2>2
<1>4. Elements(s \o t) = Elements(s) \cup Elements(t)
  <2>1. Elements(s \o t) \subseteq Elements(s) \cup Elements(t)
    BY <1>3 DEF Elements
  <2>2. Elements(s) \subseteq Elements(s \o t)
    BY <1>1 DEF Elements
  <2>3. Elements(t) \subseteq Elements(s \o t)
    BY <1>2 DEF Elements
  <2> QED BY <2>1, <2>2, <2>3
<1> QED BY <1>4

\* Cutting a sequence in two and putting it together again.
LEMMA CutAndJoin ==
  ASSUME NEW S, NEW s \in Seq(S), NEW k \in 0 .. Len(s)
  PROVE  /\ SubSeq(s, 1, k) \in Seq(S) /\ SubSeq(s, k + 1, Len(s)) \in Seq(S)
         /\ SubSeq(s, 1, k) \o SubSeq(s, k + 1, Len(s)) = s
<1>1. SubSeq(s, 1, k) \in Seq(S) /\ SubSeq(s, k + 1, Len(s)) \in Seq(S)
  BY SMTT(60), SubSeqProperties, ElementOfSeq
<1>2. SubSeq(s, 1, k) \o SubSeq(s, k + 1, Len(s)) = SubSeq(s, 1, Len(s))
  <2>1. /\ Len(s) \in Nat /\ 1 \in 1 .. Len(s) + 1
        /\ k \in 1 - 1 .. Len(s) /\ Len(s) \in k .. Len(s)
    OBVIOUS
  <2> QED BY <2>1, ConcatAdjacentSubSeq
<1> QED BY <1>1, <1>2, SubSeqFull

\* The empty lease.
LEMMA EmptyCut ==
  ASSUME NEW S, NEW s \in Seq(S)
  PROVE  /\ <<>> \in Seq(S) /\ <<>> \o s = s /\ Elements(<<>>) = {}
BY DEF Elements

\* A line that loses its front, and one that gets a new end, is still in line.
LEMMA BehindTheLease ==
  ASSUME NEW s \in Seq(Ticketed), NEW t \in Seq(Ticketed), NEW n,
         InLine(s \o t, n)
  PROVE  InLine(t, n)
<1>1. \A i \in 1 .. Len(t) : /\ Len(s) + i \in 1 .. Len(s \o t)
                             /\ (s \o t)[Len(s) + i] = t[i]
  OBVIOUS
<1>2. \A i \in 1 .. Len(t) : t[i].first = t[i].last /\ t[i].first <= n
  BY SMTT(60), <1>1 DEF InLine
<1>3. ASSUME NEW i \in 1 .. Len(t), NEW j \in 1 .. Len(t)
      PROVE  /\ i < j => t[i].first < t[j].first
             /\ t[i].chan = t[j].chan => i = j
  <2>1. /\ i < j => Len(s) + i < Len(s) + j
        /\ Len(s) + i = Len(s) + j => i = j
    OBVIOUS
  <2>2. PICK k \in 1 .. Len(s \o t), m \in 1 .. Len(s \o t) :
          /\ (s \o t)[k] = t[i] /\ (s \o t)[m] = t[j]
          /\ i < j => k < m
          /\ k = m => i = j
    BY <1>1, <2>1
  <2> QED BY <2>2 DEF InLine
<1> QED BY <1>2, <1>3 DEF InLine

\* TryEnqueue puts a batch with the next number and a channel of its own last.
LEMMA JoinTheLine ==
  ASSUME NEW s \in Seq(Ticketed), NEW b \in Ticketed, NEW n \in Nat,
         InLine(s, n), b.first = n + 1, b.last = n + 1,
         \A e \in Elements(s) : e.chan # b.chan
  PROVE  InLine(Append(s, b), n + 1)
<1>1. /\ Append(s, b) \in Seq(Ticketed) /\ Len(Append(s, b)) = Len(s) + 1
      /\ \A i \in 1 .. Len(s) : Append(s, b)[i] = s[i]
      /\ Append(s, b)[Len(s) + 1] = b
  BY SMTT(60), AppendProperties
<1>2. \A i \in 1 .. Len(s) : /\ s[i].first = s[i].last /\ s[i].first <= n
                             /\ s[i].chan # b.chan /\ s[i].first \in Int
  <2>1. ASSUME NEW i \in 1 .. Len(s) PROVE s[i] \in Ticketed /\ s[i] \in Elements(s)
    BY ElementOfSeq DEF Elements
  <2>2. \A e \in Ticketed : e.first \in Int
    BY SMTT(60), KindAssumption DEF Ticketed
  <2> QED BY <2>1, <2>2 DEF InLine
<1> DEFINE t == Append(s, b)
<1> HIDE DEF t
<1>3. ASSUME NEW i \in 1 .. Len(s) + 1
      PROVE  t[i].first = t[i].last /\ t[i].first <= n + 1
  BY <1>1, <1>2 DEF t
<1>4. ASSUME NEW i \in 1 .. Len(s) + 1, NEW j \in 1 .. Len(s) + 1
      PROVE  /\ i < j => t[i].first < t[j].first
             /\ t[i].chan = t[j].chan => i = j
  <2>1. CASE i \in 1 .. Len(s) /\ j \in 1 .. Len(s)
    BY <1>1, <2>1 DEF t, InLine
  <2>2. CASE i \in 1 .. Len(s) /\ j = Len(s) + 1
    BY SMTT(60), <1>1, <1>2, <2>2 DEF t
  <2>3. CASE i = Len(s) + 1 /\ j \in 1 .. Len(s)
    BY SMTT(60), <1>1, <1>2, <2>3 DEF t
  <2>4. CASE i = Len(s) + 1 /\ j = Len(s) + 1
    BY <2>4
  <2> QED BY <2>1, <2>2, <2>3, <2>4
<1>5. InLine(t, n + 1)
  <2>1. Len(t) = Len(s) + 1
    BY <1>1 DEF t
  <2> QED BY <1>3, <1>4, <2>1 DEF InLine, t
<1> QED BY <1>5 DEF t
-----------------------------------------------------------------------------
(* The steps. *)

\* What the line holds, in terms of its two parts.
LEMMA LineElements ==
  ASSUME ServiceTypes
  PROVE  /\ Line \in Seq(Ticketed)
         /\ Elements(Line) = Elements(lease) \cup Elements(items)
         /\ Elements(lease) \subseteq Ticketed /\ Elements(items) \subseteq Ticketed
<1>1. lease \in Seq(Ticketed) /\ items \in Seq(Ticketed)
  BY DEF ServiceTypes
<1> QED BY SMTT(60), <1>1, ElementsOf, ElementsIn, ConcatProperties DEF Line

\* Nothing is queued, leased or awaited at the start.
LEMMA ServiceInit == Init => ServiceInv
<1> SUFFICES ASSUME Init PROVE ServiceInv
  OBVIOUS
<1> USE DEF Init, QueueInit, WorkerInit
<1>1. ServiceTypes
  BY KindAssumption DEF ServiceTypes
<1>2. Line = <<>> /\ Elements(<<>>) = {}
  BY DEF Line, Elements
<1>3. InLine(<<>>, 0)
  BY SMTT(60) DEF InLine
<1>4. NotifiedMeansStored
  BY DEF NotifiedMeansStored
<1> QED
  BY <1>1, <1>2, <1>3, <1>4 DEF ServiceInv, LeaseOnlyAtWork, OpenInv, LeaseProgress

\* A step that leaves the line, the channels and the handlers alone, and the
\* lease too, keeps what the invariant says of them.
LEMMA LineStays ==
  ASSUME ServiceInv, Line' = Line, lease' \in Seq(Ticketed), items' \in Seq(Ticketed),
         UNCHANGED <<waits, ticket, count>>
  PROVE  /\ InLine(Line, count)'
         /\ \A b \in Elements(Line)' : OwnChannel(b)'
         /\ Elements(Line)' = Elements(lease') \cup Elements(items')
<1>1. Elements(Line)' = Elements(Line)
  BY DEF Elements
<1>2. Elements(lease' \o items') = Elements(lease') \cup Elements(items')
  BY ElementsOf
<1>3. InLine(Line, count)'
  <2>1. InLine(Line, count) /\ Line' = Line /\ count' = count
    BY DEF ServiceInv
  <2> QED BY ONLY <2>1, ZenonT(10)
<1>4. \A b \in Elements(Line)' : OwnChannel(b)'
  BY <1>1 DEF ServiceInv, OwnChannel
<1>5. Line' = lease' \o items'
  BY DEF Line
<1> QED BY <1>2, <1>3, <1>4, <1>5

\* Acquire cuts the line after LeaseCount batches and groups their rows.
LEMMA AcquireStep ==
  ASSUME ServiceInv, WorkerAcquire, UNCHANGED <<waits, ticket, count>>
  PROVE  ServiceInv'
<1> USE DEF WorkerAcquire, Acquire
<1>1. lease = <<>> /\ items \in Seq(Ticketed)
  BY DEF ServiceInv, LeaseOnlyAtWork, ServiceTypes
<1>2. LeaseCount \in 0 .. Len(items)
  BY <1>1, QueueAssumption DEF LeaseCount
<1>3. lease' \in Seq(Ticketed) /\ items' \in Seq(Ticketed) /\ lease' \o items' = items
  BY <1>1, <1>2, CutAndJoin
<1>4. Line' = Line
  BY <1>1, <1>3, EmptyCut DEF Line
<1>5. /\ InLine(Line, count)' /\ \A b \in Elements(Line)' : OwnChannel(b)'
      /\ Elements(Line)' = Elements(lease') \cup Elements(items')
  BY <1>3, <1>4, LineStays
<1>6. ServiceTypes'
  BY <1>3 DEF ServiceInv, ServiceTypes
<1>7. LeaseOnlyAtWork'
  BY DEF LeaseOnlyAtWork
<1>8. OpenInv'
  <2>1. Elements(Line)' = Elements(items)
    BY <1>1, <1>4, EmptyCut DEF Line
  <2>2. \A b \in Elements(items) : b.chan \notin closed
    BY DEF ServiceInv, OpenInv
  <2> QED BY <1>5, <2>1, <2>2 DEF OpenInv, Elements
<1>9. LeaseProgress'
  <2> SUFFICES ASSUME NEW b \in Elements(lease')
               PROVE  Kind[b.first] = 0 \/ Kind[b.first] \in todo'
    BY DEF LeaseProgress, Settled, Elements
  <2>1. b \in Ticketed
    BY <1>3, ElementsIn
  <2>2. b.first = b.last
    <3>1. PICK i \in 1 .. Len(Line) : b = Line[i]
      BY <1>3, <1>4, <1>5 DEF Elements
    <3> QED BY <3>1 DEF ServiceInv, InLine
  <2>3. <<b.cluster, b.inst, b.first>> \in Observations(b)
    <3>1. b.first \in b.first .. b.last
      BY SMTT(60), <2>1, <2>2, KindAssumption DEF Ticketed
    <3> QED BY <3>1 DEF Observations
  <2>4. todo' = TablesOf(Elements(lease'))
    BY DEF TablesOf, Elements, Observations
  <2> QED BY SMTT(60), <2>3, <2>4 DEF TablesOf
<1>10. NotifiedMeansStored'
  BY DEF ServiceInv, NotifiedMeansStored
<1> QED BY <1>5, <1>6, <1>7, <1>8, <1>9, <1>10 DEF ServiceInv

\* Retry puts the lease back where it was cut off; what was stored stays stored.
LEMMA FailedInsertStep ==
  ASSUME ServiceInv, NEW t, WorkerInsertFails(t), UNCHANGED <<waits, ticket, count>>
  PROVE  ServiceInv'
<1> USE DEF WorkerInsertFails, Retry
<1>1. ServiceTypes
  BY DEF ServiceInv
<1>2. items' = Line /\ Line \in Seq(Ticketed) /\ lease' = <<>>
  BY <1>1, LineElements DEF Line
<1>3. lease' \in Seq(Ticketed) /\ items' \in Seq(Ticketed) /\ Line' = Line
  BY <1>2, EmptyCut DEF Line
<1>4. /\ InLine(Line, count)' /\ \A b \in Elements(Line)' : OwnChannel(b)'
  BY <1>3, LineStays
<1>5. ServiceTypes'
  BY <1>1, <1>3 DEF ServiceTypes
<1>6. OpenInv'
  <2>1. Elements(items') = Elements(lease) \cup Elements(items) /\ Elements(lease') = {}
    BY <1>1, <1>2, LineElements, EmptyCut
  <2> QED BY <2>1 DEF ServiceInv, OpenInv, Elements
<1>7. NotifiedMeansStored'
  BY DEF ServiceInv, NotifiedMeansStored
<1> QED
  BY <1>2, <1>4, <1>5, <1>6, <1>7 DEF ServiceInv, LeaseOnlyAtWork, LeaseProgress

\* An insert that succeeds stores the rows of its table for the whole lease.
LEMMA InsertStep ==
  ASSUME ServiceInv, NEW t, WorkerInsert(t), UNCHANGED <<waits, ticket, count>>
  PROVE  ServiceInv'
<1> USE DEF WorkerInsert, queueVars
<1>1. ServiceTypes /\ ServiceTypes' /\ Line' = Line
  BY DEF ServiceInv, ServiceTypes, Line
<1>2. /\ InLine(Line, count)' /\ \A b \in Elements(Line)' : OwnChannel(b)'
  BY <1>1, LineStays DEF ServiceTypes
<1>3. LeaseOnlyAtWork' /\ OpenInv'
  BY DEF ServiceInv, LeaseOnlyAtWork, OpenInv, Elements
<1>4. LeaseProgress'
  <2> SUFFICES ASSUME NEW b \in Elements(lease)
               PROVE  Settled(b)' \/ Kind[b.first] \in todo'
    BY DEF LeaseProgress, Elements
  <2>1. Settled(b) \/ Kind[b.first] \in todo
    BY DEF ServiceInv, LeaseProgress
  <2>2. CASE Settled(b) \/ Kind[b.first] # t
    BY <2>1, <2>2 DEF Settled
  <2>3. CASE Kind[b.first] = t
    <3>1. b \in Ticketed /\ b.inst = 1
      BY <1>1, LineElements DEF Ticketed
    <3>2. b.first = b.last
      <4>1. PICK i \in 1 .. Len(Line) : b = Line[i]
        BY <1>1, LineElements DEF Elements
      <4> QED BY <4>1 DEF ServiceInv, InLine
    <3>3. b.first \in b.first .. b.last
      BY SMTT(60), <3>1, <3>2, KindAssumption DEF Ticketed
    <3>4. <<b.cluster, 1, b.first>> \in Observations(b)
      BY <3>1, <3>3 DEF Observations
    <3>5. <<b.cluster, 1, b.first>> \in RowsOf(t)
      BY <2>3, <3>4 DEF RowsOf
    <3> QED BY <3>5 DEF Settled
  <2> QED BY <2>2, <2>3
<1>5. NotifiedMeansStored'
  BY DEF ServiceInv, NotifiedMeansStored
<1> QED BY <1>1, <1>2, <1>3, <1>4, <1>5 DEF ServiceInv

\* Commit closes the channels of batches that are settled: no table is left.
LEMMA CommitStep ==
  ASSUME ServiceInv, WorkerCommit, UNCHANGED <<waits, ticket, count>>
  PROVE  ServiceInv'
<1> USE DEF WorkerCommit, CloseLeased
<1>1. ServiceTypes /\ Line' = Line /\ lease' = lease /\ items' = items
  BY DEF ServiceInv, Line
<1>2. /\ InLine(Line, count)' /\ \A b \in Elements(Line)' : OwnChannel(b)'
  BY <1>1, LineStays DEF ServiceTypes
<1>3. ServiceTypes'
  <2>1. \A b \in Elements(lease) : b.chan \in Chan
    BY <1>1, LineElements DEF Ticketed
  <2> QED BY <1>1, <2>1 DEF ServiceTypes
<1>4. OpenInv'
  <2> SUFFICES ASSUME NEW b \in Elements(items), NEW c \in Elements(lease), b.chan = c.chan
               PROVE  FALSE
    BY DEF ServiceInv, OpenInv, Elements
  <2>1. lease \in Seq(Ticketed) /\ items \in Seq(Ticketed)
    BY <1>1 DEF ServiceTypes
  <2>2. PICK i \in 1 .. Len(items) : b = items[i]
    BY DEF Elements
  <2>3. PICK j \in 1 .. Len(lease) : c = lease[j]
    BY DEF Elements
  <2>4. /\ j \in 1 .. Len(Line) /\ Line[j] = c
        /\ Len(lease) + i \in 1 .. Len(Line) /\ Line[Len(lease) + i] = b
        /\ Len(lease) + i # j
    BY <2>1, <2>2, <2>3, ConcatProperties DEF Line
  <2> QED BY <2>4 DEF ServiceInv, InLine
<1>5. NotifiedMeansStored'
  <2> SUFFICES ASSUME NEW h \in Handlers, waits[h] \in closed', Kind[ticket[h]] # 0
               PROVE  <<h, 1, ticket[h]>> \in stored
    BY DEF NotifiedMeansStored
  <2>1. CASE waits[h] \in closed
    BY <2>1 DEF ServiceInv, NotifiedMeansStored
  <2>2. CASE waits[h] \notin closed
    <3>1. PICK b \in Elements(lease) : waits[h] = b.chan
      BY <2>2
    <3>2. b.cluster = h /\ b.first = ticket[h]
      BY <1>1, <3>1, LineElements DEF ServiceInv, OwnChannel
    <3>3. Settled(b)
      BY DEF ServiceInv, LeaseProgress
    <3> QED BY <3>2, <3>3 DEF Settled
  <2> QED BY <2>1, <2>2
<1> QED
  BY <1>2, <1>3, <1>4, <1>5 DEF ServiceInv, LeaseOnlyAtWork, LeaseProgress

\* The end of Commit drops the lease: the line is what is queued.
LEMMA CommitEndsStep ==
  ASSUME ServiceInv, WorkerCommitEnds, UNCHANGED <<waits, ticket, count>>
  PROVE  ServiceInv'
<1> USE DEF WorkerCommitEnds, ReleaseLeased
<1>1. ServiceTypes /\ lease \in Seq(Ticketed) /\ items \in Seq(Ticketed)
  BY DEF ServiceInv, ServiceTypes
<1>2. lease' = <<>> /\ items' = items /\ Line' = items /\ Elements(<<>>) = {}
  BY <1>1, EmptyCut DEF Line
<1>3. InLine(Line, count)'
  <2>1. InLine(items, count)
    BY <1>1, BehindTheLease DEF ServiceInv, Line
  <2> QED BY <1>2, <2>1
<1>4. \A b \in Elements(Line)' : OwnChannel(b)'
  <2>1. Elements(Line)' = Elements(items)
    BY <1>2 DEF Elements
  <2>2. \A b \in Elements(items) : OwnChannel(b)
    BY <1>1, LineElements DEF ServiceInv
  <2> QED BY <2>1, <2>2 DEF OwnChannel
<1>5. ServiceTypes'
  BY <1>1, <1>2, EmptyCut DEF ServiceTypes
<1>6. OpenInv'
  <2>1. \A b \in Elements(items) : b.chan \notin closed
    BY DEF ServiceInv, OpenInv
  <2>2. Elements(lease)' = {} /\ Elements(items)' = Elements(items) /\ closed' = closed
    BY <1>2 DEF Elements
  <2> QED BY <2>1, <2>2 DEF OpenInv
<1>7. NotifiedMeansStored'
  BY DEF ServiceInv, NotifiedMeansStored
<1> QED
  BY <1>2, <1>3, <1>4, <1>5, <1>6, <1>7 DEF ServiceInv, LeaseOnlyAtWork, LeaseProgress

\* Waiting for work and the backoff leave lease, queue and channels alone.
LEMMA WaitStep ==
  ASSUME ServiceInv, WorkerSleep \/ WorkerWake \/ WorkerBackoffEnds,
         UNCHANGED <<waits, ticket, count>>
  PROVE  ServiceInv'
<1> USE DEF WorkerSleep, WorkerWake, WorkerBackoffEnds, TakeReady, queueVars
<1>1. /\ UNCHANGED <<lease, items, closed, stored>> /\ lease = <<>>
      /\ worker' \in {"select", "acquire"}
  BY DEF ServiceInv, LeaseOnlyAtWork
<1>2. ServiceTypes' /\ Line' = Line
  BY <1>1 DEF ServiceInv, ServiceTypes, Line
<1>3. /\ InLine(Line, count)' /\ \A b \in Elements(Line)' : OwnChannel(b)'
  BY <1>2, LineStays DEF ServiceTypes
<1>4. OpenInv'
  BY <1>1, EmptySeq DEF ServiceInv, OpenInv, Elements
<1>5. NotifiedMeansStored'
  BY <1>1 DEF ServiceInv, NotifiedMeansStored
<1> QED
  BY <1>1, <1>2, <1>3, <1>4, <1>5 DEF ServiceInv, LeaseOnlyAtWork, LeaseProgress

\* TryEnqueue puts the handler's batch last, with a channel nobody refers to.
LEMMA SubmitStep ==
  ASSUME ServiceInv, NEW h \in Handlers, Submit(h)
  PROVE  ServiceInv'
<1>1. PICK ch \in Fresh :
        /\ Enqueue([cluster |-> h, inst |-> 1, first |-> count',
                    last |-> count', chan |-> ch])
        /\ waits' = [waits EXCEPT ![h] = ch]
  BY DEF Submit
<1>b. PICK b : b = [cluster |-> h, inst |-> 1, first |-> count + 1,
                    last |-> count + 1, chan |-> ch]
  OBVIOUS
<1>2. /\ count' = count + 1 /\ count < MaxSequence /\ ticket' = [ticket EXCEPT ![h] = count + 1]
      /\ items' = Append(items, b) /\ lease' = lease /\ closed' = closed \ {ch}
      /\ UNCHANGED <<worker, todo, stored>>
  BY <1>1, <1>b DEF Submit, Enqueue, workerVars
<1>3. /\ ServiceTypes /\ count \in Nat /\ count + 1 \in 1 .. MaxSequence
      /\ lease \in Seq(Ticketed) /\ items \in Seq(Ticketed)
      /\ ch \in Chan
  BY SMTT(60), <1>2, KindAssumption DEF ServiceInv, ServiceTypes, Fresh
<1>4. /\ b \in Ticketed
      /\ b.cluster = h /\ b.first = count + 1 /\ b.last = count + 1 /\ b.chan = ch
  BY <1>b, <1>3 DEF Ticketed
<1>5. /\ \A e \in Elements(lease) \cup Elements(items) : e.chan # ch
      /\ \A g \in Handlers : waits[g] # ch
  BY DEF Fresh, QueuedChans
<1>6. /\ Append(items, b) \in Seq(Ticketed)
      /\ Elements(items') = Elements(items) \cup {b}
      /\ Elements(lease') = Elements(lease)
  BY <1>2, <1>3, <1>4, ElementsOfAppend, AppendProperties
<1>7. Line' = Append(Line, b)
  <2>1. /\ <<b>> \in Seq(Ticketed)
        /\ Append(items, b) = items \o <<b>>
    BY <1>3, <1>4, AppendIsConcat
  <2>2. Line \in Seq(Ticketed) /\ Append(Line, b) = Line \o <<b>>
    BY <1>3, <1>4, AppendIsConcat, LineElements
  <2>3. lease \o (items \o <<b>>) = (lease \o items) \o <<b>>
    BY SMTT(60), <1>3, <2>1, ConcatAssociative
  <2> QED BY <1>2, <2>1, <2>2, <2>3 DEF Line
<1>8. InLine(Line, count)'
  <2>1. InLine(Append(Line, b), count + 1)
    BY <1>3, <1>4, <1>5, LineElements, JoinTheLine DEF ServiceInv
  <2> QED BY <1>2, <1>7, <2>1
<1>9. ServiceTypes'
  <2>1. waits' \in [Handlers -> Chan \cup {NoChan}]
    BY <1>1, <1>3 DEF ServiceTypes
  <2>2. ticket' \in [Handlers -> 0 .. MaxSequence] /\ count' \in 0 .. MaxSequence
    BY SMTT(60), <1>2, <1>3 DEF ServiceTypes
  <2> QED BY <1>2, <1>3, <1>6, <2>1, <2>2 DEF ServiceTypes
<1>10. \A e \in Elements(Line)' : OwnChannel(e)'
  <2>1. Elements(Line)' = Elements(Line) \cup {b}
    <3>1. Elements(Append(Line, b)) = Elements(Line) \cup {b}
      BY SMTT(60), <1>3, <1>4, LineElements, ElementsOfAppend
    <3> QED BY <1>7, <3>1
  <2>2. waits \in [Handlers -> Chan \cup {NoChan}] /\ ticket \in [Handlers -> 0 .. MaxSequence]
    BY <1>3 DEF ServiceTypes
  <2>3. OwnChannel(b)'
    BY <1>1, <1>2, <1>4, <1>5, <2>2 DEF OwnChannel
  <2>4. ASSUME NEW e \in Elements(Line) PROVE OwnChannel(e)'
    <3>1. e.chan # ch /\ OwnChannel(e)
      BY <1>3, <1>5, LineElements DEF ServiceInv
    <3> QED BY <1>1, <1>2, <2>2, <3>1 DEF OwnChannel
  <2> QED BY <2>1, <2>3, <2>4
<1>11. OpenInv'
  BY <1>2, <1>4, <1>6 DEF ServiceInv, OpenInv
<1>12. LeaseProgress'
  BY <1>2, <1>6 DEF ServiceInv, LeaseProgress, Settled
<1>13. NotifiedMeansStored'
  <2> SUFFICES ASSUME NEW g \in Handlers, waits'[g] \in closed', Kind[ticket'[g]] # 0
               PROVE  <<g, 1, ticket'[g]>> \in stored
    BY <1>2 DEF NotifiedMeansStored
  <2>1. g # h
    BY <1>1, <1>2, <1>3 DEF ServiceTypes
  <2>2. waits'[g] = waits[g] /\ ticket'[g] = ticket[g]
    BY <1>1, <1>2, <1>3, <2>1 DEF ServiceTypes
  <2> QED BY <1>2, <2>2 DEF ServiceInv, NotifiedMeansStored
<1> QED
  BY <1>2, <1>8, <1>9, <1>10, <1>11, <1>12, <1>13 DEF ServiceInv, LeaseOnlyAtWork

\* A handler that is answered or gives up waits for nothing; its batch stays.
LEMMA LeaveStep ==
  ASSUME ServiceInv, NEW h \in Handlers, Notified(h) \/ GiveUp(h)
  PROVE  ServiceInv'
<1>1. /\ waits' = [waits EXCEPT ![h] = NoChan] /\ ticket' = [ticket EXCEPT ![h] = 0]
      /\ UNCHANGED <<queueVars, workerVars, count>>
  BY DEF Notified, GiveUp
<1>2. /\ UNCHANGED <<lease, items, closed, stored, worker, todo, count>>
      /\ Line' = Line
  BY <1>1 DEF queueVars, workerVars, Line
<1>3. /\ ServiceTypes
      /\ waits \in [Handlers -> Chan \cup {NoChan}] /\ ticket \in [Handlers -> 0 .. MaxSequence]
      /\ closed \subseteq Chan /\ MaxSequence \in Nat
  BY KindAssumption DEF ServiceInv, ServiceTypes
<1>4. ServiceTypes'
  <2>1. ticket' \in [Handlers -> 0 .. MaxSequence]
    BY SMTT(60), <1>1, <1>3
  <2>2. waits' \in [Handlers -> Chan \cup {NoChan}]
    BY <1>1, <1>3
  <2> QED BY <1>2, <1>3, <2>1, <2>2 DEF ServiceTypes
<1>5. \A b \in Elements(Line)' : OwnChannel(b)'
  <2>1. \A b \in Elements(Line) : b.chan \in Chan
    BY SMTT(60), <1>3, LineElements DEF Ticketed
  <2>2. \A b \in Elements(Line) : OwnChannel(b)'
    BY SMTT(60), <1>1, <1>3, <2>1, ServiceAssumption DEF ServiceInv, OwnChannel
  <2> QED BY <1>2, <2>2
<1>6. NotifiedMeansStored'
  BY <1>1, <1>2, <1>3, ServiceAssumption DEF ServiceInv, NotifiedMeansStored
<1>7. InLine(Line, count)' /\ LeaseOnlyAtWork' /\ OpenInv' /\ LeaseProgress'
  BY <1>2 DEF ServiceInv, LeaseOnlyAtWork, OpenInv, LeaseProgress, Settled
<1> QED BY <1>4, <1>5, <1>6, <1>7 DEF ServiceInv
-----------------------------------------------------------------------------
\* One step per action of Next.
LEMMA ServiceStep == ServiceInv /\ [Next]_vars => ServiceInv'
<1> SUFFICES ASSUME ServiceInv, [Next]_vars PROVE ServiceInv'
  OBVIOUS
<1>1. CASE WorkerNext /\ UNCHANGED <<waits, ticket, count>>
  BY <1>1, AcquireStep, WaitStep, InsertStep, FailedInsertStep, CommitStep, CommitEndsStep
     DEF WorkerNext
<1>2. CASE \E h \in Handlers : Submit(h) \/ Notified(h) \/ GiveUp(h)
  BY <1>2, SubmitStep, LeaveStep
<1>3. CASE UNCHANGED vars
  <2>1. UNCHANGED <<lease, items, closed, stored, worker, todo, waits, ticket, count>>
    BY <1>3 DEF vars, queueVars, workerVars
  <2>2. Line' = Line /\ ServiceTypes' /\ LeaseOnlyAtWork' /\ OpenInv'
    BY <2>1 DEF ServiceInv, Line, ServiceTypes, LeaseOnlyAtWork, OpenInv, Elements
  <2>3. LeaseProgress' /\ NotifiedMeansStored'
    BY <2>1 DEF ServiceInv, LeaseProgress, Settled, NotifiedMeansStored, Elements
  <2>4. InLine(Line, count)' /\ \A b \in Elements(Line)' : OwnChannel(b)'
    BY SMTT(60), <2>1, <2>2 DEF ServiceInv, OwnChannel, Elements
  <2> QED BY <2>2, <2>3, <2>4 DEF ServiceInv
<1> QED BY <1>1, <1>2, <1>3 DEF Next

\* The invariant of queue, worker and handlers holds in every behaviour.
LEMMA ServiceInvariant == Spec => []ServiceInv
BY ServiceInit, ServiceStep, PTL DEF Spec

\* Batches are leased in the order of TryEnqueue, failed leases included.
THEOREM QueueFirstInFirstOut == Spec => []FirstInFirstOut
<1>1. ServiceInv => FirstInFirstOut
  BY DEF ServiceInv, InLine, Line, FirstInFirstOut
<1> QED BY <1>1, ServiceInvariant, PTL

\* A handler whose Persisted() channel is closed finds its observation stored.
THEOREM QueueNotifiedMeansStored == Spec => []NotifiedMeansStored
<1>1. ServiceInv => NotifiedMeansStored
  BY DEF ServiceInv
<1> QED BY <1>1, ServiceInvariant, PTL

\* markPersisted never closes a closed channel.
THEOREM QueueNoDoubleClose == Spec => []NoDoubleClose
<1>1. ServiceInv => NoDoubleClose
  <2> SUFFICES ASSUME ServiceInv, worker = "persist"
               PROVE  /\ \A b \in Elements(lease) : b.chan \notin closed
                      /\ \A i, j \in 1 .. Len(lease) : lease[i].chan = lease[j].chan => i = j
    BY DEF NoDoubleClose
  <2>1. \A b \in Elements(lease) : b.chan \notin closed
    BY DEF ServiceInv, OpenInv
  <2>2. ASSUME NEW i \in 1 .. Len(lease) PROVE i \in 1 .. Len(Line) /\ Line[i] = lease[i]
    <3>1. lease \in Seq(Ticketed) /\ items \in Seq(Ticketed)
      BY DEF ServiceInv, ServiceTypes
    <3> QED BY SMTT(60), <3>1, ConcatProperties DEF Line
  <2>3. \A i, j \in 1 .. Len(Line) : Line[i].chan = Line[j].chan => i = j
    BY DEF ServiceInv, InLine
  <2> QED BY <2>1, <2>2, <2>3
<1> QED BY <1>1, ServiceInvariant, PTL
=============================================================================
