------------------------ MODULE InventoryOrderProofs ------------------------
(***************************************************************************)
(* Proofs about what the inventory collector publishes while the agent      *)
(* runs: never an older state of an object after a newer one, and, once the *)
(* collector is quiet, exactly what the informers hold.  Notifications of   *)
(* an object are under way in the order of its revisions; what is published *)
(* of it is no newer than the first of them, the last of them is what the   *)
(* store holds, and the containers kept of a pod are those in the cache     *)
(* whenever the worker is not busy with the pod.                            *)
(***************************************************************************)
EXTENDS InventoryProofs

\* The provers, in this order, and the seconds each may spend on a step; each
\* has a second, longer try.
USE ZenonT(30), SMTT(30), ZenonT(60), SMTT(60)

(* The order of the notifications, while the agent runs. *)

InHand == IF work = Idle THEN {} ELSE {work.item}

InFeed == UNION {Range(feed[k]) : k \in Kinds}

\* The notifications of an object under way.
ItemsOf(o) == {x \in InHand \cup Range(queue) \cup InFeed : Of(x, o)}

\* Notifications under way are in order: first the worker's, then the queue's,
\* then those of the feeds.
InOrder ==
  /\ \A x \in InHand : \A y \in Range(queue) \cup InFeed : Follows(x, y)
  /\ Chain(queue)
  /\ \A x \in Range(queue) : \A y \in InFeed : Follows(x, y)
  /\ \A k \in Kinds : Chain(feed[k])

\* The steps of an agent that runs; the others touch neither informers, queue
\* and worker nor the cache.
LEMMA RunningSteps ==
  ASSUME CollectorType, delayed = {}, Next, ~cancelled'
  PROVE  /\ ~cancelled /\ ~shut /\ delayed' = {}
         /\ \/ UNCHANGED <<store, feed, queue, work, cache, podContainers, latest>>
            \/ \E o \in Objects : Observe(o)
            \/ \E k \in Kinds : Handler(k)
            \/ Resync \/ StartRuns \/ ProcessNext \/ SkipDelta \/ PublishDelta \/ Finish
<1>1. ~cancelled /\ ~shut
  BY FlagsKept DEF CollectorType, FlagsType
<1>2. ~PublishFails /\ ~\E item \in delayed : Retry(item)
  BY <1>1 DEF PublishFails, PublishErrs
<1>3. CASE \E o \in Objects : ApiCreate(o) \/ ApiUpdate(o) \/ ApiDelete(o)
  BY <1>1, <1>3 DEF ApiCreate, ApiUpdate, ApiDelete, informerVars, workerVars
<1>4. CASE StartFails \/ Cancel \/ ShutDown \/ Acknowledge
  BY <1>1, <1>4 DEF StartFails, Cancel, ShutDown, Acknowledge, informerVars, workerVars
<1>5. CASE (\E o \in Objects : Observe(o)) \/ (\E k \in Kinds : Handler(k)) \/ Resync \/ StartRuns
  BY <1>1, <1>5 DEF Observe, Handler, Resync, StartRuns
<1>6. CASE ProcessNext \/ SkipDelta \/ PublishDelta \/ Finish
  BY <1>1, <1>6 DEF ProcessNext, SkipDelta, PublishDelta, Finish
<1> QED BY <1>2, <1>3, <1>4, <1>5, <1>6 DEF Next

\* Where a notification is when the lines hold it.
LEMMA LinesHold ==
  ASSUME LinesType
  PROVE  /\ Range(queue) \subseteq Items /\ InFeed \subseteq ObjectItems
         /\ \A k \in Kinds : feed[k] \in Seq(ObjectItems) /\ \A x \in Range(feed[k]) : x.kind = k
<1>1. Range(queue) \subseteq Items
  BY RangeOfSeq DEF LinesType
<1>2. \A k \in Kinds : feed[k] \in Seq(ObjectItems) /\ \A x \in Range(feed[k]) : x.kind = k
  BY DEF LinesType, Range
<1>3. InFeed \subseteq ObjectItems
  BY SMTT(60), <1>2, RangeOfSeq DEF InFeed
<1> QED BY <1>1, <1>2, <1>3

\* A handler moves a notification from its feed to the end of the queue.
LEMMA HandlerMoves ==
  ASSUME CollectorType, ~shut, NEW k \in Kinds, Handler(k)
  PROVE  /\ InOrder => InOrder'
         /\ \A o : ItemsOf(o)' = ItemsOf(o)
<1>0. LinesType
  BY DEF CollectorType
<1> DEFINE h == Head(feed[k])
<1>1. feed[k] # <<>> /\ feed' = [feed EXCEPT ![k] = Tail(@)] /\ work' = work
  BY DEF Handler, workerVars
<1>2. /\ feed'[k] = Tail(feed[k]) /\ \A j \in Kinds \ {k} : feed'[j] = feed[j]
      /\ h \in ObjectItems /\ h.kind = k
  BY <1>0, <1>1, FeedShrinks
<1>3. queue' = queue \o <<h>> /\ queue \in Seq(Items) /\ h \in Items
  BY <1>0, <1>2 DEF Handler, Add, LinesType, Items
<1> HIDE DEF h
<1>4. queue' = Append(queue, h) /\ Range(queue') = Range(queue) \cup {h}
  <2>1. queue \o <<h>> = Append(queue, h) /\ Range(Append(queue, h)) = Range(queue) \cup {h}
    BY <1>3, AppendLine
  <2> QED BY <1>3, <2>1
<1>5. feed[k] \in Seq(ObjectItems) /\ \A j \in Kinds : \A x \in Range(feed[j]) : x.kind = j
  BY <1>0, LinesHold
<1>6. Range(feed[k]) = {h} \cup Range(feed'[k])
  BY <1>1, <1>2, <1>5, TakeFromLine DEF h
<1>7. InFeed = {h} \cup InFeed'
  BY SMTT(60), <1>2, <1>6 DEF InFeed
<1>8. InHand' = InHand
  BY <1>1 DEF InHand
<1>9. ASSUME NEW o PROVE ItemsOf(o)' = ItemsOf(o)
  <2>1. (InHand \cup Range(queue) \cup InFeed)' = InHand \cup Range(queue) \cup InFeed
    BY <1>4, <1>7, <1>8
  <2> QED BY <2>1 DEF ItemsOf, Of
<1>10. ASSUME InOrder PROVE InOrder'
  <2>1. \A x \in InHand' : \A y \in Range(queue') \cup InFeed' : Follows(x, y)
    BY <1>4, <1>7, <1>8, <1>10 DEF InOrder
  <2>2. Chain(queue')
    <3>1. \A x \in Range(queue) : Follows(x, h)
      BY <1>7, <1>10 DEF InOrder
    <3>2. Chain(queue)
      BY <1>10 DEF InOrder
    <3>3. Chain(queue) /\ (\A x \in Range(queue) : Follows(x, h)) => Chain(Append(queue, h))
      BY <1>3, AppendLine
    <3> QED BY <1>4, <3>1, <3>2, <3>3
  <2>3. Chain(feed'[k]) /\ \A y \in Range(feed'[k]) : Follows(h, y)
    <3>1. Chain(feed[k])
      BY <1>10 DEF InOrder
    <3> QED BY SMTT(60), <1>1, <1>2, <1>5, <3>1, TakeFromLine DEF h
  <2>4. \A j \in Kinds : Chain(feed'[j])
    BY <1>2, <1>10, <2>3 DEF InOrder
  <2>5. ASSUME NEW j \in Kinds, NEW y \in Range(feed'[j]) PROVE Follows(h, y)
    <3>1. CASE j = k
      BY <2>3, <2>5, <3>1
    <3>2. CASE j # k
      <4>1. y.kind = j
        BY <1>2, <1>5, <2>5, <3>2
      <4>2. y \in ObjectItems => UidOf(y) # UidOf(h)
        BY <1>2, <3>2, <4>1, ItemFacts
      <4> QED BY <4>2 DEF Follows
    <3> QED BY <3>1, <3>2
  <2>6. \A x \in Range(queue') : \A y \in InFeed' : Follows(x, y)
    <3>1. \A y \in InFeed' : Follows(h, y)
      BY <2>5 DEF InFeed
    <3> QED BY <1>4, <1>7, <1>10, <3>1 DEF InOrder
  <2> QED BY <2>1, <2>2, <2>4, <2>6 DEF InOrder
<1> QED BY <1>9, <1>10

\* Start adds its markers to the queue.
LEMMA StartMoves ==
  ASSUME CollectorType, ~shut, StartRuns
  PROVE  /\ InOrder => InOrder'
         /\ \A o : ItemsOf(o)' = ItemsOf(o)
<1>0. LinesType
  BY DEF CollectorType
<1> DEFINE a == Marker("cluster", Cluster)
           b == Marker("snapshot", Snapshot("completed"))
<1>1. a \in Markers /\ b \in Markers /\ queue' = Append(Append(queue, a), b)
  BY <1>0, StartAdds
<1>2. feed' = feed /\ work' = work
  BY DEF StartRuns, informerVars, workerVars
<1> HIDE DEF a, b
<1>3. a \in Items /\ b \in Items /\ queue \in Seq(Items)
  BY <1>0, <1>1 DEF Items, LinesType
<1>4. /\ Append(queue, a) \in Seq(Items) /\ Range(Append(queue, a)) = Range(queue) \cup {a}
      /\ Chain(queue) /\ (\A x \in Range(queue) : Follows(x, a)) => Chain(Append(queue, a))
  BY SMTT(60), <1>3, AppendLine
<1>5. /\ Range(queue') = Range(Append(queue, a)) \cup {b}
      /\ Chain(Append(queue, a)) /\ (\A x \in Range(Append(queue, a)) : Follows(x, b)) => Chain(queue')
  <2> DEFINE s == Append(queue, a)
  <2>1. s \in Seq(Items) /\ queue' = Append(s, b)
    BY <1>1, <1>4
  <2> HIDE DEF s
  <2>2. /\ Range(Append(s, b)) = Range(s) \cup {b}
        /\ Chain(s) /\ (\A x \in Range(s) : Follows(x, b)) => Chain(Append(s, b))
    BY SMTT(60), <1>3, <2>1, AppendLine
  <2> QED BY <2>1, <2>2 DEF s
<1>6. InHand' = InHand /\ InFeed' = InFeed /\ Range(queue') = Range(queue) \cup {a, b}
  BY <1>2, <1>4, <1>5 DEF InHand, InFeed
<1>7. \A o : ~Of(a, o) /\ ~Of(b, o)
  BY <1>1, MarkerFacts DEF Of
<1>8. ASSUME NEW o PROVE ItemsOf(o)' = ItemsOf(o)
  BY <1>6, <1>7 DEF ItemsOf, Of
<1>9. \A y : Follows(a, y) /\ Follows(y, a) /\ Follows(b, y) /\ Follows(y, b)
  BY <1>1, MarkersFollow
<1>10. ASSUME InOrder PROVE InOrder'
  <2>1. Chain(queue')
    BY <1>4, <1>5, <1>9, <1>10 DEF InOrder
  <2>2. \A x \in InHand' : \A y \in Range(queue') \cup InFeed' : Follows(x, y)
    BY <1>6, <1>9, <1>10 DEF InOrder
  <2>3. \A x \in Range(queue') : \A y \in InFeed' : Follows(x, y)
    BY <1>6, <1>9, <1>10 DEF InOrder
  <2> QED BY <1>2, <1>10, <2>1, <2>2, <2>3 DEF InOrder
<1> QED BY <1>8, <1>10
-----------------------------------------------------------------------------
(* What holds of each object while the agent runs. *)

ItemRank(x) == 2 * Value(x).revision + (IF x.operation = "delete" THEN 1 ELSE 0)

KeysOf(o) == {k \in Keys : k = ObjectKey(o) \/ \E c \in Containers : k = ContainerKey(o, c)}

Busy(o) == work # Idle /\ Of(work.item, o)

\* Containers of the pod's last upsert.
Kept(o) == {c \in Containers : \E e \in podContainers[o] : e.key = ContainerKey(o, c)}

\* Until the informer sees the deletion of an object, the notifications under way
\* are upserts no newer than its store.
Behind(o) ==
  store[o].state # "gone" =>
    \A x \in ItemsOf(o) : /\ x.operation = "upsert" /\ Value(x).revision <= store[o].revision
                          /\ Value(x).revision = store[o].revision => Value(x) = store[o]

\* What is published under the keys of an object is older than what is under way.
PublishedBehind(o) ==
  \A k \in KeysOf(o) :
    /\ \A x \in ItemsOf(o) : Rank(latest[k]) <= ItemRank(x)
    /\ store[o].state # "gone" => Rank(latest[k]) <= 2 * store[o].revision

\* The containers kept of a pod are of one upsert, older than what is under way;
\* an upsert of the same revision has them.
ContainersBehind(o) ==
  \A e \in podContainers[o] :
    /\ \A f \in podContainers[o] : f.revision = e.revision
    /\ ~Busy(o) => Rank(latest[e.key]) <= 2 * e.revision
    /\ \A x \in ItemsOf(o) :
         /\ e.revision <= Value(x).revision
         /\ e.revision = Value(x).revision => \E c \in Value(x).containers : e.key = ContainerKey(o, c)
    /\ store[o].state # "gone" =>
         /\ e.revision <= store[o].revision
         /\ e.revision = store[o].revision => \E c \in store[o].containers : e.key = ContainerKey(o, c)

\* Notification x leaves what the store holds of object o.
MatchesStore(x, o) ==
  IF Live(store[o]) THEN x.operation = "upsert" /\ Value(x) = store[o] ELSE x.operation = "delete"

\* Such a notification is under way, or none is and the cache is up to date.
Settled(o) ==
  \/ \E x \in ItemsOf(o) : MatchesStore(x, o)
  \/ /\ ItemsOf(o) = {} /\ (Exists(ObjectKey(o)) <=> Live(store[o]))
     /\ o \in PodsOnly => Kept(o) = store[o].containers

\* The deletion of a pod carries the containers of the upsert before it.
DeletesLast(o) ==
  \A x \in ItemsOf(o) : x.operation = "delete" =>
    \/ \E y \in ItemsOf(o) : y.operation = "upsert" /\ Value(y) = Value(x)
    \/ ItemsOf(o) = {x} /\ Kept(o) = Value(x).containers

\* The containers kept of a pod are those in the cache.
KeptIsCached(o) ==
  ~Busy(o) => \A c \in Containers : Exists(ContainerKey(o, c)) <=> c \in Kept(o)

ObjectInv(o) ==
  /\ Behind(o) /\ PublishedBehind(o) /\ Settled(o)
  /\ o \in PodsOnly => ContainersBehind(o) /\ DeletesLast(o) /\ KeptIsCached(o)

\* The events of the change in hand: no newer than the change, not older than
\* what is published under their keys, and of one rank when of one key.
EventsAhead ==
  work # Idle /\ work.item \in ObjectItems =>
    \A i \in 1 .. Len(work.events) :
      /\ Rank(work.events[i]) <= ItemRank(work.item)
      /\ i >= work.next => Rank(latest[work.events[i].key]) <= Rank(work.events[i])
      /\ \A j \in 1 .. Len(work.events) :
           work.events[i].key = work.events[j].key => Rank(work.events[i]) = Rank(work.events[j])

\* The events before next are in the cache, and every container of the pod that
\* is in the cache has an event.
Progress ==
  work # Idle /\ work.item \in ObjectItems =>
    /\ \A i \in 1 .. Len(work.events) :
         i < work.next => (Exists(work.events[i].key) <=> work.events[i].operation = "upsert")
    /\ work.item.kind = "pod" =>
         \A c \in Containers : Exists(ContainerKey(UidOf(work.item), c)) =>
           \E i \in 1 .. Len(work.events) : work.events[i].key = ContainerKey(UidOf(work.item), c)

Running ==
  InOrder /\ EventsAhead /\ Progress /\ \A o \in Objects : ObjectInv(o)

\* Ranks are natural numbers, odd for deletions.
LEMMA RankFacts ==
  /\ \A e \in Events \cup {None} :
       /\ Rank(e) \in Nat
       /\ e.operation = "delete" => Rank(e) = 2 * e.revision + 1
       /\ e.operation # "delete" => Rank(e) = 2 * e.revision
  /\ \A x \in ObjectItems :
       /\ ItemRank(x) \in Nat
       /\ x.operation = "delete" => ItemRank(x) = 2 * Value(x).revision + 1
       /\ x.operation = "upsert" => ItemRank(x) = 2 * Value(x).revision
<1>1. ASSUME NEW e \in Events \cup {None}
      PROVE  /\ Rank(e) \in Nat
             /\ e.operation = "delete" => Rank(e) = 2 * e.revision + 1
             /\ e.operation # "delete" => Rank(e) = 2 * e.revision
  <2>1. e.revision \in Nat
    BY SMTT(60) DEF Events, None
  <2> QED BY SMTT(60), <2>1 DEF Rank
<1>2. ASSUME NEW x \in ObjectItems
      PROVE  /\ ItemRank(x) \in Nat
             /\ x.operation = "delete" => ItemRank(x) = 2 * Value(x).revision + 1
             /\ x.operation = "upsert" => ItemRank(x) = 2 * Value(x).revision
  <2>1. Value(x).revision \in Nat
    BY ItemFacts
  <2> QED BY SMTT(60), <2>1 DEF ItemRank
<1> QED BY <1>1, <1>2

\* An object of which nothing changes but that the worker may become busy with
\* it keeps what holds of it.
LEMMA Untouched ==
  ASSUME NEW o \in Objects, ObjectInv(o), ItemsOf(o)' = ItemsOf(o), store'[o] = store[o],
         o \in PodsOnly => podContainers'[o] = podContainers[o],
         \A k \in KeysOf(o) : latest'[k] = latest[k] /\ cache'[k] = cache[k],
         ContainersType, Busy(o) => Busy(o)'
  PROVE  ObjectInv(o)'
<1>1. ObjectKey(o) \in KeysOf(o) /\ (o \in PodsOnly => \A c \in Containers : ContainerKey(o, c) \in KeysOf(o))
  BY KeyFacts DEF KeysOf
<1>2. KeysOf(o)' = KeysOf(o)
  BY DEF KeysOf
<1>3. Behind(o)'
  BY DEF ObjectInv, Behind
<1>4. PublishedBehind(o)'
  BY <1>2 DEF ObjectInv, PublishedBehind, KeysOf
<1>5. Exists(ObjectKey(o))' = Exists(ObjectKey(o))
  BY <1>1 DEF Exists
<1>6. o \in PodsOnly => Kept(o)' = Kept(o)
  BY DEF Kept
<1>7. Settled(o)'
  <2>1. Settled(o)
    BY DEF ObjectInv
  <2>2. \A x : MatchesStore(x, o)' <=> MatchesStore(x, o)
    BY DEF MatchesStore
  <2> QED BY <1>5, <1>6, <2>1, <2>2 DEF Settled
<1>8. ASSUME o \in PodsOnly PROVE ContainersBehind(o)' /\ DeletesLast(o)' /\ KeptIsCached(o)'
  <2>1. \A e \in podContainers[o] : e.key \in KeysOf(o)
    BY <1>1, <1>8 DEF ContainersType
  <2>2. ContainersBehind(o)'
    BY <1>8, <2>1 DEF ObjectInv, ContainersBehind
  <2>3. DeletesLast(o)'
    BY <1>6, <1>8 DEF ObjectInv, DeletesLast
  <2>4. \A c \in Containers : Exists(ContainerKey(o, c))' = Exists(ContainerKey(o, c))
    BY <1>1, <1>8 DEF Exists
  <2>5. KeptIsCached(o)'
    BY <1>6, <1>8, <2>4 DEF ObjectInv, KeptIsCached
  <2> QED BY <2>2, <2>3, <2>5
<1> QED BY <1>3, <1>4, <1>7, <1>8 DEF ObjectInv

-----------------------------------------------------------------------------
(* How the steps move the notifications. *)

\* The notifications of an object in the queue and in the feeds.
Waiting(o) == {x \in Range(queue) \cup InFeed : Of(x, o)}

\* What the worker has in hand comes before them.
LEMMA ItemsSplit ==
  ASSUME NEW o
  PROVE  /\ Busy(o) => ItemsOf(o) = {work.item} \cup Waiting(o)
         /\ ~Busy(o) => ItemsOf(o) = Waiting(o)
         /\ InOrder /\ Busy(o) => \A y \in Waiting(o) : Follows(work.item, y)
BY DEF ItemsOf, Waiting, InHand, Busy, InOrder

\* Of two notifications of an object that wait, one comes before the other.
LEMMA WaitingInLine ==
  ASSUME LinesType, InOrder, NEW o, NEW a \in Waiting(o), NEW b \in Waiting(o), a # b
  PROVE  Follows(a, b) \/ Follows(b, a)
<1>1. /\ a \in ObjectItems /\ b \in ObjectItems /\ UidOf(a) = UidOf(b)
      /\ a \in Range(queue) \cup InFeed /\ b \in Range(queue) \cup InFeed
  BY DEF Waiting, Of
<1>2. ASSUME NEW s, Chain(s), s \in Seq(Items), a \in Range(s), b \in Range(s)
      PROVE  Follows(a, b) \/ Follows(b, a)
  <2>1. Range(s) = {s[i] : i \in 1 .. Len(s)}
    BY <1>2, RangeEquality
  <2>2. PICK i \in 1 .. Len(s), j \in 1 .. Len(s) : a = s[i] /\ b = s[j]
    BY <1>2, <2>1
  <2>3. i < j \/ j < i
    <3>1. Len(s) \in Nat /\ i # j
      BY <1>2, <2>2, LenProperties
    <3> QED BY SMTT(60), <3>1
  <2> QED BY <1>2, <2>2, <2>3 DEF Chain
<1>3. CASE a \in Range(queue) /\ b \in Range(queue)
  BY <1>2, <1>3 DEF LinesType, InOrder
<1>4. CASE a \in InFeed /\ b \in InFeed
  <2>1. PICK k \in Kinds, j \in Kinds : a \in Range(feed[k]) /\ b \in Range(feed[j])
    BY <1>4 DEF InFeed
  <2>2. a.kind = k /\ b.kind = j /\ feed[k] \in Seq(ObjectItems)
    BY <2>1, LinesHold
  <2>3. k = j
    BY <1>1, <2>2, ItemFacts
  <2>4. feed[k] \in Seq(Items)
    BY <2>2, SeqMonotonic DEF Items
  <2> QED BY <1>2, <2>1, <2>3, <2>4 DEF InOrder
<1>5. CASE (a \in Range(queue) /\ b \in InFeed) \/ (b \in Range(queue) /\ a \in InFeed)
  BY <1>5 DEF InOrder
<1> QED BY <1>1, <1>3, <1>4, <1>5

\* The worker takes the first of the queue in hand.
LEMMA ProcessNextMoves ==
  ASSUME CollectorType, InOrder, ProcessNext
  PROVE  /\ InOrder'
         /\ \A o : ItemsOf(o)' = ItemsOf(o)
<1>1. /\ work = Idle /\ work' # Idle /\ work'.item = Head(queue)
      /\ queue \in Seq(Items) /\ queue # <<>> /\ queue' = Tail(queue)
  BY WorkStarts
<1>2. feed' = feed
  BY DEF ProcessNext, informerVars
<1> DEFINE h == Head(queue)
<1>3. Range(queue) = {h} \cup Range(queue')
  BY <1>1, TakeFromLine
<1>4. Chain(queue') /\ \A y \in Range(queue') : Follows(h, y)
  <2>1. Chain(queue)
    BY DEF InOrder
  <2>2. Chain(queue) => Chain(Tail(queue)) /\ \A y \in Range(Tail(queue)) : Follows(Head(queue), y)
    BY <1>1, TakeFromLine
  <2> QED BY <1>1, <2>1, <2>2
<1> HIDE DEF h
<1>5. InHand = {} /\ InHand' = {h} /\ InFeed' = InFeed
  BY <1>1, <1>2 DEF InHand, InFeed, h
<1>6. ASSUME NEW o PROVE ItemsOf(o)' = ItemsOf(o)
  <2>1. (InHand \cup Range(queue) \cup InFeed)' = InHand \cup Range(queue) \cup InFeed
    BY <1>3, <1>5
  <2> QED BY <2>1 DEF ItemsOf, Of
<1>7. InOrder'
  BY <1>2, <1>3, <1>4, <1>5 DEF InOrder
<1> QED BY <1>6, <1>7

\* A feed is given a notification that may come after those under way.
LEMMA FeedMoves ==
  ASSUME CollectorType, InOrder, NEW k \in Kinds, NEW n \in ObjectItems, n.kind = k,
         feed' = [feed EXCEPT ![k] = Append(@, n)], UNCHANGED <<queue, work>>,
         \A y \in ItemsOf(UidOf(n)) : Follows(y, n)
  PROVE  /\ InOrder'
         /\ ItemsOf(UidOf(n))' = ItemsOf(UidOf(n)) \cup {n}
         /\ \A o : o # UidOf(n) => ItemsOf(o)' = ItemsOf(o)
<1>0. LinesType
  BY DEF CollectorType
<1>1. feed'[k] = Append(feed[k], n) /\ \A j \in Kinds \ {k} : feed'[j] = feed[j]
  BY <1>0, FeedGrows
<1>2. feed[k] \in Seq(ObjectItems)
  BY <1>0, LinesHold
<1>3. /\ Range(Append(feed[k], n)) = Range(feed[k]) \cup {n}
      /\ Chain(feed[k]) /\ (\A x \in Range(feed[k]) : Follows(x, n)) => Chain(Append(feed[k], n))
  <2> DEFINE f == feed[k]
  <2>1. f \in Seq(ObjectItems)
    BY <1>2
  <2> HIDE DEF f
  <2>2. /\ Range(Append(f, n)) = Range(f) \cup {n}
        /\ Chain(f) /\ (\A x \in Range(f) : Follows(x, n)) => Chain(Append(f, n))
    BY SMTT(60), <2>1, AppendLine
  <2> QED BY <2>2 DEF f
<1>4. InFeed' = InFeed \cup {n} /\ InHand' = InHand /\ Range(feed[k]) \subseteq InFeed
  <2>1. InHand' = InHand /\ Range(feed[k]) \subseteq InFeed
    BY DEF InHand, InFeed
  <2>2. InFeed' = InFeed \cup {n}
    BY SMTT(60), <1>1, <1>3 DEF InFeed
  <2> QED BY <2>1, <2>2
<1>5. \A y \in InHand \cup Range(queue) \cup InFeed : Follows(y, n)
  BY DEF ItemsOf, Of, Follows
<1>6. InOrder'
  <2>1. \A j \in Kinds : Chain(feed'[j])
    <3>1. \A x \in Range(feed[k]) : Follows(x, n)
      BY <1>4, <1>5
    <3>2. \A j \in Kinds : Chain(feed[j])
      BY DEF InOrder
    <3> QED BY <1>1, <1>3, <3>1, <3>2
  <2>2. \A x \in InHand' : \A y \in Range(queue') \cup InFeed' : Follows(x, y)
    BY <1>4, <1>5 DEF InOrder
  <2>3. \A x \in Range(queue') : \A y \in InFeed' : Follows(x, y)
    BY <1>4, <1>5 DEF InOrder
  <2>4. Chain(queue')
    BY DEF InOrder
  <2> QED BY <2>1, <2>2, <2>3, <2>4 DEF InOrder
<1>7. ASSUME NEW o PROVE ItemsOf(o)' = ItemsOf(o) \cup {x \in {n} : Of(x, o)}
  BY <1>4 DEF ItemsOf, Of
<1>8. Of(n, UidOf(n)) /\ \A o : o # UidOf(n) => ~Of(n, o)
  BY DEF Of
<1> QED BY <1>6, <1>7, <1>8

-----------------------------------------------------------------------------
(* What each step keeps. *)

\* Steps that leave store, worker and cache alone and move no notification in or
\* out.
LEMMA SameItems ==
  ASSUME CollectorType, Running, UNCHANGED <<store, work, cache, podContainers, latest>>,
         InOrder', \A o : ItemsOf(o)' = ItemsOf(o)
  PROVE  Running'
<1>1. ASSUME NEW o \in Objects PROVE ObjectInv(o)'
  <2>1. Busy(o)' = Busy(o)
    BY DEF Busy, Of
  <2>2. ObjectInv(o) /\ ContainersType
    BY DEF Running, CollectorType
  <2> QED BY <2>1, <2>2, Untouched
<1>2. EventsAhead' /\ Progress'
  BY DEF Running, EventsAhead, Progress, Exists
<1> QED BY <1>1, <1>2 DEF Running

\* The informer sees a new state of an object, or that it is gone.
LEMMA ObserveKeeps ==
  ASSUME CollectorType, StoreBehind, Running, NEW o \in Objects, Observe(o)
  PROVE  Running'
<1>0. /\ store[o] \in States /\ api[o] \in States /\ PlacesType /\ ContainersType /\ CacheType
      /\ store[o].revision \in Nat /\ api[o].revision \in Nat
  BY StateFacts DEF CollectorType, PlacesType
<1>1. /\ store' = [store EXCEPT ![o] = api[o]] /\ store[o] # api[o]
      /\ UNCHANGED <<queue, work, cache, podContainers, latest>>
  BY DEF Observe, workerVars
<1>2. store'[o] = api[o] /\ \A p \in Objects \ {o} : store'[p] = store[p]
  BY <1>0, <1>1 DEF PlacesType
<1>3. Behind(o) /\ PublishedBehind(o) /\ Settled(o)
  BY DEF Running, ObjectInv
<1>4. \A x \in ItemsOf(o) : x \in ObjectItems /\ UidOf(x) = o /\ Value(x).revision \in Nat
  BY ItemFacts DEF ItemsOf, Of
<1>5. KindOf[o] \in Kinds /\ "upsert" \in Operations /\ "delete" \in Operations
  BY CollectorAssumption DEF Operations
<1>6. store[o].state # "gone"
  <2>1. CASE api[o] \in LiveStates
    BY <1>0, <2>1, StateFacts DEF StoreBehind, Live
  <2>2. CASE api[o] = Gone /\ store[o] \in LiveStates
    BY <1>0, <2>2, StateFacts DEF Live
  <2> QED BY <1>0, <2>1, <2>2, Observed
<1>7. PICK n \in ObjectItems :
        /\ n.kind = KindOf[o] /\ UidOf(n) = o /\ feed' = [feed EXCEPT ![KindOf[o]] = Append(@, n)]
        /\ \/ n.operation = "upsert" /\ Value(n) = api[o] /\ api[o] \in LiveStates
           \/ n.operation = "delete" /\ Value(n) = store[o] /\ api[o] = Gone /\ store[o] \in LiveStates
  <2>1. CASE api[o] \in LiveStates /\ feed' = [feed EXCEPT ![KindOf[o]] =
                Append(@, Change(KindOf[o], "upsert", [uid |-> o, value |-> api[o]]))]
    <3> DEFINE x == Change(KindOf[o], "upsert", [uid |-> o, value |-> api[o]])
    <3>1. /\ x \in ObjectItems /\ x.kind = KindOf[o] /\ x.operation = "upsert"
          /\ UidOf(x) = o /\ Value(x) = api[o]
      BY SMTT(60), <1>5, <2>1, ChangeIsItem
    <3>2. feed' = [feed EXCEPT ![KindOf[o]] = Append(@, x)]
      BY <2>1
    <3> HIDE DEF x
    <3> QED BY <2>1, <3>1, <3>2
  <2>2. CASE api[o] = Gone /\ store[o] \in LiveStates /\ feed' = [feed EXCEPT ![KindOf[o]] =
                Append(@, Change(KindOf[o], "delete", [uid |-> o, value |-> store[o]]))]
    <3> DEFINE x == Change(KindOf[o], "delete", [uid |-> o, value |-> store[o]])
    <3>1. /\ x \in ObjectItems /\ x.kind = KindOf[o] /\ x.operation = "delete"
          /\ UidOf(x) = o /\ Value(x) = store[o]
      BY SMTT(60), <1>5, <2>2, ChangeIsItem
    <3>2. feed' = [feed EXCEPT ![KindOf[o]] = Append(@, x)]
      BY <2>2
    <3> HIDE DEF x
    <3> QED BY <2>2, <3>1, <3>2
  <2> QED BY <1>0, <2>1, <2>2, Observed
<1>8. n.operation = "upsert" => store[o].revision < api[o].revision
  <2>1. ASSUME n.operation = "upsert"
        PROVE  store[o].revision <= api[o].revision /\ store[o].revision # api[o].revision
    <3>1. api[o].state # "gone"
      BY <1>0, <1>7, <2>1, StateFacts DEF Live
    <3> QED BY <1>1, <3>1 DEF StoreBehind
  <2> QED BY SMTT(60), <1>0, <2>1
<1>9. store[o].revision <= Value(n).revision /\ Value(n).revision \in Nat
  BY SMTT(60), <1>0, <1>7, <1>8
<1>10. \A y \in ItemsOf(o) : /\ y.operation = "upsert" /\ Value(y).revision <= store[o].revision
                             /\ Value(y).revision = store[o].revision => Value(y) = store[o]
  BY <1>3, <1>6 DEF Behind
<1>11. \A y \in ItemsOf(o) : Follows(y, n)
  BY SMTT(60), <1>0, <1>4, <1>7, <1>8, <1>10 DEF Follows
<1>12. /\ InOrder' /\ ItemsOf(o)' = ItemsOf(o) \cup {n}
       /\ \A p : p # o => ItemsOf(p)' = ItemsOf(p)
  BY <1>1, <1>5, <1>7, <1>11, FeedMoves DEF Running
<1>13. Behind(o)'
  <2>1. CASE n.operation = "upsert"
    <3>1. ASSUME NEW x \in ItemsOf(o)'
          PROVE  /\ x.operation = "upsert" /\ Value(x).revision <= api[o].revision
                 /\ Value(x).revision = api[o].revision => Value(x) = api[o]
      BY SMTT(60), <1>0, <1>4, <1>7, <1>8, <1>10, <1>12, <2>1
    <3> QED BY <1>2, <3>1 DEF Behind
  <2>2. CASE n.operation # "upsert"
    BY <1>2, <1>7, <2>2, StateFacts DEF Behind, States
  <2> QED BY <2>1, <2>2
<1>14. PublishedBehind(o)'
  <2>1. ASSUME NEW k \in KeysOf(o)
        PROVE  /\ Rank(latest[k]) <= ItemRank(n)
               /\ n.operation = "upsert" => Rank(latest[k]) <= 2 * api[o].revision
    <3>1. Rank(latest[k]) <= 2 * store[o].revision
      BY <1>3, <1>6 DEF PublishedBehind
    <3>2. Rank(latest[k]) \in Nat
      BY <1>0, RankFacts DEF CacheType, KeysOf
    <3>3. ItemRank(n) \in Nat /\ ItemRank(n) >= 2 * Value(n).revision
      BY SMTT(60), <1>7, <1>9, RankFacts
    <3> QED BY SMTT(60), <1>0, <1>8, <1>9, <3>1, <3>2, <3>3
  <2>2. n.operation # "upsert" => api[o].state = "gone"
    BY <1>0, <1>7, StateFacts
  <2>3. \A k \in KeysOf(o) : \A x \in ItemsOf(o) : Rank(latest[k]) <= ItemRank(x)
    BY <1>3 DEF PublishedBehind
  <2>4. KeysOf(o)' = KeysOf(o) /\ latest' = latest
    BY <1>1 DEF KeysOf
  <2> QED BY <1>2, <1>12, <2>1, <2>2, <2>3, <2>4 DEF PublishedBehind
<1>15. MatchesStore(n, o)'
  <2>1. CASE n.operation = "upsert"
    BY <1>0, <1>2, <1>7, <2>1, StateFacts DEF MatchesStore
  <2>2. CASE n.operation # "upsert"
    <3>1. ~Live(store'[o])
      BY <1>0, <1>2, <1>7, <2>2, StateFacts DEF Live
    <3> QED BY <1>7, <2>2, <3>1 DEF MatchesStore
  <2> QED BY <2>1, <2>2
<1>16. Settled(o)'
  BY <1>12, <1>15 DEF Settled
<1>17. ASSUME o \in PodsOnly PROVE ContainersBehind(o)' /\ DeletesLast(o)' /\ KeptIsCached(o)'
  <2>1. ContainersBehind(o) /\ KeptIsCached(o)
    BY <1>17 DEF Running, ObjectInv
  <2>2. podContainers'[o] = podContainers[o] /\ Busy(o)' = Busy(o) /\ Kept(o)' = Kept(o)
    BY <1>1 DEF Busy, Of, Kept
  <2>3. ASSUME NEW e \in podContainers[o]
        PROVE  /\ e.revision <= Value(n).revision
               /\ e.revision = Value(n).revision => \E c \in Value(n).containers : e.key = ContainerKey(o, c)
               /\ n.operation = "upsert" => e.revision < api[o].revision
    <3>1. e.revision \in Nat
      BY SMTT(60), <1>0, <1>17 DEF ContainersType, Events
    <3>2. /\ e.revision <= store[o].revision
          /\ e.revision = store[o].revision => \E c \in store[o].containers : e.key = ContainerKey(o, c)
      BY <1>6, <2>1 DEF ContainersBehind
    <3>3. CASE n.operation = "upsert"
      BY SMTT(60), <1>0, <1>7, <1>8, <3>1, <3>2, <3>3
    <3>4. CASE n.operation # "upsert"
      BY <1>7, <3>2, <3>4
    <3> QED BY <3>3, <3>4
  <2>4. ContainersBehind(o)'
    <3>1. ASSUME NEW e \in podContainers[o], api[o].state # "gone"
          PROVE  e.revision <= api[o].revision /\ e.revision # api[o].revision
      <4>1. n.operation = "upsert"
        BY <1>0, <1>7, <3>1, StateFacts
      <4>2. e.revision \in Nat
        BY SMTT(60), <1>0, <1>17 DEF ContainersType, Events
      <4> QED BY SMTT(60), <1>0, <2>3, <4>1, <4>2
    <3>2. latest' = latest
      BY <1>1
    <3> QED BY SMTT(60), <1>2, <1>12, <2>1, <2>2, <2>3, <3>1, <3>2 DEF ContainersBehind
  <2>5. DeletesLast(o)'
    <3>1. ASSUME n.operation = "delete"
          PROVE  \/ \E y \in ItemsOf(o) : y.operation = "upsert" /\ Value(y) = Value(n)
                 \/ ItemsOf(o) = {} /\ Kept(o) = Value(n).containers
      <4>1. Live(store[o]) /\ Value(n) = store[o]
        BY <1>0, <1>7, <3>1, StateFacts
      <4> QED BY <1>3, <1>17, <4>1 DEF Settled, MatchesStore
    <3>2. ASSUME NEW x \in ItemsOf(o)', x.operation = "delete" PROVE x = n
      BY <1>10, <1>12, <3>2
    <3> QED BY <1>12, <2>2, <3>1, <3>2 DEF DeletesLast
  <2>6. KeptIsCached(o)'
    BY <1>1, <2>1, <2>2 DEF KeptIsCached, Exists
  <2> QED BY <2>4, <2>5, <2>6
<1>18. ObjectInv(o)'
  BY <1>13, <1>14, <1>16, <1>17 DEF ObjectInv
<1>19. ASSUME NEW p \in Objects, p # o PROVE ObjectInv(p)'
  <2>1. Busy(p)' = Busy(p) /\ ObjectInv(p)
    BY <1>1 DEF Busy, Of, Running
  <2> QED BY <1>0, <1>1, <1>2, <1>12, <1>19, <2>1, Untouched
<1>20. EventsAhead' /\ Progress'
  BY <1>1 DEF Running, EventsAhead, Progress, Exists
<1> QED BY <1>12, <1>18, <1>19, <1>20 DEF Running

\* A resync of the quiet collector notifies an upsert of each live object.
LEMMA ResyncMoves ==
  ASSUME CollectorType, Resync
  PROVE  /\ InOrder' /\ work = Idle /\ \A o : ItemsOf(o) = {}
         /\ \A o \in Objects :
              /\ \A x \in ItemsOf(o)' : x.operation = "upsert" /\ Value(x) = store[o]
              /\ Live(store[o]) => ItemsOf(o)' # {}
<1>0. PlacesType
  BY DEF CollectorType
<1>1. /\ \A k \in Kinds : feed[k] = <<>> /\ feed'[k] \in Orders(ResyncsOf(k))
      /\ queue = <<>> /\ queue' = <<>> /\ work = Idle /\ work' = Idle
  BY DEF Resync, Quiet, workerVars
<1>2. ASSUME NEW k \in Kinds
      PROVE  /\ feed'[k] \in Seq(ResyncsOf(k)) /\ Range(feed'[k]) = ResyncsOf(k)
             /\ \A x \in ResyncsOf(k) : /\ x \in ObjectItems /\ x.kind = k /\ x.operation = "upsert"
                                        /\ Value(x) = store[UidOf(x)]
             /\ \A o \in Objects : Live(store[o]) /\ KindOf[o] = k =>
                  \E x \in ResyncsOf(k) : UidOf(x) = o
  BY <1>0, <1>1, ResyncLists
<1>3. Range(<<>>) = {} /\ Len(<<>>) = 0
  <2>1. DOMAIN <<>> = {} /\ Len(<<>>) = 0
    BY SMTT(60)
  <2> QED BY <2>1 DEF Range
<1>4. InHand = {} /\ InHand' = {} /\ Range(queue) = {} /\ Range(queue') = {} /\ InFeed = {}
  BY <1>1, <1>3 DEF InHand, InFeed
<1>5. InFeed' = UNION {ResyncsOf(k) : k \in Kinds}
  BY SMTT(60), <1>2 DEF InFeed
<1>6. \A o : ItemsOf(o) = {} /\ ItemsOf(o)' = {x \in InFeed' : Of(x, o)}
  BY <1>4 DEF ItemsOf, Of
<1>7. ASSUME NEW o \in Objects
      PROVE  /\ \A x \in ItemsOf(o)' : x.operation = "upsert" /\ Value(x) = store[o]
             /\ Live(store[o]) => ItemsOf(o)' # {}
  <2>1. \A x \in ItemsOf(o)' : x.operation = "upsert" /\ Value(x) = store[o]
    BY SMTT(60), <1>2, <1>5, <1>6 DEF Of
  <2>2. ASSUME Live(store[o]) PROVE ItemsOf(o)' # {}
    <3>1. KindOf[o] \in Kinds
      BY CollectorAssumption
    <3>2. PICK x \in ResyncsOf(KindOf[o]) : UidOf(x) = o
      BY <1>2, <2>2, <3>1
    <3>3. x \in ObjectItems /\ x \in InFeed'
      BY SMTT(60), <1>2, <1>5, <3>1
    <3> QED BY <1>6, <3>2, <3>3 DEF Of
  <2> QED BY <2>1, <2>2
<1>8. ASSUME NEW k \in Kinds PROVE Chain(feed'[k])
  <2> DEFINE s == feed'[k]
  <2>1. s \in Seq(ResyncsOf(k))
    BY <1>2
  <2> HIDE DEF s
  <2>2. \A i \in 1 .. Len(s) : s[i] \in ResyncsOf(k)
    BY <2>1, ElementOfSeq
  <2>3. ASSUME NEW i \in 1 .. Len(s), NEW j \in 1 .. Len(s) PROVE Follows(s[i], s[j])
    <3>1. /\ s[i].operation = "upsert" /\ Value(s[i]) = store[UidOf(s[i])] /\ s[i] \in ObjectItems
          /\ s[j].operation = "upsert" /\ Value(s[j]) = store[UidOf(s[j])]
      BY <1>2, <2>2
    <3>2. Value(s[i]).revision <= Value(s[i]).revision
      <4>1. Value(s[i]).revision \in Nat
        BY <3>1, ItemFacts
      <4> QED BY SMTT(60), <4>1
    <3> QED BY <3>1, <3>2 DEF Follows
  <2> QED BY <2>3 DEF Chain, s
<1>9. Chain(queue')
  BY SMTT(60), <1>1, <1>3 DEF Chain
<1>10. InOrder'
  BY <1>4, <1>8, <1>9 DEF InOrder
<1> QED BY <1>1, <1>6, <1>7, <1>10

\* What a resync keeps.
LEMMA ResyncKeeps ==
  ASSUME CollectorType, Running, Resync
  PROVE  Running'
<1>1. /\ InOrder' /\ work = Idle /\ \A o : ItemsOf(o) = {}
      /\ \A o \in Objects :
           /\ \A x \in ItemsOf(o)' : x.operation = "upsert" /\ Value(x) = store[o]
           /\ Live(store[o]) => ItemsOf(o)' # {}
  BY ResyncMoves
<1>2. UNCHANGED <<store, work, cache, podContainers, latest>>
  BY DEF Resync, workerVars
<1>3. EventsAhead' /\ Progress'
  BY <1>1, <1>2 DEF EventsAhead, Progress
<1>4. ASSUME NEW o \in Objects PROVE ObjectInv(o)'
  <2>1. PublishedBehind(o) /\ Settled(o) /\ store[o] \in States /\ ContainersType /\ CacheType
    BY DEF Running, ObjectInv, CollectorType, PlacesType
  <2>2. \A x \in ItemsOf(o)' : x \in ObjectItems /\ Value(x) \in LiveStates /\ Value(x).revision \in Nat
    BY ItemFacts DEF ItemsOf, Of
  <2>3. ItemsOf(o)' # {} => store[o] \in LiveStates /\ Live(store[o]) /\ store[o].state # "gone"
    BY SMTT(60), <1>1, <2>1, <2>2, StateFacts DEF Live
  <2>4. Behind(o)'
    <3>1. \A x \in ItemsOf(o)' : Value(x).revision <= store[o].revision
      BY SMTT(60), <1>1, <2>2
    <3> QED BY <1>1, <1>2, <3>1 DEF Behind
  <2>5. PublishedBehind(o)'
    <3>1. ASSUME NEW k \in KeysOf(o), NEW x \in ItemsOf(o)' PROVE Rank(latest[k]) <= ItemRank(x)
      <4>1. Rank(latest[k]) <= 2 * store[o].revision
        BY <2>1, <2>3 DEF PublishedBehind
      <4>2. ItemRank(x) = 2 * store[o].revision
        BY <1>1, <2>2, RankFacts
      <4> QED BY <4>1, <4>2
    <3>2. KeysOf(o)' = KeysOf(o) /\ latest' = latest /\ store' = store
      BY <1>2 DEF KeysOf
    <3> QED BY <2>1, <3>1, <3>2 DEF PublishedBehind
  <2>6. Settled(o)'
    <3>1. CASE ItemsOf(o)' # {}
      <4>1. PICK x \in ItemsOf(o)' : TRUE
        BY <3>1
      <4>2. MatchesStore(x, o)'
        BY <1>1, <1>2, <2>3 DEF MatchesStore
      <4> QED BY <4>2 DEF Settled
    <3>2. CASE ItemsOf(o)' = {}
      <4>1. (Exists(ObjectKey(o)) <=> Live(store[o])) /\ (o \in PodsOnly => Kept(o) = store[o].containers)
        BY <1>1, <2>1 DEF Settled
      <4>2. Exists(ObjectKey(o))' = Exists(ObjectKey(o)) /\ Kept(o)' = Kept(o) /\ store' = store
        BY <1>2 DEF Exists, Kept
      <4> QED BY <3>2, <4>1, <4>2 DEF Settled
    <3> QED BY <3>1, <3>2
  <2>7. ASSUME o \in PodsOnly PROVE ContainersBehind(o)' /\ DeletesLast(o)' /\ KeptIsCached(o)'
    <3>1. ContainersBehind(o) /\ KeptIsCached(o) /\ (Busy(o)' <=> Busy(o)) /\ Kept(o)' = Kept(o)
      BY <1>2, <2>7 DEF Running, ObjectInv, Busy, Of, Kept
    <3>2. ContainersBehind(o)'
      BY <1>1, <1>2, <2>3, <3>1 DEF ContainersBehind
    <3>3. DeletesLast(o)'
      BY <1>1 DEF DeletesLast
    <3>4. KeptIsCached(o)'
      BY <1>2, <3>1 DEF KeptIsCached, Exists
    <3> QED BY <3>2, <3>3, <3>4
  <2> QED BY <2>4, <2>5, <2>6, <2>7 DEF ObjectInv
<1> QED BY <1>1, <1>3, <1>4 DEF Running

\* What updatePodContainers leaves of a pod agrees with the upsert it comes from.
LEMMA FinishContainers ==
  ASSUME CollectorType, Running, Finish, NEW o \in PodsOnly, Busy(o)
  PROVE  /\ work.item.operation = "upsert" => Kept(o)' = Value(work.item).containers
         /\ work.item.operation = "delete" => Kept(o)' = {}
         /\ ContainersBehind(o)' /\ KeptIsCached(o)'
<1>0. WorkType /\ ContainersType /\ CacheType
  BY DEF CollectorType
<1> DEFINE x == work.item
           es == work.events
           kept == UpdatePodContainers(x, es)
<1>1. x \in ObjectItems /\ UidOf(x) = o /\ x.kind = "pod"
  BY ItemFacts DEF Busy, Of
<1>2. /\ work # Idle /\ work' = Idle /\ es \in Seq(Events) /\ Yields(x, es)
      /\ work.next \in Nat /\ work.next > Len(es) /\ podContainers'[o] = kept
  BY <1>0, <1>1, Finished
<1>3. UNCHANGED <<store, feed, queue, cache, latest>>
  BY DEF Finish, informerVars
<1>4. /\ x.operation = "delete" => kept = {}
      /\ \A e \in kept : /\ e.operation = "upsert" /\ e.revision = Value(x).revision
                         /\ \E c \in Value(x).containers : e.key = ContainerKey(o, c)
      /\ x.operation = "upsert" => \A c \in Value(x).containers : \E e \in kept : e.key = ContainerKey(o, c)
      /\ kept \subseteq Events
  BY SMTT(60), <1>1, <1>2, KeptAfter
<1>5. kept # {} => x.operation = "upsert"
  BY <1>1, <1>4, ItemFacts DEF Operations
<1>6. x \in ItemsOf(o) /\ x \in InHand
  BY <1>1, <1>2 DEF ItemsOf, InHand, Of
<1>7. Value(x).containers \subseteq Containers /\ Value(x).revision \in Nat
  BY <1>1, ItemFacts
<1>8. Len(es) \in Nat
  BY <1>2, LenProperties
<1>9. kept = {es[i] : i \in {j \in 2 .. Len(es) : es[j].operation # "delete"}} \/ kept = {}
  BY DEF UpdatePodContainers
<1> HIDE DEF kept
<1>10. /\ x.operation = "upsert" => Kept(o)' = Value(x).containers
       /\ x.operation = "delete" => Kept(o)' = {}
  <2>1. Kept(o)' = {c \in Containers : \E e \in kept : e.key = ContainerKey(o, c)}
    BY <1>2 DEF Kept
  <2>2. \A c \in Containers : (\E e \in kept : e.key = ContainerKey(o, c)) => c \in Value(x).containers
    BY SMTT(60), <1>4, KeyFacts
  <2> QED BY <1>4, <1>7, <2>1, <2>2
<1>11. ~Busy(o)'
  BY <1>2 DEF Busy
<1>12. ItemsOf(o)' = Waiting(o) /\ \A y \in Waiting(o) : Follows(x, y) /\ y \in ObjectItems /\ UidOf(y) = o
  <2>1. Waiting(o)' = Waiting(o)
    BY <1>3 DEF Waiting, InFeed, Of
  <2>2. ItemsOf(o)' = Waiting(o)'
    BY <1>11 DEF ItemsOf, Waiting, InHand, Busy
  <2> QED BY <2>1, <2>2, ItemsSplit DEF Running, Waiting, Of
<1>13. ContainersBehind(o)'
  <2>1. ASSUME NEW e \in kept
        PROVE  /\ \A f \in kept : f.revision = e.revision
               /\ Rank(latest[e.key]) <= 2 * e.revision
    <3>1. e.key \in KeysOf(o)
      BY SMTT(60), <1>4, <1>7, KeyFacts DEF KeysOf
    <3>2. Rank(latest[e.key]) <= ItemRank(x)
      BY <1>6, <3>1 DEF Running, ObjectInv, PublishedBehind, PodsOnly
    <3>3. ItemRank(x) = 2 * e.revision
      BY <1>1, <1>4, <1>5, <2>1, RankFacts
    <3> QED BY <1>4, <3>2, <3>3
  <2>2. ASSUME NEW e \in kept, NEW y \in Waiting(o)
        PROVE  /\ e.revision <= Value(y).revision
               /\ e.revision = Value(y).revision => \E c \in Value(y).containers : e.key = ContainerKey(o, c)
    BY <1>1, <1>4, <1>12 DEF Follows
  <2>3. ASSUME NEW e \in kept, store[o].state # "gone"
        PROVE  /\ e.revision <= store[o].revision
               /\ e.revision = store[o].revision => \E c \in store[o].containers : e.key = ContainerKey(o, c)
    <3>1. /\ Value(x).revision <= store[o].revision
          /\ Value(x).revision = store[o].revision => Value(x) = store[o]
      BY <1>6, <2>3 DEF Running, ObjectInv, Behind, PodsOnly
    <3> QED BY <1>4, <3>1
  <2> QED BY <1>2, <1>3, <1>12, <2>1, <2>2, <2>3 DEF ContainersBehind
<1>14. KeptIsCached(o)'
  <2>1. \A i \in 1 .. Len(es) : Exists(es[i].key) <=> es[i].operation = "upsert"
    <3>1. \A i \in 1 .. Len(es) : i < work.next
      BY SMTT(60), <1>2, <1>8
    <3> QED BY <1>1, <1>2, <3>1 DEF Running, Progress
  <2>2. ASSUME NEW c \in Containers, Exists(ContainerKey(o, c)) PROVE c \in Kept(o)'
    <3>1. PICK i \in 1 .. Len(es) : es[i].key = ContainerKey(o, c)
      BY <1>1, <1>2, <2>2 DEF Running, Progress
    <3>2. es[i].operation = "upsert"
      BY <2>1, <2>2, <3>1
    <3>3. i # 1
      <4>1. es[1].key = ObjectKey(o)
        BY <1>1, <1>2, ItemFacts DEF Yields
      <4> QED BY <3>1, <4>1, KeyFacts DEF PodsOnly
    <3>4. i \in 2 .. Len(es)
      BY SMTT(60), <1>8, <3>3
    <3>5. /\ es[i].operation = x.operation
          /\ \E d \in Value(x).containers : es[i].key = ContainerKey(o, d)
      BY SMTT(60), <1>1, <1>2, <3>2, <3>4, ContainerEventCases
    <3>6. c \in Value(x).containers
      BY <3>1, <3>5, KeyFacts
    <3> QED BY <1>10, <3>2, <3>5, <3>6
  <2>3. ASSUME NEW c \in Kept(o)' PROVE Exists(ContainerKey(o, c))
    <3>1. PICK e \in kept : e.key = ContainerKey(o, c)
      BY <1>2 DEF Kept
    <3>2. PICK i \in 2 .. Len(es) : es[i] = e
      BY <1>9
    <3>3. i \in 1 .. Len(es)
      BY SMTT(60), <1>8
    <3> QED BY <1>4, <2>1, <3>1, <3>2, <3>3
  <2>4. \A c \in Containers : Exists(ContainerKey(o, c))' <=> Exists(ContainerKey(o, c))
    BY <1>3 DEF Exists
  <2> QED BY <2>2, <2>3, <2>4 DEF KeptIsCached
<1> QED BY <1>10, <1>13, <1>14

\* The worker is done with a change of object o.
LEMMA FinishObject ==
  ASSUME CollectorType, Running, Finish, NEW o \in Objects, Busy(o)
  PROVE  ObjectInv(o)'
<1>0. WorkType /\ ContainersType /\ CacheType /\ LinesType /\ store[o] \in States
  BY DEF CollectorType, PlacesType
<1> DEFINE x == work.item
           es == work.events
<1>1. x \in ObjectItems /\ UidOf(x) = o /\ x.operation \in Operations
  BY ItemFacts DEF Busy, Of
<1>2. /\ work # Idle /\ work' = Idle /\ es \in Seq(Events) /\ Yields(x, es)
      /\ work.next \in Nat /\ work.next > Len(es)
  BY <1>0, Finished
<1>3. UNCHANGED <<store, feed, queue, cache, latest>>
  BY DEF Finish, informerVars
<1>4. /\ ItemsOf(o) = {x} \cup Waiting(o)
      /\ \A y \in Waiting(o) : Follows(x, y) /\ y \in ObjectItems /\ UidOf(y) = o
  BY ItemsSplit DEF Running, Waiting, Of
<1>5. ItemsOf(o)' = Waiting(o)
  <2>1. Waiting(o)' = Waiting(o)
    BY <1>3 DEF Waiting, InFeed, Of
  <2>2. ItemsOf(o)' = Waiting(o)'
    BY <1>2 DEF ItemsOf, Waiting, InHand
  <2> QED BY <2>1, <2>2
<1>6. Behind(o) /\ PublishedBehind(o) /\ Settled(o)
  BY DEF Running, ObjectInv
<1>7. Behind(o)' /\ PublishedBehind(o)'
  BY <1>3, <1>4, <1>5, <1>6 DEF Behind, PublishedBehind, KeysOf
<1>8. PICK y \in ItemsOf(o) : MatchesStore(y, o)
  BY <1>4, <1>6 DEF Settled
<1>9. \A z : MatchesStore(z, o)' <=> MatchesStore(z, o)
  BY <1>3 DEF MatchesStore
<1>10. o \in PodsOnly => /\ x.operation = "upsert" => Kept(o)' = Value(x).containers
                         /\ x.operation = "delete" => Kept(o)' = {}
                         /\ ContainersBehind(o)' /\ KeptIsCached(o)'
  BY FinishContainers
<1>11. Settled(o)'
  <2>1. CASE Waiting(o) = {}
    <3>1. MatchesStore(x, o)
      BY <1>4, <1>8, <2>1
    <3>2. x.operation = "upsert" <=> Live(store[o])
      BY <1>1, <3>1 DEF MatchesStore, Operations
    <3>3. Exists(ObjectKey(o)) <=> x.operation = "upsert"
      <4>1. Len(es) >= 1 /\ Reports(es[1], x) /\ es[1].key = ObjectKey(o)
        BY <1>1, <1>2, ItemFacts DEF Yields
      <4>2. 1 \in 1 .. Len(es) /\ 1 < work.next
        <5>1. Len(es) \in Nat
          BY <1>2, LenProperties
        <5> QED BY SMTT(60), <1>2, <4>1, <5>1
      <4>3. Exists(es[1].key) <=> es[1].operation = "upsert"
        BY <1>1, <1>2, <4>2 DEF Running, Progress
      <4> QED BY <4>1, <4>3 DEF Reports
    <3>4. ASSUME o \in PodsOnly PROVE Kept(o)' = store[o].containers
      <4>1. CASE x.operation = "upsert"
        BY <1>10, <3>1, <3>2, <3>4, <4>1 DEF MatchesStore
      <4>2. CASE x.operation = "delete"
        BY <1>0, <1>10, <3>2, <3>4, <4>2, StateFacts
      <4> QED BY <1>1, <4>1, <4>2 DEF Operations
    <3>5. Exists(ObjectKey(o))' <=> Exists(ObjectKey(o))
      BY <1>3 DEF Exists
    <3> QED BY <1>3, <1>5, <2>1, <3>2, <3>3, <3>4, <3>5 DEF Settled
  <2>2. CASE y \in Waiting(o)
    BY <1>5, <1>8, <1>9, <2>2 DEF Settled
  <2>3. CASE y = x /\ Waiting(o) # {}
    <3>1. PICK z \in Waiting(o) : TRUE
      BY <2>3
    <3>2. Follows(x, z) /\ z \in ObjectItems /\ UidOf(z) = o
      BY <1>4, <3>1
    <3>3. x.operation = "upsert" /\ Value(x).revision <= Value(z).revision
      BY <1>1, <3>2 DEF Follows
    <3>4. Live(store[o]) /\ Value(x) = store[o]
      BY <1>8, <2>3, <3>3 DEF MatchesStore
    <3>5. /\ z.operation = "upsert" /\ Value(z).revision <= store[o].revision
          /\ Value(z).revision = store[o].revision => Value(z) = store[o]
      BY <1>4, <1>6, <3>1, <3>4 DEF Behind, Live
    <3>6. Value(z).revision = store[o].revision
      <4>1. Value(z).revision \in Nat /\ store[o].revision \in Nat
        BY <1>0, <3>2, ItemFacts, StateFacts
      <4> QED BY SMTT(60), <3>3, <3>4, <3>5, <4>1
    <3>7. MatchesStore(z, o)
      BY <3>4, <3>5, <3>6 DEF MatchesStore
    <3> QED BY <1>5, <1>9, <3>1, <3>7 DEF Settled
  <2> QED BY <1>4, <1>8, <2>1, <2>2, <2>3
<1>12. ASSUME o \in PodsOnly PROVE DeletesLast(o)'
  <2>1. ASSUME NEW d \in Waiting(o), d.operation = "delete"
        PROVE  \/ \E z \in Waiting(o) : z.operation = "upsert" /\ Value(z) = Value(d)
               \/ Waiting(o) = {d} /\ Kept(o)' = Value(d).containers
    <3>1. /\ x.operation = "upsert" /\ Value(x).revision <= Value(d).revision
          /\ Value(x).revision = Value(d).revision => Value(x) = Value(d)
      BY <1>1, <1>4, <2>1 DEF Follows
    <3>2. PICK z \in ItemsOf(o) : z.operation = "upsert" /\ Value(z) = Value(d)
      <4>1. \/ \E z \in ItemsOf(o) : z.operation = "upsert" /\ Value(z) = Value(d)
            \/ ItemsOf(o) = {d}
        BY <1>4, <1>12, <2>1 DEF Running, ObjectInv, DeletesLast
      <4> QED BY <1>4, <2>1, <3>1, <4>1
    <3>3. CASE z \in Waiting(o)
      BY <3>2, <3>3
    <3>4. CASE z = x /\ Waiting(o) = {d}
      BY <1>10, <1>12, <3>1, <3>2, <3>4
    <3>5. CASE z = x /\ Waiting(o) # {d}
      <4>1. PICK w \in Waiting(o) : w # d
        BY <2>1, <3>5
      <4>2. ~Follows(d, w)
        BY <1>4, <2>1, <4>1 DEF Follows
      <4>3. Follows(w, d)
        BY <1>0, <2>1, <4>1, <4>2, WaitingInLine DEF Running
      <4>4. /\ w.operation = "upsert" /\ Value(w).revision <= Value(d).revision
            /\ Value(w).revision = Value(d).revision => Value(w) = Value(d)
        BY <1>4, <2>1, <4>1, <4>3 DEF Follows
      <4>5. Value(x).revision <= Value(w).revision
        BY <1>1, <1>4, <4>1 DEF Follows
      <4>6. Value(w).revision \in Nat /\ Value(d).revision \in Nat
        BY <1>4, <2>1, <4>1, ItemFacts
      <4>7. Value(x) = Value(d)
        BY <3>2, <3>5
      <4>8. Value(w).revision = Value(d).revision
        BY SMTT(60), <4>4, <4>5, <4>6, <4>7
      <4> QED BY <4>1, <4>4, <4>8
    <3> QED BY <1>4, <3>2, <3>3, <3>4, <3>5
  <2> QED BY <1>5, <2>1 DEF DeletesLast
<1> QED BY <1>7, <1>10, <1>11, <1>12 DEF ObjectInv

\* Everything of a change is published: what Finish keeps.
LEMMA FinishKeeps ==
  ASSUME CollectorType, Running, Finish
  PROVE  Running'
<1>0. WorkType /\ ContainersType
  BY DEF CollectorType
<1>1. work # Idle /\ work' = Idle /\ work.item \in Items
  BY <1>0, Finished
<1>2. UNCHANGED <<store, feed, queue, cache, latest>>
  BY DEF Finish, informerVars
<1>3. InHand' = {} /\ InFeed' = InFeed
  BY <1>1, <1>2 DEF InHand, InFeed
<1>4. InOrder'
  BY <1>2, <1>3 DEF Running, InOrder
<1>5. EventsAhead' /\ Progress'
  BY <1>1 DEF EventsAhead, Progress
<1>6. ASSUME NEW o \in Objects, ~Busy(o) PROVE ObjectInv(o)'
  <2>1. ItemsOf(o)' = ItemsOf(o)
    <3>1. ~Of(work.item, o)
      BY <1>1, <1>6 DEF Busy
    <3> QED BY <1>1, <1>2, <1>3, <3>1 DEF ItemsOf, Of, InHand
  <2>2. o \in PodsOnly => podContainers'[o] = podContainers[o]
    <3>1. CASE work.item \in ObjectItems /\ work.item.kind = "pod"
      <4>1. UidOf(work.item) # o
        BY <1>1, <1>6, <3>1 DEF Busy, Of
      <4> QED BY <1>0, <3>1, <4>1, Finished
    <3>2. CASE ~(work.item \in ObjectItems /\ work.item.kind = "pod")
      BY <1>0, <1>1, <3>2, Finished DEF Items
    <3> QED BY <3>1, <3>2
  <2>3. ObjectInv(o)
    BY DEF Running
  <2> QED BY <1>0, <1>2, <1>6, <2>1, <2>2, <2>3, Untouched
<1>7. \A o \in Objects : ObjectInv(o)'
  BY <1>6, FinishObject
<1> QED BY <1>4, <1>5, <1>7 DEF Running

\* Key and rank of the events of a change the worker takes in hand.
LEMMA TakenEvents ==
  ASSUME CollectorType, Running, work = Idle, NEW x \in ObjectItems, x \in ItemsOf(UidOf(x)),
         NEW es \in EventsOf(x), NEW i \in 1 .. Len(es)
  PROVE  /\ es[i] \in Events /\ es[i].key \in KeysOf(UidOf(x))
         /\ Rank(latest[es[i].key]) <= Rank(es[i])
         /\ \/ Reports(es[i], x) /\ Rank(es[i]) = ItemRank(x)
            \/ /\ x.kind = "pod" /\ x.operation = "upsert" /\ es[i].operation = "delete"
               /\ \E c \in Containers \ Value(x).containers : es[i].key = ContainerKey(UidOf(x), c)
               /\ \E f \in podContainers[UidOf(x)] : f.revision = es[i].revision
               /\ Rank(es[i]) <= ItemRank(x)
<1>0. CacheType /\ ContainersType
  BY DEF CollectorType
<1> DEFINE o == UidOf(x)
<1>1. /\ es \in Seq(Events) /\ Yields(x, es) /\ o \in Objects /\ x \in Items /\ x \notin Markers
      /\ Value(x).revision \in Nat /\ Value(x).containers \subseteq Containers /\ x.operation \in Operations
  BY EventsYielded, ItemFacts DEF Items
<1>2. es[i] \in Events
  BY <1>1, ElementOfSeq
<1>3. PublishedBehind(o)
  BY <1>1 DEF Running, ObjectInv
<1>4. ASSUME Reports(es[i], x)
      PROVE  /\ es[i].key \in KeysOf(o) /\ Rank(latest[es[i].key]) <= Rank(es[i])
             /\ Rank(es[i]) = ItemRank(x)
  <2>1. es[i].key \in KeysOf(o)
    BY <1>1, <1>2, <1>4 DEF Reports, KeysOf, Events
  <2>2. Rank(es[i]) = ItemRank(x)
    BY SMTT(60), <1>2, <1>4, RankFacts, <1>1 DEF Reports, Operations
  <2> QED BY <1>3, <2>1, <2>2 DEF PublishedBehind
<1>5. ASSUME x.kind = "pod", x.operation = "upsert", es[i] \in RemovedContainers(x)
      PROVE  /\ es[i].key \in KeysOf(o) /\ Rank(latest[es[i].key]) <= Rank(es[i])
             /\ es[i].operation = "delete"
             /\ \E c \in Containers \ Value(x).containers : es[i].key = ContainerKey(o, c)
             /\ \E f \in podContainers[o] : f.revision = es[i].revision
             /\ Rank(es[i]) <= ItemRank(x)
  <2>1. Withdraws(es[i], x) /\ \E f \in podContainers[o] : f.key = es[i].key /\ f.revision = es[i].revision
    BY <1>5, WithdrawFacts
  <2>2. PICK f \in podContainers[o] : f.key = es[i].key /\ f.revision = es[i].revision
    BY <2>1
  <2>3. /\ es[i].operation = "delete"
        /\ \E c \in Containers \ Value(x).containers : es[i].key = ContainerKey(o, c)
    BY <2>1 DEF Withdraws
  <2>4. o \in PodsOnly /\ ~Busy(o)
    BY <1>5, ItemFacts DEF Busy
  <2>5. /\ Rank(latest[f.key]) <= 2 * f.revision
        /\ f.revision <= Value(x).revision
        /\ f.revision = Value(x).revision => \E c \in Value(x).containers : f.key = ContainerKey(o, c)
    BY <1>1, <2>4 DEF Running, ObjectInv, ContainersBehind
  <2>6. f.revision # Value(x).revision
    BY <2>2, <2>3, <2>5, KeyFacts
  <2>7. Rank(es[i]) = 2 * f.revision + 1 /\ ItemRank(x) = 2 * Value(x).revision /\ f.revision \in Nat
    <3>1. es[i].revision \in Nat
      BY <1>2 DEF Events
    <3> QED BY <1>2, <1>5, <2>2, <2>3, <3>1, RankFacts
  <2>8. es[i].key \in KeysOf(o)
    BY <1>2, <2>3 DEF KeysOf, Events
  <2>9. Rank(latest[es[i].key]) \in Nat
    BY <1>0, <2>8, RankFacts DEF CacheType, KeysOf
  <2>10. Rank(latest[es[i].key]) <= Rank(es[i]) /\ Rank(es[i]) <= ItemRank(x)
    BY SMTT(60), <1>1, <2>2, <2>5, <2>6, <2>7, <2>9
  <2> QED BY <2>2, <2>3, <2>8, <2>10
<1>6. Reports(es[i], x) \/ (x.kind = "pod" /\ x.operation = "upsert" /\ es[i] \in RemovedContainers(x))
  <2>1. CASE i = 1
    BY <1>1, <2>1 DEF Yields
  <2>2. CASE i # 1
    <3>1. i \in 2 .. Len(es)
      BY SMTT(60), <1>1, <2>2, LenProperties
    <3>2. x.kind = "pod"
      <4>1. x.kind # "pod" => Len(es) = 1
        BY <1>1 DEF Yields
      <4> QED BY SMTT(60), <2>2, <4>1
    <3>3. es[i] \in ContainerEvents(x) \cup Withdrawn(x)
      BY <3>1, <3>2, PodEvents
    <3> QED BY <3>2, <3>3, ReportFacts DEF Withdrawn
  <2> QED BY <2>1, <2>2
<1> QED BY <1>2, <1>4, <1>5, <1>6

\* The worker takes a change in hand.
LEMMA ProcessNextKeeps ==
  ASSUME CollectorType, Running, ProcessNext
  PROVE  Running'
<1>0. ContainersType /\ LinesType
  BY DEF CollectorType
<1>1. InOrder' /\ \A o : ItemsOf(o)' = ItemsOf(o)
  BY ProcessNextMoves DEF Running
<1>2. UNCHANGED <<store, cache, podContainers, latest>>
  BY DEF ProcessNext, informerVars
<1>3. /\ work = Idle /\ work' # Idle /\ work'.item \in Items /\ work'.next = 1
      /\ work'.events \in EventsOf(work'.item) /\ work'.events \in Seq(Events)
      /\ queue \in Seq(Items) /\ queue # <<>> /\ work'.item = Head(queue)
  BY WorkStarts
<1>4. ASSUME NEW o \in Objects PROVE ObjectInv(o)'
  <2>1. ~Busy(o) /\ ObjectInv(o)
    BY <1>3 DEF Busy, Running
  <2> QED BY <1>0, <1>1, <1>2, <2>1, Untouched
<1> DEFINE x == work'.item
           es == work'.events
<1>5. ASSUME x \in ObjectItems PROVE x \in ItemsOf(UidOf(x))
  <2>1. Head(queue) \in Range(queue)
    BY <1>3, TakeFromLine
  <2> QED BY <1>3, <1>5, <2>1 DEF ItemsOf, Of
<1>6. \A p : \A y \in ItemsOf(p) : y \in InHand' \cup Range(queue') \cup InFeed'
  BY <1>1 DEF ItemsOf
<1>7. EventsAhead'
  <2>1. ASSUME x \in ObjectItems, NEW i \in 1 .. Len(es)
        PROVE  Rank(es[i]) <= ItemRank(x) /\ Rank(latest[es[i].key]) <= Rank(es[i])
    <3>1. Rank(latest[es[i].key]) <= Rank(es[i]) /\ (Rank(es[i]) = ItemRank(x) \/ Rank(es[i]) <= ItemRank(x))
      BY <1>3, <1>5, <2>1, TakenEvents
    <3>2. ItemRank(x) \in Nat
      BY <2>1, RankFacts
    <3> QED BY SMTT(60), <3>1, <3>2
  <2>2. ASSUME x \in ObjectItems, NEW i \in 1 .. Len(es), NEW j \in 1 .. Len(es), es[i].key = es[j].key
        PROVE  Rank(es[i]) = Rank(es[j])
    <3> DEFINE R(n) == Reports(es[n], x) /\ Rank(es[n]) = ItemRank(x)
               W(n) == /\ x.kind = "pod" /\ x.operation = "upsert" /\ es[n].operation = "delete"
                       /\ \E c \in Containers \ Value(x).containers : es[n].key = ContainerKey(UidOf(x), c)
                       /\ \E f \in podContainers[UidOf(x)] : f.revision = es[n].revision
    <3>1. \A n \in 1 .. Len(es) : es[n] \in Events /\ (R(n) \/ W(n))
      BY SMTT(60), <1>3, <1>5, <2>2, TakenEvents
    <3>2. CASE R(i) /\ R(j)
      BY <3>2
    <3>3. CASE W(i) /\ W(j)
      <4>1. UidOf(x) \in PodsOnly
        BY <2>2, <3>3, ItemFacts
      <4>2. \A e, f \in podContainers[UidOf(x)] : f.revision = e.revision
        BY <4>1 DEF Running, ObjectInv, ContainersBehind, PodsOnly
      <4>3. es[i].revision = es[j].revision
        BY <3>3, <4>2
      <4> QED BY SMTT(60), <3>1, <3>3, <4>3, RankFacts
    <3>4. \A n, m \in 1 .. Len(es) : R(n) /\ W(m) => es[n].key # es[m].key
      <4>1. UidOf(x) \in Objects
        BY <2>2, ItemFacts
      <4> QED BY SMTT(60), <4>1, KeyFacts DEF Reports
    <3> HIDE DEF R, W
    <3> QED BY <2>2, <3>1, <3>2, <3>3, <3>4
  <2> QED BY <1>2, <2>1, <2>2 DEF EventsAhead
<1>8. Progress'
  <2>1. \A i \in 1 .. Len(es) : ~(i < work'.next)
    BY SMTT(60), <1>3
  <2>2. ASSUME x \in ObjectItems, x.kind = "pod", NEW c \in Containers, Exists(ContainerKey(UidOf(x), c))
        PROVE  \E i \in 1 .. Len(es) : es[i].key = ContainerKey(UidOf(x), c)
    <3> DEFINE o == UidOf(x)
    <3>1. o \in PodsOnly /\ o \in Objects /\ ~Busy(o) /\ x.operation \in Operations /\ x \notin Markers
      BY <1>3, <2>2, ItemFacts DEF Busy
    <3>2. c \in Kept(o)
      BY <2>2, <3>1 DEF Running, ObjectInv, KeptIsCached
    <3>3. Len(es) \in Nat /\ \A i \in 2 .. Len(es) : i \in 1 .. Len(es)
      BY SMTT(60), <1>3, LenProperties
    <3>4. Yields(x, es)
      BY <1>3, EventsYielded
    <3>5. CASE c \in Value(x).containers
      BY <2>2, <3>1, <3>3, <3>4, <3>5 DEF Yields
    <3>6. CASE c \notin Value(x).containers /\ x.operation = "upsert"
      <4>1. PICK f \in podContainers[o] : f.key = ContainerKey(o, c)
        BY <3>2 DEF Kept
      <4>2. \A g \in ContainerEvents(x) : g.key # f.key
        BY SMTT(60), <2>2, <3>6, <4>1, ReportFacts, KeyFacts
      <4>3. PICK e \in RemovedContainers(x) : e.key = f.key
        BY <2>2, <3>6, <4>1, <4>2, WithdrawFacts
      <4>4. e \in Withdrawn(x)
        BY <3>6, <4>3 DEF Withdrawn
      <4>5. \E i \in 2 .. Len(es) : es[i] = e
        BY <1>3, <2>2, <4>4, PodEvents
      <4> QED BY <3>3, <4>1, <4>3, <4>5
    <3>7. CASE c \notin Value(x).containers /\ x.operation = "delete"
      <4>1. x \in ItemsOf(o) /\ DeletesLast(o)
        BY <1>5, <2>2, <3>1 DEF Running, ObjectInv
      <4>2. ~(ItemsOf(o) = {x} /\ Kept(o) = Value(x).containers)
        BY <3>2, <3>7
      <4>3. PICK y \in ItemsOf(o) : y.operation = "upsert" /\ Value(y) = Value(x)
        BY <3>7, <4>1, <4>2 DEF DeletesLast
      <4>4. y \in ObjectItems /\ UidOf(y) = o
        BY <4>3 DEF ItemsOf, Of
      <4>5. Follows(x, y)
        <5>1. y \in InHand' \cup Range(queue') \cup InFeed'
          BY <1>6, <4>3
        <5>2. InHand' = {x} /\ y \notin {x}
          BY <1>3, <3>7, <4>3 DEF InHand
        <5> QED BY <1>1, <5>1, <5>2 DEF InOrder
      <4> QED BY <2>2, <3>7, <4>4, <4>5 DEF Follows
    <3> QED BY <3>1, <3>5, <3>6, <3>7 DEF Operations
  <2>3. \A k : Exists(k)' <=> Exists(k)
    BY <1>2 DEF Exists
  <2> QED BY <2>1, <2>2, <2>3 DEF Progress
<1> QED BY <1>1, <1>4, <1>7, <1>8 DEF Running

\* The worker goes on with the change in hand.
LEMMA WorkMoves ==
  ASSUME CollectorType, Running, SkipDelta \/ PublishDelta
  PROVE  /\ InOrder' /\ \A o : ItemsOf(o)' = ItemsOf(o) /\ (Busy(o)' <=> Busy(o))
         /\ work # Idle /\ work' # Idle /\ work'.item = work.item /\ work'.events = work.events
         /\ work'.next = work.next + 1 /\ work.next \in 1 .. Len(work.events)
         /\ work.events[work.next] = Current /\ work.events \in Seq(Events)
         /\ Current \in Events /\ (Deletes(Current) <=> Current.operation = "delete")
         /\ UNCHANGED <<store, feed, queue, podContainers>>
<1>0. WorkType
  BY DEF CollectorType
<1>1. /\ Working /\ work' = [work EXCEPT !.next = @ + 1]
      /\ UNCHANGED <<store, feed, queue, podContainers>>
  BY DEF SkipDelta, PublishDelta, informerVars
<1>2. /\ work # Idle /\ work' # Idle /\ work'.item = work.item /\ work'.events = work.events
      /\ work'.next = work.next + 1
  BY <1>0, <1>1, WorkAdvances DEF Working
<1>3. /\ work.next \in 1 .. Len(work.events)
      /\ work.events[work.next] = Current /\ work.events \in Seq(Events)
      /\ Current \in Events /\ (Deletes(Current) <=> Current.operation = "delete")
  BY <1>0, <1>1, CurrentFacts
<1>4. InHand' = InHand /\ InFeed' = InFeed /\ queue' = queue /\ feed' = feed
  BY <1>1, <1>2 DEF InHand, InFeed
<1>5. InOrder'
  BY <1>4 DEF Running, InOrder
<1>6. \A o : ItemsOf(o)' = ItemsOf(o) /\ (Busy(o)' <=> Busy(o))
  BY <1>2, <1>4 DEF ItemsOf, Of, Busy
<1> QED BY <1>1, <1>2, <1>3, <1>5, <1>6

\* An event that says nothing new is skipped.
LEMMA SkipKeeps ==
  ASSUME CollectorType, Running, SkipDelta
  PROVE  Running'
<1>0. ContainersType
  BY DEF CollectorType
<1>1. /\ InOrder' /\ \A o : ItemsOf(o)' = ItemsOf(o) /\ (Busy(o)' <=> Busy(o))
      /\ work # Idle /\ work' # Idle /\ work'.item = work.item /\ work'.events = work.events
      /\ work'.next = work.next + 1 /\ work.next \in 1 .. Len(work.events)
      /\ work.events[work.next] = Current
      /\ Current \in Events /\ (Deletes(Current) <=> Current.operation = "delete")
      /\ UNCHANGED <<store, feed, queue, podContainers>>
  BY WorkMoves
<1>2. UNCHANGED <<cache, latest>> /\ NothingToSay(Current)
  BY DEF SkipDelta
<1>3. ASSUME NEW o \in Objects PROVE ObjectInv(o)'
  <2>1. ObjectInv(o)
    BY DEF Running
  <2> QED BY <1>0, <1>1, <1>2, <2>1, Untouched
<1>4. EventsAhead'
  <2>1. \A i \in 1 .. Len(work.events) : i >= work'.next => i >= work.next
    BY SMTT(60), <1>1
  <2> QED BY <1>1, <1>2, <2>1 DEF Running, EventsAhead
<1>5. Progress'
  <2>1. \A i \in 1 .. Len(work.events) : i < work'.next => i < work.next \/ i = work.next
    BY SMTT(60), <1>1
  <2>2. Exists(Current.key) <=> Current.operation = "upsert"
    <3>1. Current.operation \in Operations /\ Current.body # <<>>
      BY <1>1, BodyFacts DEF Events
    <3>2. CASE Current.operation = "delete"
      BY <1>1, <1>2, <3>2 DEF NothingToSay
    <3>3. CASE Current.operation = "upsert"
      BY <1>1, <1>2, <3>1, <3>3 DEF NothingToSay, Changed, Fingerprint, Exists
    <3> QED BY <3>1, <3>2, <3>3 DEF Operations
  <2>3. \A k : Exists(k)' <=> Exists(k)
    BY <1>2 DEF Exists
  <2> QED BY <1>1, <2>1, <2>2, <2>3 DEF Running, Progress
<1> QED BY <1>1, <1>3, <1>4, <1>5 DEF Running

\* The event published is of a key of the object in hand, or of no object.
LEMMA PublishedKey ==
  ASSUME CollectorType, Working, NEW o \in Objects, Current.key \in KeysOf(o)
  PROVE  Busy(o)
<1>1. /\ work # Idle /\ work.item \in Items /\ Yields(work.item, work.events)
      /\ work.next \in 1 .. Len(work.events) /\ work.events[work.next] = Current
      /\ work.events \in Seq(Events)
  BY CurrentFacts DEF CollectorType, WorkType, Working
<1>2. Current.key = ObjectKey(o) \/ \E c \in Containers : Current.key = ContainerKey(o, c)
  BY DEF KeysOf
<1>3. CASE work.item \in Markers
  <2>1. work.events = <<work.item.object>>
    BY <1>1, <1>3 DEF Yields
  <2>2. Current = work.item.object
    BY SMTT(60), <1>1, <2>1
  <2> QED BY <1>2, <1>3, <2>2, MarkerFacts
<1>4. CASE work.item \in ObjectItems
  <2>1. work.item \notin Markers /\ UidOf(work.item) \in Objects
    BY <1>4, ItemFacts
  <2>2. work.next = 1 \/ work.next \in 2 .. Len(work.events)
    BY SMTT(60), <1>1, LenProperties
  <2>3. Reports(Current, work.item) \/ Withdraws(Current, work.item)
    BY <1>1, <2>1, <2>2 DEF Yields
  <2>4. Current.key = ObjectKey(UidOf(work.item)) \/ \E c : Current.key = ContainerKey(UidOf(work.item), c)
    BY <2>3 DEF Reports, Withdraws
  <2>5. UidOf(work.item) = o
    BY SMTT(60), <1>2, <2>1, <2>4, KeyFacts
  <2> QED BY <1>1, <1>4, <2>5 DEF Busy, Of
<1> QED BY <1>1, <1>3, <1>4 DEF Items

\* An event is published, and then cached.
LEMMA PublishKeeps ==
  ASSUME CollectorType, Running, PublishDelta
  PROVE  Running'
<1>0. ContainersType /\ CacheType /\ WorkType /\ PlacesType
  BY DEF CollectorType
<1>1. /\ InOrder' /\ \A o : ItemsOf(o)' = ItemsOf(o) /\ (Busy(o)' <=> Busy(o))
      /\ work # Idle /\ work' # Idle /\ work'.item = work.item /\ work'.events = work.events
      /\ work'.next = work.next + 1 /\ work.next \in 1 .. Len(work.events)
      /\ work.events[work.next] = Current /\ work.events \in Seq(Events)
      /\ UNCHANGED <<store, feed, queue, podContainers>>
  BY WorkMoves
<1> DEFINE e == Current
           x == work.item
           es == work.events
<1>2. /\ Working /\ e \in Events /\ e.key \in Keys /\ latest'[e.key] = e
      /\ cache'[e.key] = IF e.operation = "delete" THEN <<>> ELSE e.body
      /\ \A k \in Keys \ {e.key} : latest'[k] = latest[k] /\ cache'[k] = cache[k]
  BY <1>0, Published
<1> HIDE DEF e
<1>3. ASSUME NEW o \in Objects, ~Busy(o) PROVE ObjectInv(o)'
  <2>1. e.key \notin KeysOf(o)
    BY <1>2, <1>3, PublishedKey DEF e
  <2>2. \A k \in KeysOf(o) : latest'[k] = latest[k] /\ cache'[k] = cache[k]
    BY <1>2, <2>1 DEF KeysOf
  <2>3. ObjectInv(o)
    BY DEF Running
  <2> QED BY <1>0, <1>1, <1>3, <2>2, <2>3, Untouched
<1>4. ASSUME NEW o \in Objects, Busy(o) PROVE ObjectInv(o)'
  <2>1. x \in ObjectItems /\ UidOf(x) = o /\ ObjectInv(o) /\ x \in ItemsOf(o)
    BY <1>1, <1>4 DEF Busy, Of, Running, ItemsOf, InHand
  <2>2. Behind(o)'
    BY <1>1, <2>1 DEF ObjectInv, Behind
  <2>3. PublishedBehind(o)'
    <3>1. Rank(e) <= ItemRank(x) /\ Rank(e) \in Nat /\ ItemRank(x) \in Nat
      BY <1>1, <1>2, <2>1, RankFacts DEF Running, EventsAhead, e
    <3>2. ASSUME NEW y \in ItemsOf(o) PROVE Rank(e) <= ItemRank(y)
      <4>1. y = x \/ (y \in Waiting(o) /\ Follows(x, y))
        BY <1>4, <3>2, ItemsSplit DEF Running
      <4>2. CASE y = x
        BY <3>1, <4>2
      <4>3. CASE Follows(x, y)
        <5>1. y \in ObjectItems /\ UidOf(y) = o
          BY <3>2 DEF ItemsOf, Of
        <5>2. x.operation = "upsert" /\ Value(x).revision <= Value(y).revision
          BY <2>1, <4>3, <5>1 DEF Follows
        <5>3. Value(x).revision \in Nat /\ Value(y).revision \in Nat /\ y.operation \in Operations
          BY <2>1, <5>1, ItemFacts
        <5>4. ItemRank(x) = 2 * Value(x).revision
          BY <2>1, <5>2, RankFacts
        <5>5. ItemRank(y) = 2 * Value(y).revision \/ ItemRank(y) = 2 * Value(y).revision + 1
          BY <5>1, <5>3, RankFacts DEF Operations
        <5> QED BY SMTT(60), <3>1, <5>2, <5>3, <5>4, <5>5
      <4> QED BY <4>1, <4>2, <4>3
    <3>3. ASSUME store[o].state # "gone" PROVE Rank(e) <= 2 * store[o].revision
      <4>1. x.operation = "upsert" /\ Value(x).revision <= store[o].revision
        BY <2>1, <3>3 DEF ObjectInv, Behind
      <4>2. ItemRank(x) = 2 * Value(x).revision
        BY <2>1, <4>1, RankFacts
      <4>3. Value(x).revision \in Nat /\ store[o].revision \in Nat
        BY <1>0, <2>1, ItemFacts, StateFacts DEF PlacesType
      <4> QED BY SMTT(60), <3>1, <4>1, <4>2, <4>3
    <3>4. PublishedBehind(o)
      BY <2>1 DEF ObjectInv
    <3>5. \A k \in KeysOf(o) : latest'[k] = e \/ latest'[k] = latest[k]
      BY <1>2 DEF KeysOf
    <3>6. KeysOf(o)' = KeysOf(o) /\ store' = store /\ ItemsOf(o)' = ItemsOf(o)
      BY <1>1 DEF KeysOf
    <3> QED BY <3>2, <3>3, <3>4, <3>5, <3>6 DEF PublishedBehind
  <2>4. Settled(o)'
    <3>1. PICK y \in ItemsOf(o) : MatchesStore(y, o)
      BY <2>1 DEF ObjectInv, Settled
    <3>2. MatchesStore(y, o)'
      BY <1>1, <3>1 DEF MatchesStore
    <3> QED BY <1>1, <3>1, <3>2 DEF Settled
  <2>5. ASSUME o \in PodsOnly PROVE ContainersBehind(o)' /\ DeletesLast(o)' /\ KeptIsCached(o)'
    <3>1. Kept(o)' = Kept(o) /\ Busy(o)'
      BY <1>1, <1>4 DEF Kept
    <3>2. ContainersBehind(o)'
      BY <1>1, <2>1, <2>5, <3>1 DEF ObjectInv, ContainersBehind
    <3>3. DeletesLast(o)'
      BY <1>1, <2>1, <2>5, <3>1 DEF ObjectInv, DeletesLast
    <3>4. KeptIsCached(o)'
      BY <3>1 DEF KeptIsCached
    <3> QED BY <3>2, <3>3, <3>4
  <2> QED BY <2>2, <2>3, <2>4, <2>5 DEF ObjectInv
<1>5. ASSUME x \in ObjectItems
      PROVE  /\ \A i \in 1 .. Len(es) : /\ es[i] \in Events /\ es[i].key \in Keys
                                        /\ Rank(es[i]) <= ItemRank(x)
             /\ \A i, j \in 1 .. Len(es) : es[i].key = es[j].key => Rank(es[i]) = Rank(es[j])
             /\ \A i \in 1 .. Len(es) : i >= work.next => Rank(latest[es[i].key]) <= Rank(es[i])
             /\ \A i \in 1 .. Len(es) : es[i].key = e.key => Rank(es[i]) = Rank(e)
  <2>1. ASSUME NEW i \in 1 .. Len(es) PROVE es[i] \in Events /\ es[i].key \in Keys
    <3>1. es[i] \in Events
      BY <1>1, ElementOfSeq
    <3> QED BY <3>1 DEF Events
  <2> QED BY <1>1, <1>5, <2>1 DEF Running, EventsAhead, e
<1>6. EventsAhead'
  <2>1. ASSUME x \in ObjectItems, NEW i \in 1 .. Len(es), i >= work'.next
        PROVE  Rank(latest'[es[i].key]) <= Rank(es[i])
    <3>1. i >= work.next
      BY SMTT(60), <1>1, <2>1
    <3>2. CASE es[i].key = e.key
      <4>1. Rank(es[i]) = Rank(e) /\ Rank(e) \in Nat
        BY <1>2, <1>5, <2>1, <3>2, RankFacts
      <4> QED BY SMTT(60), <1>2, <3>2, <4>1
    <3>3. CASE es[i].key # e.key
      BY <1>2, <1>5, <2>1, <3>1, <3>3
    <3> QED BY <3>2, <3>3
  <2> QED BY <1>1, <1>5, <2>1 DEF EventsAhead
<1>7. Progress'
  <2>1. cache'[e.key] # <<>> <=> e.operation = "upsert"
    <3>1. e.operation \in Operations /\ e.body # <<>>
      BY <1>2, BodyFacts DEF Events
    <3> QED BY <1>2, <3>1 DEF Operations
  <2>2. \A k \in Keys \ {e.key} : cache'[k] # <<>> <=> Exists(k)
    BY <1>2 DEF Exists
  <2>3. ASSUME x \in ObjectItems, NEW i \in 1 .. Len(es), i < work'.next
        PROVE  cache'[es[i].key] # <<>> <=> es[i].operation = "upsert"
    <3>1. CASE es[i].key = e.key
      <4>1. Rank(es[i]) = Rank(e) /\ es[i] \in Events
        BY <1>5, <2>3, <3>1
      <4>2. es[i].operation = "delete" <=> e.operation = "delete"
        <5>1. es[i].revision \in Nat /\ e.revision \in Nat
          BY <1>2, <4>1 DEF Events
        <5> QED BY SMTT(60), <1>2, <4>1, <5>1, RankFacts
      <4>3. es[i].operation \in Operations /\ e.operation \in Operations
        BY <1>2, <4>1 DEF Events
      <4> QED BY <2>1, <3>1, <4>2, <4>3 DEF Operations
    <3>2. CASE es[i].key # e.key
      <4>1. i < work.next
        <5>1. i # work.next
          BY <1>1, <3>2 DEF e
        <5> QED BY SMTT(60), <1>1, <2>3, <5>1
      <4>2. Exists(es[i].key) <=> es[i].operation = "upsert"
        BY <1>1, <2>3, <4>1 DEF Running, Progress
      <4>3. es[i].key \in Keys \ {e.key}
        BY <1>5, <2>3, <3>2
      <4> QED BY <2>2, <4>2, <4>3
    <3> QED BY <3>1, <3>2
  <2>4. ASSUME x \in ObjectItems, x.kind = "pod", NEW c \in Containers,
               cache'[ContainerKey(UidOf(x), c)] # <<>>
        PROVE  \E i \in 1 .. Len(es) : es[i].key = ContainerKey(UidOf(x), c)
    <3>1. ContainerKey(UidOf(x), c) \in Keys
      BY <2>4, ItemFacts, KeyFacts
    <3>2. CASE ContainerKey(UidOf(x), c) = e.key
      BY <1>1, <3>2 DEF e
    <3>3. CASE ContainerKey(UidOf(x), c) # e.key
      BY <1>1, <2>2, <2>4, <3>1, <3>3 DEF Running, Progress
    <3> QED BY <3>2, <3>3
  <2> QED BY <1>1, <2>3, <2>4 DEF Progress, Exists
<1> QED BY <1>1, <1>3, <1>4, <1>6, <1>7 DEF Running

-----------------------------------------------------------------------------
(* The theorems. *)

\* Under the keys of the markers only the markers are published.
MarkersPublished == \A m \in Markers : Rank(latest[m.object.key]) = 0

\* While the agent runs nothing is retried and Running holds; nothing of this is
\* claimed once its context is done.
RunningInv ==
  CollectorInv /\ MarkersPublished /\ (~cancelled => delayed = {} /\ Running)

\* The event of a marker has no revision.
LEMMA MarkerRank ==
  \A m \in Markers : Rank(m.object) = 0 /\ m.object.key \in Keys
<1>1. ASSUME NEW m \in Markers PROVE m.object.revision = 0 /\ m.object.operation = "upsert"
  <2>1. m.object \in {Cluster, Snapshot("started"), Snapshot("completed")}
    BY DEF Markers, Marker, Change
  <2> QED BY <2>1 DEF Cluster, Snapshot, Event
<1>2. ASSUME NEW m \in Markers PROVE Rank(m.object) = 0
  BY SMTT(60), <1>1 DEF Rank
<1> QED BY <1>2, MarkerFacts DEF Events

\* No event of an object is published under the key of a marker.
LEMMA MarkersKept ==
  ASSUME CollectorType, MarkersPublished, Next
  PROVE  MarkersPublished'
<1>0. WorkType /\ CacheType
  BY DEF CollectorType
<1>1. CASE PublishDelta
  <2>1. /\ Working /\ latest'[Current.key] = Current
        /\ \A k \in Keys \ {Current.key} : latest'[k] = latest[k]
    BY <1>0, <1>1, Published
  <2>2. /\ work # Idle /\ work.item \in Items /\ Yields(work.item, work.events)
        /\ work.events \in Seq(Events) /\ work.events[work.next] = Current
        /\ work.next \in 1 .. Len(work.events) /\ Current \in Events
    BY <1>0, <2>1, CurrentFacts DEF WorkType, Working
  <2>3. ASSUME NEW m \in Markers, Current.key = m.object.key PROVE Rank(Current) = 0
    <3>1. CASE work.item \in Markers
      <4>1. work.events = <<work.item.object>>
        BY <2>2, <3>1 DEF Yields
      <4>2. Current = work.item.object
        BY SMTT(60), <2>2, <4>1
      <4> QED BY <3>1, <4>2, MarkerRank
    <3>2. CASE work.item \in ObjectItems
      <4>1. work.item \notin Markers /\ UidOf(work.item) \in Objects
        BY <3>2, ItemFacts
      <4>2. work.next = 1 \/ work.next \in 2 .. Len(work.events)
        BY SMTT(60), <2>2, LenProperties
      <4>3. Reports(Current, work.item) \/ Withdraws(Current, work.item)
        BY <2>2, <4>1, <4>2 DEF Yields
      <4>4. Current.key = ObjectKey(UidOf(work.item)) \/ \E c : Current.key = ContainerKey(UidOf(work.item), c)
        BY <4>3 DEF Reports, Withdraws
      <4> QED BY <2>3, <4>1, <4>4, MarkerFacts
    <3> QED BY <2>2, <3>1, <3>2 DEF Items
  <2>4. \A m \in Markers : m.object.key = Current.key \/ latest'[m.object.key] = latest[m.object.key]
    BY <2>1, MarkerRank
  <2>5. \A m \in Markers : Rank(latest'[m.object.key]) = 0
    BY <2>1, <2>3, <2>4 DEF MarkersPublished
  <2> QED BY <2>5 DEF MarkersPublished, Markers, Marker, Change, Cluster, Snapshot, Event
<1>2. CASE latest' = latest
  BY <1>2 DEF MarkersPublished, Markers, Marker, Change, Cluster, Snapshot, Event
<1> QED BY <1>1, <1>2, WorkerOnly

\* Init establishes it.
LEMMA RunningStarts ==
  ASSUME Init
  PROVE  RunningInv
<1>1. CollectorInv
  BY CollectorStarts
<1>2. /\ feed = [k \in Kinds |-> <<>>] /\ work = Idle /\ delayed = {}
      /\ queue = <<Marker("snapshot", Snapshot("started"))>>
      /\ store = [o \in Objects |-> Absent] /\ cache = [k \in Keys |-> <<>>]
      /\ podContainers = [o \in PodsOnly |-> {}] /\ latest = [k \in Keys |-> None]
  BY DEF Init
<1>3. Range(<<>>) = {} /\ Len(<<>>) = 0
  <2>1. DOMAIN <<>> = {} /\ Len(<<>>) = 0
    BY SMTT(60)
  <2> QED BY <2>1 DEF Range
<1> DEFINE started == Marker("snapshot", Snapshot("started"))
<1>4. started \in Markers
  BY DEF Markers
<1> HIDE DEF started
<1>5. Len(queue) = 1 /\ Range(queue) = {started}
  <2>1. queue = <<started>>
    BY <1>2 DEF started
  <2>2. <<started>> = [i \in 1 .. 1 |-> started] /\ Len(<<started>>) = 1
    BY SMTT(60)
  <2>3. DOMAIN <<started>> = {1} /\ <<started>>[1] = started
    BY SMTT(60)
  <2> QED BY <2>1, <2>2, <2>3 DEF Range
<1>6. InFeed = {} /\ InHand = {}
  BY <1>2, <1>3 DEF InFeed, InHand
<1>7. \A o : ItemsOf(o) = {}
  BY <1>4, <1>5, <1>6, MarkerFacts DEF ItemsOf, Of
<1>8. InOrder
  <2>1. Chain(queue)
    BY SMTT(60), <1>5 DEF Chain
  <2>2. \A k \in Kinds : Chain(feed[k])
    BY SMTT(60), <1>2, <1>3 DEF Chain
  <2> QED BY <1>6, <2>1, <2>2 DEF InOrder
<1>9. EventsAhead /\ Progress
  BY <1>2 DEF EventsAhead, Progress
<1>10. ASSUME NEW o \in Objects PROVE ObjectInv(o)
  <2>1. store[o] = Absent /\ Absent \in States /\ ~Live(Absent) /\ Absent.containers = {} /\ Absent.revision = 0
    BY <1>2 DEF Absent, States, Live
  <2>2. Behind(o)
    BY <1>7 DEF Behind
  <2>3. PublishedBehind(o)
    <3>1. Rank(None) = 0
      BY SMTT(60) DEF Rank, None
    <3>2. \A k \in KeysOf(o) : latest[k] = None
      BY <1>2 DEF KeysOf
    <3>3. 0 <= 2 * Absent.revision
      BY SMTT(60), <2>1
    <3> QED BY <1>7, <2>1, <3>1, <3>2, <3>3 DEF PublishedBehind
  <2>4. ~Exists(ObjectKey(o)) /\ (o \in PodsOnly => \A c \in Containers : ~Exists(ContainerKey(o, c)))
    BY <1>2, KeyFacts DEF Exists
  <2>5. o \in PodsOnly => podContainers[o] = {} /\ Kept(o) = {}
    BY <1>2 DEF Kept
  <2>6. Settled(o)
    BY <1>7, <2>1, <2>4, <2>5 DEF Settled
  <2>7. o \in PodsOnly => ContainersBehind(o) /\ DeletesLast(o) /\ KeptIsCached(o)
    BY <1>7, <2>4, <2>5 DEF ContainersBehind, DeletesLast, KeptIsCached
  <2> QED BY <2>2, <2>3, <2>6, <2>7 DEF ObjectInv
<1>11. MarkersPublished
  <2>1. Rank(None) = 0
    BY SMTT(60) DEF Rank, None
  <2>2. \A m \in Markers : latest[m.object.key] = None
    BY <1>2, MarkerRank
  <2> QED BY <2>1, <2>2 DEF MarkersPublished
<1> QED BY <1>1, <1>2, <1>8, <1>9, <1>10, <1>11 DEF RunningInv, Running

\* Every step keeps it.
LEMMA RunningStep ==
  ASSUME RunningInv, [Next]_collectorVars
  PROVE  RunningInv'
<1>1. CollectorInv'
  BY CollectorStep DEF RunningInv
<1>2. MarkersPublished'
  <2>1. CASE Next
    BY <2>1, MarkersKept DEF RunningInv, CollectorInv
  <2>2. CASE UNCHANGED collectorVars
    BY <2>2 DEF RunningInv, MarkersPublished, Markers, Marker, Change, Cluster, Snapshot, Event, collectorVars
  <2> QED BY <2>1, <2>2
<1>3. ASSUME Next, ~cancelled' PROVE delayed' = {} /\ Running'
  <2>1. CollectorType /\ StoreBehind
    BY DEF RunningInv, CollectorInv
  <2>2. ~cancelled
    BY <1>3, <2>1, FlagsKept
  <2>3. delayed = {} /\ Running
    BY <2>2 DEF RunningInv
  <2>4. /\ ~cancelled /\ ~shut /\ delayed' = {}
        /\ \/ UNCHANGED <<store, feed, queue, work, cache, podContainers, latest>>
           \/ \E o \in Objects : Observe(o)
           \/ \E k \in Kinds : Handler(k)
           \/ Resync \/ StartRuns \/ ProcessNext \/ SkipDelta \/ PublishDelta \/ Finish
    BY <1>3, <2>1, <2>3, RunningSteps
  <2>5. CASE UNCHANGED <<store, feed, queue, work, cache, podContainers, latest>>
    <3>1. InOrder' /\ \A o : ItemsOf(o)' = ItemsOf(o)
      BY <2>3, <2>5 DEF Running, InOrder, ItemsOf, Of, InHand, InFeed
    <3> QED BY <2>1, <2>3, <2>4, <2>5, <3>1, SameItems
  <2>6. CASE \E k \in Kinds : Handler(k)
    <3>1. PICK k \in Kinds : Handler(k)
      BY <2>6
    <3>2. UNCHANGED <<store, work, cache, podContainers, latest>>
      BY <3>1 DEF Handler, workerVars
    <3>3. InOrder' /\ \A o : ItemsOf(o)' = ItemsOf(o)
      BY <2>1, <2>3, <2>4, <3>1, HandlerMoves DEF Running
    <3> QED BY <2>1, <2>3, <2>4, <3>2, <3>3, SameItems
  <2>7. CASE StartRuns
    <3>1. UNCHANGED <<store, work, cache, podContainers, latest>>
      BY <2>7 DEF StartRuns, informerVars, workerVars
    <3>2. InOrder' /\ \A o : ItemsOf(o)' = ItemsOf(o)
      BY <2>1, <2>3, <2>4, <2>7, StartMoves DEF Running
    <3> QED BY <2>1, <2>3, <2>4, <3>1, <3>2, SameItems
  <2>8. CASE \E o \in Objects : Observe(o)
    BY <2>1, <2>3, <2>4, <2>8, ObserveKeeps
  <2>9. CASE Resync \/ ProcessNext \/ SkipDelta \/ PublishDelta \/ Finish
    BY <2>1, <2>3, <2>4, <2>9, ResyncKeeps, ProcessNextKeeps, SkipKeeps, PublishKeeps, FinishKeeps
  <2> QED BY <2>4, <2>5, <2>6, <2>7, <2>8, <2>9
<1>4. CASE UNCHANGED collectorVars
  <2>1. UNCHANGED <<store, feed, queue, delayed, work, cache, podContainers, latest, cancelled>>
    BY <1>4 DEF collectorVars
  <2>2. ASSUME ~cancelled' PROVE delayed' = {} /\ Running'
    <3>1. CollectorType /\ delayed = {} /\ Running
      BY <2>1, <2>2 DEF RunningInv, CollectorInv
    <3>2. InOrder' /\ \A o : ItemsOf(o)' = ItemsOf(o)
      BY <2>1, <3>1 DEF Running, InOrder, ItemsOf, Of, InHand, InFeed
    <3> QED BY <2>1, <3>1, <3>2, SameItems
  <2> QED BY <1>1, <1>2, <2>2 DEF RunningInv
<1> QED BY <1>1, <1>2, <1>3, <1>4 DEF RunningInv

\* What is under way, published, kept and cached of each object stays in order in
\* every state of an agent that runs.
THEOREM RunningHolds == Spec => []RunningInv
<1>1. Init => RunningInv
  BY RunningStarts
<1>2. RunningInv /\ [Next]_collectorVars => RunningInv'
  BY RunningStep
<1> QED BY <1>1, <1>2, PTL DEF Spec

\* A quiet collector's cache holds the keys of what the informers hold.
LEMMA QuietIsSettled ==
  ASSUME RunningInv
  PROVE  QuietCacheIsInventory
<1>1. SUFFICES ASSUME ~cancelled, Quiet
               PROVE  {k \in Keys : Exists(k) /\ Len(k) > 1 /\ k[1] \notin {"cluster", "snapshot"}} = LiveKeys
  BY DEF QuietCacheIsInventory
<1>2. Running /\ CollectorType
  BY <1>1 DEF RunningInv, CollectorInv
<1>3. work = Idle /\ queue = <<>> /\ \A k \in Kinds : feed[k] = <<>>
  BY <1>1 DEF Quiet
<1>4. \A o : ItemsOf(o) = {} /\ ~Busy(o)
  <2>1. DOMAIN <<>> = {}
    BY SMTT(60)
  <2> QED BY <1>3, <2>1 DEF ItemsOf, InHand, InFeed, Busy, Range
<1>5. ASSUME NEW o \in Objects
      PROVE  /\ Exists(ObjectKey(o)) <=> Live(store[o])
             /\ o \in PodsOnly => \A c \in Containers : Exists(ContainerKey(o, c)) <=> c \in store[o].containers
             /\ store[o].containers \subseteq Containers
  <2>1. ObjectInv(o) /\ store[o] \in States
    BY <1>2 DEF Running, CollectorType, PlacesType
  <2>2. store[o].containers \subseteq Containers
    <3>1. CASE store[o] \in LiveStates
      BY <3>1 DEF LiveStates
    <3>2. CASE store[o] \notin LiveStates
      BY <2>1, <3>2, StateFacts
    <3> QED BY <3>1, <3>2
  <2> QED BY <1>4, <2>1, <2>2 DEF ObjectInv, Settled, KeptIsCached
<1>6. \A o \in Objects : Len(ObjectKey(o)) > 1 /\ ObjectKey(o)[1] \notin {"cluster", "snapshot"}
  <2>1. \A o \in Objects : ObjectKey(o) = <<KindOf[o], o>> /\ KindOf[o] \notin {"cluster", "snapshot"}
    BY CollectorAssumption DEF ObjectKey, Kinds
  <2> QED BY SMTT(60), <2>1
<1>7. \A o, c : Len(ContainerKey(o, c)) > 1 /\ ContainerKey(o, c)[1] \notin {"cluster", "snapshot"}
  BY SMTT(60) DEF ContainerKey
<1>8. ASSUME NEW k \in Keys, Exists(k), k[1] \notin {"cluster", "snapshot"} PROVE k \in LiveKeys
  <2>1. \/ \E o \in Objects : k = ObjectKey(o)
        \/ \E o \in PodsOnly, c \in Containers : k = ContainerKey(o, c)
        \/ k \in {<<"cluster", NoUID>>, <<"snapshot", "started">>, <<"snapshot", "completed">>}
    BY DEF Keys
  <2>2. CASE \E o \in Objects : k = ObjectKey(o)
    BY <1>5, <1>8, <2>2 DEF LiveKeys
  <2>3. CASE \E o \in PodsOnly, c \in Containers : k = ContainerKey(o, c)
    <3>1. PICK o \in PodsOnly, c \in Containers : k = ContainerKey(o, c)
      BY <2>3
    <3>2. c \in store[o].containers
      BY <1>5, <1>8, <3>1 DEF PodsOnly
    <3> QED BY SMTT(60), <3>1, <3>2 DEF LiveKeys
  <2>4. CASE k \in {<<"cluster", NoUID>>, <<"snapshot", "started">>, <<"snapshot", "completed">>}
    BY <1>8, <2>4
  <2> QED BY <2>1, <2>2, <2>3, <2>4
<1>9. ASSUME NEW k \in LiveKeys
      PROVE  k \in Keys /\ Exists(k) /\ Len(k) > 1 /\ k[1] \notin {"cluster", "snapshot"}
  <2>1. CASE \E o \in Objects : Live(store[o]) /\ k = ObjectKey(o)
    BY <1>5, <1>6, <2>1, KeyFacts
  <2>2. CASE \E o \in PodsOnly : \E c \in store[o].containers : k = ContainerKey(o, c)
    <3>1. PICK o \in PodsOnly : \E c \in store[o].containers : k = ContainerKey(o, c)
      BY <2>2
    <3>2. PICK c \in store[o].containers : k = ContainerKey(o, c)
      BY <3>1
    <3>3. o \in Objects /\ c \in Containers
      BY <1>5 DEF PodsOnly
    <3> QED BY <1>5, <1>7, <3>2, <3>3, KeyFacts
  <2> QED BY <2>1, <2>2 DEF LiveKeys
<1> QED BY <1>8, <1>9

\* The collector's cache tells the truth: no published delta repeats the one before
\* it, and once the collector has caught up the keys of the cache are those of the
\* live objects and their containers.
THEOREM CacheTellsTheTruth == Spec => []CacheIsTruthful
<1>1. RunningInv => CacheIsTruthful
  <2>1. RunningInv => NoRedundantDelta
    BY DEF RunningInv, CollectorInv, CacheIsLatest, NoRedundantDelta
  <2> QED BY <2>1, QuietIsSettled DEF CacheIsTruthful
<1> QED BY <1>1, RunningHolds, PTL

\* While the agent runs, what is published under a key is never followed by an
\* older revision of the same object, or by the revision a deletion came after.
THEOREM OrderOfTheApi == Spec => NeverOlder
<1>1. ASSUME RunningInv, [Next]_collectorVars
      PROVE  [cancelled \/ \A k \in Keys : latest[k] # latest'[k]
                                             => Rank(latest[k]) <= Rank(latest'[k])]_collectorVars
  <2>1. SUFFICES ASSUME Next, ~cancelled, NEW k \in Keys, latest[k] # latest'[k]
                 PROVE  Rank(latest[k]) <= Rank(latest'[k])
    BY <1>1
  <2>2. PublishDelta
    BY <2>1, WorkerOnly
  <2>3. WorkType /\ CacheType /\ CollectorType /\ Running
    BY <1>1, <2>1 DEF RunningInv, CollectorInv, CollectorType
  <2>4. k = Current.key /\ latest'[k] = Current
    BY <2>1, <2>2, <2>3, Published
  <2>5. /\ work # Idle /\ work.next \in 1 .. Len(work.events) /\ work.events[work.next] = Current
        /\ work.item \in Items /\ Yields(work.item, work.events)
    BY <2>2, <2>3, CurrentFacts DEF PublishDelta, Working, WorkType
  <2>6. CASE work.item \in ObjectItems
    <3>1. work.next >= work.next
      BY SMTT(60), <2>5
    <3> QED BY <2>3, <2>4, <2>5, <2>6, <3>1 DEF Running, EventsAhead
  <2>7. CASE work.item \in Markers
    <3>1. work.events = <<work.item.object>>
      BY <2>5, <2>7 DEF Yields
    <3>2. Current = work.item.object
      BY SMTT(60), <2>5, <3>1
    <3>3. Rank(latest[k]) = 0 /\ Rank(Current) = 0
      BY <1>1, <2>4, <2>7, <3>2, MarkerRank DEF RunningInv, MarkersPublished
    <3> QED BY SMTT(60), <2>4, <3>3
  <2> QED BY <2>5, <2>6, <2>7 DEF Items
<1> QED BY <1>1, RunningHolds, PTL DEF Spec, NeverOlder
=============================================================================
