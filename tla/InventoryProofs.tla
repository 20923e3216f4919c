-------------------------- MODULE InventoryProofs ---------------------------
(***************************************************************************)
(* Proofs about the inventory collector, for any cluster, any number of     *)
(* changes and any capacity of the buffer.  The notifications of an object  *)
(* go from the feed of its kind to the queue and from there to the worker,  *)
(* one behind the other; what is published of the object is no newer than   *)
(* the first of them, and what is cached is what the last one leaves.       *)
(***************************************************************************)
EXTENDS InventoryCollector, SequenceTheorems, TLAPS

\* The provers, in this order, and the seconds each may spend on a step; each
\* has a second, longer try.
USE ZenonT(30), SMTT(30), ZenonT(60), SMTT(60)

Operations == {"upsert", "delete"}

\* What a fingerprint is made of.
Bodies == (Contents \X (Objects \cup {NoUID})) \cup {<<"cluster">>, <<"started">>, <<"completed">>}

Events == [key : Keys, operation : Operations, revision : Nat, body : Bodies]

LiveStates == [state : {"live"}, revision : Nat \ {0}, content : Contents,
               containers : SUBSET Containers]

States == LiveStates \cup {Absent, Gone}

\* Notifications of objects, each under the kind of its object.
ObjectItems == {x \in [kind : Kinds, operation : Operations,
                       object : [uid : Objects, value : LiveStates]] :
                  x.kind = KindOf[x.object.uid]}

\* What Start queues itself.
Markers == {Marker("cluster", Cluster), Marker("snapshot", Snapshot("started")),
            Marker("snapshot", Snapshot("completed"))}

Items == ObjectItems \cup Markers

Jobs == [item : Items, events : Seq(Events), next : Nat]

UidOf(x) == x.object.uid
Value(x) == x.object.value
Of(x, o) == x \in ObjectItems /\ UidOf(x) = o

\* Event e reports the object of change x, or one of its containers, as the
\* change has it.
Reports(e, x) ==
  /\ e.operation = x.operation /\ e.revision = Value(x).revision
  /\ \/ e.key = ObjectKey(UidOf(x))
     \/ x.kind = "pod" /\ \E c \in Value(x).containers : e.key = ContainerKey(UidOf(x), c)

\* Event e deletes a container that the pod of change x has no longer.
Withdraws(e, x) ==
  /\ x.kind = "pod" /\ x.operation = "upsert" /\ e.operation = "delete"
  /\ \E c \in Containers \ Value(x).containers : e.key = ContainerKey(UidOf(x), c)

\* es are events of the change x: that of its object, then those of its
\* containers and of the containers that left.
Yields(x, es) ==
  IF x \in Markers THEN es = <<x.object>>
  ELSE /\ Len(es) >= 1 /\ Reports(es[1], x) /\ es[1].key = ObjectKey(UidOf(x))
       /\ x.kind # "pod" => Len(es) = 1
       /\ \A i \in 2 .. Len(es) : /\ Reports(es[i], x) \/ Withdraws(es[i], x)
                                  /\ es[i].key # ObjectKey(UidOf(x))
       /\ x.kind = "pod" => \A c \in Value(x).containers : \E i \in 2 .. Len(es) :
                              es[i].key = ContainerKey(UidOf(x), c)

PlacesType == api \in [Objects -> States] /\ store \in [Objects -> States]

LinesType ==
  /\ feed \in [Kinds -> Seq(ObjectItems)]
  /\ \A k \in Kinds : \A i \in DOMAIN feed[k] : feed[k][i].kind = k
  /\ queue \in Seq(Items) /\ delayed \subseteq Items

WorkType ==
  /\ work \in Jobs \cup {Idle}
  /\ work # Idle => Yields(work.item, work.events) /\ work.next >= 1

CacheType ==
  cache \in [Keys -> Bodies \cup {<<>>}] /\ latest \in [Keys -> Events \cup {None}]

ContainersType ==
  /\ podContainers \in [PodsOnly -> SUBSET Events]
  /\ \A o \in PodsOnly :
       \A e \in podContainers[o] :
         e.operation = "upsert" /\ \E c \in Containers : e.key = ContainerKey(o, c)

FlagsType == cancelled \in BOOLEAN /\ shut \in BOOLEAN /\ (shut => cancelled)

\* The types of cluster and informers, lines, worker, cache and Start.
CollectorType ==
  PlacesType /\ LinesType /\ WorkType /\ CacheType /\ ContainersType /\ FlagsType

\* The cache holds what was last published under each key.
CacheIsLatest ==
  /\ redundant = FALSE
  /\ \A k \in Keys : IF latest[k].operation = "upsert" THEN cache[k] = latest[k].body
                                                      ELSE cache[k] = <<>>
-----------------------------------------------------------------------------
(* Keys, items and events. *)

\* Each object and each container of a pod has a key of its own.
LEMMA KeyFacts ==
  /\ \A o \in Objects : ObjectKey(o) \in Keys
  /\ \A o \in PodsOnly, c \in Containers : ContainerKey(o, c) \in Keys
  /\ \A o, p \in Objects : ObjectKey(o) = ObjectKey(p) => o = p
  /\ \A o, p, c, d : ContainerKey(o, c) = ContainerKey(p, d) => o = p /\ c = d
  /\ \A o \in Objects : \A p, c : ObjectKey(o) # ContainerKey(p, c)
<1>1. \A o \in Objects : ObjectKey(o) \in Keys
  BY DEF Keys
<1>2. \A o \in PodsOnly, c \in Containers : ContainerKey(o, c) \in Keys
  BY DEF Keys
<1>3. \A o, p \in Objects : ObjectKey(o) = ObjectKey(p) => o = p
  BY DEF ObjectKey
<1>4. \A o, p, c, d : ContainerKey(o, c) = ContainerKey(p, d) => o = p /\ c = d
  BY DEF ContainerKey
<1>5. ASSUME NEW o \in Objects, NEW p, NEW c PROVE ObjectKey(o) # ContainerKey(p, c)
  <2>1. ObjectKey(o)[1] \in Kinds /\ ContainerKey(p, c)[1] = "container"
    BY CollectorAssumption DEF ObjectKey, ContainerKey
  <2>2. "container" \notin Kinds
    BY DEF Kinds
  <2> QED BY <2>1, <2>2
<1> QED BY <1>1, <1>2, <1>3, <1>4, <1>5

\* A fingerprint is never empty.
LEMMA BodyFacts == \A b \in Bodies : b # <<>>
<1>1. \A c, n : <<c, n>> # <<>>
  OBVIOUS
<1>2. <<"cluster">> # <<>> /\ <<"started">> # <<>> /\ <<"completed">> # <<>>
  OBVIOUS
<1> QED BY <1>1, <1>2 DEF Bodies

\* The parts of a notification.
LEMMA ItemFacts ==
  ASSUME NEW x \in ObjectItems
  PROVE  /\ x.kind \in Kinds /\ x.operation \in Operations
         /\ UidOf(x) \in Objects /\ x.kind = KindOf[UidOf(x)] /\ Value(x) \in LiveStates
         /\ Value(x).revision \in Nat \ {0} /\ Value(x).content \in Contents
         /\ Value(x).containers \subseteq Containers
         /\ x \notin Markers
         /\ x.kind = "pod" <=> UidOf(x) \in PodsOnly
<1>1. /\ x.kind \in Kinds /\ x.operation \in Operations
      /\ UidOf(x) \in Objects /\ x.kind = KindOf[UidOf(x)] /\ Value(x) \in LiveStates
  BY DEF ObjectItems, UidOf, Value
<1>2. /\ Value(x).revision \in Nat \ {0} /\ Value(x).content \in Contents
      /\ Value(x).containers \subseteq Containers
  BY <1>1 DEF LiveStates
<1>3. x \notin Markers
  BY <1>1 DEF Markers, Marker, Change, Kinds
<1>4. x.kind = "pod" <=> UidOf(x) \in PodsOnly
  BY <1>1 DEF PodsOnly
<1> QED BY <1>1, <1>2, <1>3, <1>4

\* The events of the markers are upserts of keys of their own.
LEMMA MarkerFacts ==
  ASSUME NEW x \in Markers
  PROVE  /\ x.kind \in {"cluster", "snapshot"} /\ x.operation = "upsert"
         /\ x.object \in Events /\ x.object.operation = "upsert"
         /\ x \notin ObjectItems
         /\ \A o \in Objects : x.object.key # ObjectKey(o)
         /\ \A o, c : x.object.key # ContainerKey(o, c)
<1>1. x.kind \in {"cluster", "snapshot"} /\ x.operation = "upsert"
  BY DEF Markers, Marker, Change
<1>2. x.object \in {Cluster, Snapshot("started"), Snapshot("completed")}
  BY DEF Markers, Marker, Change
<1>3. x.object \in Events /\ x.object.operation = "upsert"
  <2>1. {<<"cluster", NoUID>>, <<"snapshot", "started">>, <<"snapshot", "completed">>} \subseteq Keys
    BY DEF Keys
  <2>2. {<<"cluster">>, <<"started">>, <<"completed">>} \subseteq Bodies
    BY DEF Bodies
  <2>3. 0 \in Nat /\ "upsert" \in Operations
    BY DEF Operations
  <2> QED BY <1>2, <2>1, <2>2, <2>3 DEF Cluster, Snapshot, Event, Events
<1>4. x.object.key[1] \in {"cluster", "snapshot"}
  BY <1>2 DEF Cluster, Snapshot, Event
<1>5. x \notin ObjectItems
  BY <1>1 DEF ObjectItems, Kinds
<1>6. \A o \in Objects : x.object.key # ObjectKey(o)
  BY SMTT(60), <1>4, CollectorAssumption DEF ObjectKey, Kinds
<1>7. \A o, c : x.object.key # ContainerKey(o, c)
  BY <1>4 DEF ContainerKey
<1> QED BY <1>1, <1>3, <1>5, <1>6, <1>7

\* What Orders lists is a sequence with every element of the set.
LEMMA OrdersList ==
  ASSUME NEW S, NEW s \in Orders(S)
  PROVE  /\ s \in Seq(S)
         /\ \A e \in S : \E i \in 1 .. Len(s) : s[i] = e
<1>1. PICK n \in Nat : s \in [1 .. n -> S] /\ \A e \in S : \E i \in DOMAIN s : s[i] = e
  BY DEF Orders
<1>2. s \in Seq(S) /\ Len(s) = n /\ DOMAIN s = 1 .. n
  BY SMTT(60), <1>1
<1> QED BY <1>1, <1>2

\* The events of an object and its containers are events, under their keys.
LEMMA ReportFacts ==
  ASSUME CollectorType, NEW x \in ObjectItems
  PROVE  /\ ObjectEvent(x) \in Events /\ Reports(ObjectEvent(x), x)
         /\ ObjectEvent(x).key = ObjectKey(UidOf(x))
         /\ x.kind = "pod" => \A e \in ContainerEvents(x) :
              /\ e \in Events /\ Reports(e, x)
              /\ \E c \in Value(x).containers : e.key = ContainerKey(UidOf(x), c)
         /\ \A c \in Value(x).containers : \E e \in ContainerEvents(x) : e.key = ContainerKey(UidOf(x), c)
<1> DEFINE body == <<Value(x).content, NamespaceUID(UidOf(x))>>
<1>1. body \in Bodies
  <2>1. NamespaceUID(UidOf(x)) \in Objects \cup {NoUID}
    BY ItemFacts, CollectorAssumption DEF NamespaceUID
  <2> QED BY <2>1, ItemFacts DEF Bodies
<1>2. ObjectEvent(x) = [key |-> ObjectKey(UidOf(x)), operation |-> x.operation,
                        revision |-> Value(x).revision, body |-> body]
  BY DEF ObjectEvent, Event, UidOf, Value
<1>3. x.operation \in Operations /\ Value(x).revision \in Nat /\ ObjectKey(UidOf(x)) \in Keys
  BY ItemFacts, KeyFacts
<1>4. ObjectEvent(x) \in Events /\ Reports(ObjectEvent(x), x) /\ ObjectEvent(x).key = ObjectKey(UidOf(x))
  BY <1>1, <1>2, <1>3 DEF Events, Reports
<1>5. ASSUME x.kind = "pod", NEW e \in ContainerEvents(x)
      PROVE  /\ e \in Events /\ Reports(e, x)
             /\ \E c \in Value(x).containers : e.key = ContainerKey(UidOf(x), c)
  <2>1. PICK c \in Value(x).containers :
          e = [key |-> ContainerKey(UidOf(x), c), operation |-> x.operation,
               revision |-> Value(x).revision, body |-> body]
    BY DEF ContainerEvents, Event, UidOf, Value
  <2>2. ContainerKey(UidOf(x), c) \in Keys
    BY <1>5, ItemFacts, KeyFacts
  <2> HIDE DEF body
  <2>3. /\ e.key = ContainerKey(UidOf(x), c) /\ e.operation = x.operation
        /\ e.revision = Value(x).revision
    BY <2>1
  <2> QED BY <1>1, <1>3, <1>5, <2>1, <2>2, <2>3 DEF Events, Reports
<1>6. ASSUME NEW c \in Value(x).containers
      PROVE  \E e \in ContainerEvents(x) : e.key = ContainerKey(UidOf(x), c)
  <2> DEFINE e == Event(ContainerKey(UidOf(x), c), x.operation, Value(x).revision, body)
  <2>1. e \in ContainerEvents(x)
    BY DEF ContainerEvents, UidOf, Value
  <2>2. e.key = ContainerKey(UidOf(x), c)
    BY DEF Event
  <2> QED BY <2>1, <2>2
<1> QED BY <1>4, <1>5, <1>6

\* The deletions of containers that left: the containers were in the pod's last
\* upsert and are not in this one.
LEMMA WithdrawFacts ==
  ASSUME CollectorType, NEW x \in ObjectItems, x.kind = "pod", x.operation = "upsert"
  PROVE  /\ \A e \in RemovedContainers(x) :
              /\ e \in Events /\ Withdraws(e, x)
              /\ \E f \in podContainers[UidOf(x)] : f.key = e.key /\ f.revision = e.revision
         /\ \A f \in podContainers[UidOf(x)] :
              (\A g \in ContainerEvents(x) : g.key # f.key) =>
                 \E e \in RemovedContainers(x) : e.key = f.key
<1>0. UidOf(x) \in PodsOnly /\ UidOf(x) = x.object.uid
  BY ItemFacts DEF UidOf
<1>1. ASSUME NEW f \in podContainers[UidOf(x)], \A g \in ContainerEvents(x) : g.key # f.key
      PROVE  /\ AsDelete(f) \in Events /\ Withdraws(AsDelete(f), x)
             /\ AsDelete(f).key = f.key /\ AsDelete(f).revision = f.revision
  <2>1. f \in Events
    BY <1>0 DEF CollectorType, ContainersType
  <2>2. /\ AsDelete(f) \in Events /\ AsDelete(f).operation = "delete"
        /\ AsDelete(f).key = f.key /\ AsDelete(f).revision = f.revision
    BY <2>1 DEF AsDelete, Events, Operations
  <2>3. PICK c \in Containers : f.key = ContainerKey(UidOf(x), c)
    BY <1>0 DEF CollectorType, ContainersType
  <2>4. c \notin Value(x).containers
    BY <1>1, <2>3, ReportFacts
  <2> QED BY <2>2, <2>3, <2>4 DEF Withdraws
<1>2. RemovedContainers(x) =
        {AsDelete(f) : f \in {g \in podContainers[UidOf(x)] :
                                \A h \in ContainerEvents(x) : h.key # g.key}}
  BY <1>0 DEF RemovedContainers
<1> QED BY <1>1, <1>2

Withdrawn(x) == IF x.operation = "upsert" THEN RemovedContainers(x) ELSE {}

\* The events of a pod: its own, then those of its containers and of the ones
\* that left, none left out.
LEMMA PodEvents ==
  ASSUME CollectorType, NEW x \in ObjectItems, x.kind = "pod", NEW es \in EventsOf(x)
  PROVE  /\ es \in Seq(Events) /\ Len(es) >= 1 /\ es[1] = ObjectEvent(x)
         /\ \A i \in 2 .. Len(es) : es[i] \in ContainerEvents(x) \cup Withdrawn(x)
         /\ \A e \in ContainerEvents(x) \cup Withdrawn(x) : \E i \in 2 .. Len(es) : es[i] = e
<1>1. PICK s \in Orders(ContainerEvents(x)), r \in Orders(Withdrawn(x)) :
        es = <<ObjectEvent(x)>> \o s \o r
  BY DEF EventsOf, Withdrawn
<1>3. ContainerEvents(x) \subseteq Events /\ Withdrawn(x) \subseteq Events /\ ObjectEvent(x) \in Events
  BY ReportFacts, WithdrawFacts, ItemFacts DEF Withdrawn
<1>4. /\ s \in Seq(ContainerEvents(x)) /\ \A e \in ContainerEvents(x) : \E i \in 1 .. Len(s) : s[i] = e
      /\ r \in Seq(Withdrawn(x)) /\ \A e \in Withdrawn(x) : \E i \in 1 .. Len(r) : r[i] = e
  BY SMTT(60), OrdersList
<1>5. s \in Seq(Events) /\ r \in Seq(Events)
  BY <1>3, <1>4, SeqMonotonic
<1>6. Len(s) \in Nat /\ Len(r) \in Nat
  BY <1>5, LenProperties
<1>7. /\ \A i \in 1 .. Len(s) : s[i] \in ContainerEvents(x)
      /\ \A i \in 1 .. Len(r) : r[i] \in Withdrawn(x)
  BY <1>4, ElementOfSeq
<1>8. <<ObjectEvent(x)>> \in Seq(Events) /\ Len(<<ObjectEvent(x)>>) = 1
  BY SMTT(60), <1>3
<1> DEFINE first == <<ObjectEvent(x)>>
           most == first \o s
<1>9. /\ most \in Seq(Events) /\ Len(most) = 1 + Len(s) /\ most[1] = ObjectEvent(x)
      /\ \A i \in 2 .. 1 + Len(s) : most[i] = s[i - 1]
  <2>1. first \in Seq(Events) /\ Len(first) = 1 /\ first[1] = ObjectEvent(x)
    BY <1>8
  <2> HIDE DEF first
  <2>2. /\ most \in Seq(Events) /\ Len(most) = Len(first) + Len(s)
        /\ \A i \in 1 .. Len(first) + Len(s) :
             most[i] = IF i <= Len(first) THEN first[i] ELSE s[i - Len(first)]
    BY <1>5, <2>1, ConcatProperties
  <2> HIDE DEF most
  <2> QED BY SMTT(60), <1>6, <2>1, <2>2
<1> HIDE DEF most
<1>10. /\ es \in Seq(Events) /\ Len(es) = Len(most) + Len(r)
       /\ \A i \in 1 .. Len(most) + Len(r) :
            es[i] = IF i <= Len(most) THEN most[i] ELSE r[i - Len(most)]
  <2>1. es = most \o r
    BY <1>1 DEF most
  <2> QED BY <1>5, <1>9, <2>1, ConcatProperties
<1>11. /\ Len(es) = 1 + Len(s) + Len(r) /\ es[1] = ObjectEvent(x)
       /\ \A i \in 1 .. Len(s) : es[i + 1] = s[i]
       /\ \A i \in 1 .. Len(r) : es[i + 1 + Len(s)] = r[i]
       /\ \A i \in 2 .. 1 + Len(s) : es[i] = s[i - 1]
       /\ \A i \in 2 + Len(s) .. Len(es) : es[i] = r[i - (1 + Len(s))]
  BY SMTT(60), <1>6, <1>9, <1>10
<1>12. ASSUME NEW i \in 2 .. Len(es) PROVE es[i] \in ContainerEvents(x) \cup Withdrawn(x)
  <2>1. CASE i <= 1 + Len(s)
    <3>1. i - 1 \in 1 .. Len(s) /\ es[i] = s[i - 1]
      BY SMTT(60), <1>6, <1>11, <2>1
    <3> QED BY <1>7, <3>1
  <2>2. CASE i > 1 + Len(s)
    <3>1. i - (1 + Len(s)) \in 1 .. Len(r) /\ es[i] = r[i - (1 + Len(s))]
      BY SMTT(60), <1>6, <1>11, <2>2
    <3> QED BY <1>7, <3>1
  <2> QED BY SMTT(60), <1>6, <2>1, <2>2
<1>13. ASSUME NEW e \in ContainerEvents(x) PROVE \E i \in 2 .. Len(es) : es[i] = e
  <2>1. PICK i \in 1 .. Len(s) : s[i] = e
    BY <1>4
  <2>2. i + 1 \in 2 .. Len(es) /\ es[i + 1] = e
    BY SMTT(60), <1>6, <1>11, <2>1
  <2> QED BY <2>2
<1>14. ASSUME NEW e \in Withdrawn(x) PROVE \E i \in 2 .. Len(es) : es[i] = e
  <2>1. PICK i \in 1 .. Len(r) : r[i] = e
    BY <1>4
  <2>2. i + 1 + Len(s) \in 2 .. Len(es) /\ es[i + 1 + Len(s)] = e
    BY SMTT(60), <1>6, <1>11, <2>1
  <2> QED BY <2>2
<1>15. Len(es) >= 1
  BY SMTT(60), <1>6, <1>11
<1> QED BY <1>10, <1>11, <1>12, <1>13, <1>14, <1>15

\* EventsOf yields events of the change.
LEMMA EventsYielded ==
  ASSUME CollectorType, NEW x \in Items, NEW es \in EventsOf(x)
  PROVE  es \in Seq(Events) /\ Yields(x, es)
<1>1. CASE x \in Markers
  <2>1. es = <<x.object>>
    BY <1>1, MarkerFacts DEF EventsOf
  <2>2. x.object \in Events
    BY <1>1, MarkerFacts
  <2>3. <<x.object>> \in Seq(Events)
    BY SMTT(60), <2>2
  <2> QED BY <1>1, <2>1, <2>3 DEF Yields
<1>2. CASE x \in ObjectItems /\ x.kind # "pod"
  <2>1. x.kind \notin {"cluster", "snapshot"}
    BY <1>2, ItemFacts DEF Kinds
  <2>2. es = <<ObjectEvent(x)>>
    BY <1>2, <2>1 DEF EventsOf
  <2>3. ObjectEvent(x) \in Events /\ Reports(ObjectEvent(x), x) /\ ObjectEvent(x).key = ObjectKey(UidOf(x))
    BY <1>2, ReportFacts
  <2>4. es \in Seq(Events) /\ Len(es) = 1 /\ es[1] = ObjectEvent(x) /\ 2 .. Len(es) = {}
    BY SMTT(60), <2>2, <2>3
  <2>5. x \notin Markers
    BY <1>2, ItemFacts
  <2>6. Len(es) >= 1
    BY <2>4
  <2> QED BY <1>2, <2>3, <2>4, <2>5, <2>6 DEF Yields
<1>3. CASE x \in ObjectItems /\ x.kind = "pod"
  <2>1. /\ es \in Seq(Events) /\ Len(es) >= 1 /\ es[1] = ObjectEvent(x)
        /\ \A i \in 2 .. Len(es) : es[i] \in ContainerEvents(x) \cup Withdrawn(x)
        /\ \A e \in ContainerEvents(x) \cup Withdrawn(x) : \E i \in 2 .. Len(es) : es[i] = e
    BY <1>3, PodEvents
  <2>2. Reports(es[1], x) /\ es[1].key = ObjectKey(UidOf(x))
    BY <1>3, <2>1, ReportFacts
  <2>3. ASSUME NEW i \in 2 .. Len(es)
        PROVE  (Reports(es[i], x) \/ Withdraws(es[i], x)) /\ es[i].key # ObjectKey(UidOf(x))
    <3>1. CASE es[i] \in ContainerEvents(x)
      BY SMTT(60), <1>3, <3>1, ReportFacts, KeyFacts, ItemFacts
    <3>2. CASE es[i] \in Withdrawn(x)
      <4>1. x.operation = "upsert" /\ es[i] \in RemovedContainers(x)
        BY <3>2 DEF Withdrawn
      <4>2. Withdraws(es[i], x)
        BY <1>3, <4>1, WithdrawFacts
      <4> QED BY SMTT(60), <1>3, <4>2, KeyFacts, ItemFacts DEF Withdraws
    <3> QED BY <2>1, <3>1, <3>2
  <2>4. ASSUME NEW c \in Value(x).containers
        PROVE  \E i \in 2 .. Len(es) : es[i].key = ContainerKey(UidOf(x), c)
    BY SMTT(60), <1>3, <2>1, ReportFacts
  <2>5. x \notin Markers
    BY <1>3, ItemFacts
  <2> QED BY <1>3, <2>1, <2>2, <2>3, <2>4, <2>5 DEF Yields
<1> QED BY <1>1, <1>2, <1>3 DEF Items
-----------------------------------------------------------------------------
(* Types. *)

\* The event the worker is at, and whether it is a delete.
LEMMA CurrentFacts ==
  ASSUME WorkType, Working
  PROVE  /\ work \in Jobs /\ work.item \in Items /\ work.events \in Seq(Events)
         /\ work.next \in 1 .. Len(work.events) /\ Current \in Events
         /\ work.events[work.next] = Current
         /\ Deletes(Current) <=> Current.operation = "delete"
<1>1. work # Idle /\ work \in Jobs /\ work.next <= Len(work.events)
  BY DEF WorkType, Working
<1>2. work.item \in Items /\ work.events \in Seq(Events) /\ work.next \in Nat
  BY <1>1 DEF Jobs
<1>3. Len(work.events) \in Nat
  BY <1>2, LenProperties
<1>4. Yields(work.item, work.events) /\ work.next >= 1
  BY <1>1 DEF WorkType
<1>5. work.next \in 1 .. Len(work.events)
  BY SMTT(60), <1>1, <1>2, <1>3, <1>4
<1>6. Current \in Events /\ work.events[work.next] = Current
  BY <1>2, <1>5, ElementOfSeq DEF Current
<1>7. CASE work.item \in Markers
  <2>1. work.events = <<work.item.object>>
    BY <1>4, <1>7 DEF Yields
  <2>2. work.next = 1
    BY SMTT(60), <1>5, <2>1
  <2>3. Current = work.item.object
    BY <2>1, <2>2 DEF Current
  <2> QED BY <1>1, <1>2, <1>5, <1>6, <1>7, <2>3, MarkerFacts DEF Deletes
<1>8. CASE work.item \in ObjectItems
  <2>1. work.item \notin Markers
    BY <1>8, ItemFacts
  <2>2. work.next = 1 \/ work.next \in 2 .. Len(work.events)
    BY SMTT(60), <1>3, <1>5
  <2>3. Reports(Current, work.item) \/ Withdraws(Current, work.item)
    BY <1>4, <2>1, <2>2 DEF Yields, Current
  <2>4. Deletes(Current) <=> Current.operation = "delete"
    BY <2>3 DEF Reports, Withdraws, Deletes
  <2> QED BY <1>1, <1>2, <1>5, <1>6, <2>4
<1> QED BY <1>2, <1>7, <1>8 DEF Items

\* A notification of a live object under its kind.
LEMMA ChangeIsItem ==
  ASSUME NEW o \in Objects, NEW op \in Operations, NEW v \in LiveStates
  PROVE  /\ Change(KindOf[o], op, [uid |-> o, value |-> v]) \in ObjectItems
         /\ Change(KindOf[o], op, [uid |-> o, value |-> v]).kind = KindOf[o]
         /\ Change(KindOf[o], op, [uid |-> o, value |-> v]).operation = op
         /\ UidOf(Change(KindOf[o], op, [uid |-> o, value |-> v])) = o
         /\ Value(Change(KindOf[o], op, [uid |-> o, value |-> v])) = v
<1>1. KindOf[o] \in Kinds
  BY CollectorAssumption
<1>2. [uid |-> o, value |-> v] \in [uid : Objects, value : LiveStates]
  OBVIOUS
<1> DEFINE x == Change(KindOf[o], op, [uid |-> o, value |-> v])
<1>3. x.kind = KindOf[o] /\ x.operation = op /\ x.object = [uid |-> o, value |-> v]
  BY DEF Change
<1>4. x \in [kind : Kinds, operation : Operations, object : [uid : Objects, value : LiveStates]]
  BY <1>1, <1>2 DEF Change
<1>5. UidOf(x) = o /\ Value(x) = v
  BY <1>3 DEF UidOf, Value
<1>6. x.kind = KindOf[x.object.uid]
  BY <1>3
<1>7. x \in ObjectItems
  BY <1>4, <1>6 DEF ObjectItems
<1> QED BY <1>3, <1>5, <1>7

\* The states of an object: live ones have a revision, the others none.
LEMMA StateFacts ==
  ASSUME NEW v \in States
  PROVE  /\ Live(v) <=> v \in LiveStates
         /\ v.state \in {"live", "absent", "gone"} /\ v.revision \in Nat
         /\ v.state = "absent" <=> v = Absent
         /\ v.state = "gone" <=> v = Gone
         /\ ~Live(v) => v.revision = 0 /\ v.containers = {}
<1>1. /\ Absent.state = "absent" /\ Absent.revision = 0 /\ Absent.containers = {}
      /\ Gone.state = "gone" /\ Gone.revision = 0 /\ Gone.containers = {}
  BY DEF Absent, Gone
<1>2. CASE v \in LiveStates
  BY <1>1, <1>2 DEF LiveStates, Live
<1>3. CASE v \in {Absent, Gone}
  BY <1>1, <1>3 DEF LiveStates, Live
<1> QED BY <1>2, <1>3 DEF States

\* The store holds of each object what the API has or had.
StoreBehind ==
  \A o \in Objects :
    api[o].state # "gone" => /\ store[o].state # "gone" /\ store[o].revision <= api[o].revision
                             /\ store[o].revision = api[o].revision => store[o] = api[o]
-----------------------------------------------------------------------------
(* Lines of notifications. *)

\* Notification b may come after notification a: when they are of one object,
\* a is no deletion and b is not older, nor another state of the same revision.
Follows(a, b) ==
  a \in ObjectItems /\ b \in ObjectItems /\ UidOf(a) = UidOf(b) =>
    /\ a.operation = "upsert" /\ Value(a).revision <= Value(b).revision
    /\ Value(a).revision = Value(b).revision => Value(a) = Value(b)

Chain(s) == \A i, j \in 1 .. Len(s) : i < j => Follows(s[i], s[j])

\* Adding at the end of a line.
LEMMA AppendLine ==
  ASSUME NEW S, NEW s \in Seq(S), NEW e \in S
  PROVE  /\ s \o <<e>> = Append(s, e) /\ Append(s, e) \in Seq(S)
         /\ Range(Append(s, e)) = Range(s) \cup {e}
         /\ Chain(s) /\ (\A x \in Range(s) : Follows(x, e)) => Chain(Append(s, e))
<1>1. s \o <<e>> = Append(s, e)
  BY AppendIsConcat
<1>2. /\ Append(s, e) \in Seq(S) /\ Len(Append(s, e)) = Len(s) + 1
      /\ \A i \in 1 .. Len(s) : Append(s, e)[i] = s[i]
      /\ Append(s, e)[Len(s) + 1] = e
  BY SMTT(60), AppendProperties
<1>3. Len(s) \in Nat
  BY LenProperties
<1> DEFINE t == Append(s, e)
<1> HIDE DEF t
<1>4. /\ t \in Seq(S) /\ Len(t) = Len(s) + 1
      /\ \A i \in 1 .. Len(s) : t[i] = s[i]
      /\ t[Len(s) + 1] = e
  BY <1>2 DEF t
<1>5. \A i \in 1 .. Len(t) : i \in 1 .. Len(s) \/ i = Len(s) + 1
  BY SMTT(60), <1>3, <1>4
<1>6. \A i \in 1 .. Len(s) : i \in 1 .. Len(t)
  BY SMTT(60), <1>3, <1>4
<1>7. Len(s) + 1 \in 1 .. Len(t)
  BY SMTT(60), <1>3, <1>4
<1>8. Range(t) = {t[i] : i \in 1 .. Len(t)} /\ Range(s) = {s[i] : i \in 1 .. Len(s)}
  BY <1>4, RangeEquality
<1>9. Range(t) = Range(s) \cup {e}
  BY <1>4, <1>5, <1>6, <1>7, <1>8
<1>10. ASSUME Chain(s), \A x \in Range(s) : Follows(x, e), NEW i \in 1 .. Len(t), NEW j \in 1 .. Len(t), i < j
       PROVE  Follows(t[i], t[j])
  <2>1. i \in 1 .. Len(s)
    BY SMTT(60), <1>3, <1>4, <1>10
  <2>2. CASE j \in 1 .. Len(s)
    BY <1>4, <1>10, <2>1, <2>2 DEF Chain
  <2>3. CASE j = Len(s) + 1
    BY <1>4, <1>8, <1>10, <2>1, <2>3
  <2> QED BY <1>5, <2>2, <2>3
<1>11. Chain(s) /\ (\A x \in Range(s) : Follows(x, e)) => Chain(t)
  BY <1>10 DEF Chain
<1> QED BY <1>1, <1>2, <1>9, <1>11 DEF t

\* Taking the first of a line.
LEMMA TakeFromLine ==
  ASSUME NEW S, NEW s \in Seq(S), s # <<>>
  PROVE  /\ Head(s) \in S /\ Tail(s) \in Seq(S)
         /\ Range(s) = {Head(s)} \cup Range(Tail(s))
         /\ Chain(s) => Chain(Tail(s)) /\ \A y \in Range(Tail(s)) : Follows(Head(s), y)
<1> DEFINE t == Tail(s)
<1>1. /\ Head(s) \in S /\ t \in Seq(S) /\ Len(t) = Len(s) - 1
      /\ \A i \in 1 .. Len(t) : t[i] = s[i + 1]
  BY HeadTailProperties
<1>2. Len(s) \in Nat /\ Len(t) \in Nat
  BY <1>1, LenProperties
<1>3. Head(s) = s[1]
  BY SMTT(60)
<1> HIDE DEF t
<1>4. \A i \in 1 .. Len(s) : i = 1 \/ (i - 1 \in 1 .. Len(t) /\ s[i] = t[i - 1])
  BY SMTT(60), <1>1, <1>2
<1>5. \A i \in 1 .. Len(t) : i + 1 \in 1 .. Len(s) /\ 1 < i + 1 /\ 1 \in 1 .. Len(s)
  BY SMTT(60), <1>1, <1>2
<1>6. 1 \in 1 .. Len(s)
  BY SMTT(60), <1>1, <1>2
<1>7. Range(t) = {t[i] : i \in 1 .. Len(t)} /\ Range(s) = {s[i] : i \in 1 .. Len(s)}
  BY <1>1, RangeEquality
<1>8. Range(s) \subseteq {Head(s)} \cup Range(t)
  BY SMTT(60), <1>3, <1>4, <1>7
<1>9. {Head(s)} \cup Range(t) \subseteq Range(s)
  BY <1>1, <1>3, <1>5, <1>6, <1>7
<1>10. ASSUME Chain(s) PROVE Chain(t) /\ \A y \in Range(t) : Follows(Head(s), y)
  <2>1. ASSUME NEW i \in 1 .. Len(t), NEW j \in 1 .. Len(t), i < j PROVE Follows(t[i], t[j])
    <3>1. i + 1 < j + 1
      BY SMTT(60), <1>2, <2>1
    <3> QED BY <1>1, <1>5, <1>10, <3>1 DEF Chain
  <2>2. ASSUME NEW i \in 1 .. Len(t) PROVE Follows(Head(s), t[i])
    BY <1>1, <1>3, <1>5, <1>10 DEF Chain
  <2> QED BY <1>7, <2>1, <2>2 DEF Chain
<1> QED BY <1>1, <1>8, <1>9, <1>10 DEF t

\* Markers follow every notification, and every notification follows them.
LEMMA MarkersFollow ==
  \A x \in Markers : \A y : Follows(x, y) /\ Follows(y, x)
BY MarkerFacts DEF Follows
-----------------------------------------------------------------------------
(* Each variable a step changes keeps its type. *)

\* Observe brings an object's new state, or its deletion with the last one.
LEMMA Observed ==
  ASSUME PlacesType, StoreBehind, NEW o \in Objects, Observe(o)
  PROVE  \/ /\ api[o] \in LiveStates
            /\ feed' = [feed EXCEPT ![KindOf[o]] =
                  Append(@, Change(KindOf[o], "upsert", [uid |-> o, value |-> api[o]]))]
         \/ /\ api[o] = Gone /\ store[o] \in LiveStates
            /\ feed' = [feed EXCEPT ![KindOf[o]] =
                  Append(@, Change(KindOf[o], "delete", [uid |-> o, value |-> store[o]]))]
<1>1. api[o] \in States /\ store[o] \in States
  BY DEF PlacesType
<1>2. store[o] # api[o] /\ ~(store[o] = Absent /\ api[o] = Gone)
  BY DEF Observe
<1>3. CASE api[o] = Gone
  <2>1. store[o] \in LiveStates
    BY <1>1, <1>2, <1>3 DEF States
  <2>2. feed' = [feed EXCEPT ![KindOf[o]] =
                  Append(@, Change(KindOf[o], "delete", [uid |-> o, value |-> store[o]]))]
    BY <1>3 DEF Observe
  <2> QED BY <1>3, <2>1, <2>2
<1>4. CASE api[o] # Gone
  <2>1. api[o].state # "gone"
    BY <1>1, <1>4, StateFacts
  <2>2. api[o] # Absent
    <3>1. SUFFICES ASSUME api[o] = Absent PROVE FALSE
      OBVIOUS
    <3>2. api[o].revision = 0 /\ store[o].revision \in Nat /\ store[o].revision <= api[o].revision
      BY SMTT(60), <1>1, <2>1, <3>1, StateFacts DEF StoreBehind, Absent
    <3>3. store[o].revision = api[o].revision
      BY SMTT(60), <3>2
    <3> QED BY <1>2, <2>1, <3>3 DEF StoreBehind
  <2>3. api[o] \in LiveStates
    BY <1>1, <1>4, <2>2 DEF States
  <2>4. feed' = [feed EXCEPT ![KindOf[o]] =
                  Append(@, Change(KindOf[o], "upsert", [uid |-> o, value |-> api[o]]))]
    BY <1>4 DEF Observe
  <2> QED BY <2>3, <2>4
<1> QED BY <1>3, <1>4

\* A feed that is given a notification of its kind.
LEMMA FeedGrows ==
  ASSUME LinesType, NEW k \in Kinds, NEW x \in ObjectItems, x.kind = k,
         feed' = [feed EXCEPT ![k] = Append(@, x)]
  PROVE  /\ feed' \in [Kinds -> Seq(ObjectItems)]
         /\ \A j \in Kinds : \A i \in DOMAIN feed'[j] : feed'[j][i].kind = j
         /\ feed'[k] = Append(feed[k], x) /\ \A j \in Kinds \ {k} : feed'[j] = feed[j]
<1>1. feed \in [Kinds -> Seq(ObjectItems)] /\ feed[k] \in Seq(ObjectItems)
  BY DEF LinesType
<1>2. Append(feed[k], x) \in Seq(ObjectItems)
  BY <1>1, AppendProperties
<1>3. /\ feed' \in [Kinds -> Seq(ObjectItems)]
      /\ feed'[k] = Append(feed[k], x) /\ \A j \in Kinds \ {k} : feed'[j] = feed[j]
  BY <1>1, <1>2
<1>4. Range(feed'[k]) = Range(feed[k]) \cup {x}
  BY SMTT(60), <1>1, <1>3, AppendLine
<1>5. \A y \in Range(feed[k]) : y.kind = k
  BY DEF LinesType, Range
<1>6. \A i \in DOMAIN feed'[k] : feed'[k][i] \in Range(feed'[k])
  BY DEF Range
<1>7. \A i \in DOMAIN feed'[k] : feed'[k][i].kind = k
  BY <1>4, <1>5, <1>6
<1>8. \A j \in Kinds \ {k} : \A i \in DOMAIN feed'[j] : feed'[j][i].kind = j
  BY <1>3 DEF LinesType
<1> QED BY <1>3, <1>7, <1>8

\* A handler takes the first notification of its feed.
LEMMA FeedShrinks ==
  ASSUME LinesType, NEW k \in Kinds, feed[k] # <<>>, feed' = [feed EXCEPT ![k] = Tail(@)]
  PROVE  /\ feed' \in [Kinds -> Seq(ObjectItems)]
         /\ \A j \in Kinds : \A i \in DOMAIN feed'[j] : feed'[j][i].kind = j
         /\ feed'[k] = Tail(feed[k]) /\ \A j \in Kinds \ {k} : feed'[j] = feed[j]
         /\ Head(feed[k]) \in ObjectItems /\ Head(feed[k]).kind = k
<1>1. feed \in [Kinds -> Seq(ObjectItems)] /\ feed[k] \in Seq(ObjectItems)
  BY DEF LinesType
<1>2. /\ Tail(feed[k]) \in Seq(ObjectItems) /\ Head(feed[k]) \in ObjectItems
      /\ Range(feed[k]) = {Head(feed[k])} \cup Range(Tail(feed[k]))
  BY <1>1, TakeFromLine
<1>3. /\ feed' \in [Kinds -> Seq(ObjectItems)]
      /\ feed'[k] = Tail(feed[k]) /\ \A j \in Kinds \ {k} : feed'[j] = feed[j]
  BY <1>1, <1>2
<1>4. \A y \in Range(feed[k]) : y.kind = k
  BY DEF LinesType, Range
<1>5. \A i \in DOMAIN feed'[k] : feed'[k][i] \in Range(feed'[k])
  BY DEF Range
<1>6. \A i \in DOMAIN feed'[k] : feed'[k][i].kind = k
  BY <1>2, <1>3, <1>4, <1>5
<1>7. \A j \in Kinds \ {k} : \A i \in DOMAIN feed'[j] : feed'[j][i].kind = j
  BY <1>3 DEF LinesType
<1> QED BY <1>2, <1>3, <1>4, <1>6, <1>7

\* A resync notifies each feed of the live objects of its kind.
LEMMA ResyncLists ==
  ASSUME PlacesType, NEW k \in Kinds, NEW s \in Orders(ResyncsOf(k))
  PROVE  /\ s \in Seq(ResyncsOf(k)) /\ Range(s) = ResyncsOf(k)
         /\ \A x \in ResyncsOf(k) :
              /\ x \in ObjectItems /\ x.kind = k /\ x.operation = "upsert"
              /\ Value(x) = store[UidOf(x)]
         /\ \A o \in Objects : Live(store[o]) /\ KindOf[o] = k =>
              \E x \in ResyncsOf(k) : UidOf(x) = o
<1> DEFINE live == {p \in Objects : Live(store[p])}
           notice == [o \in live |-> Change(KindOf[o], "upsert", [uid |-> o, value |-> store[o]])]
<1>2. ResyncChanges = {notice[o] : o \in live}
  BY DEF ResyncChanges
<1>5. s \in Seq(ResyncsOf(k)) /\ \A e \in ResyncsOf(k) : \E i \in 1 .. Len(s) : s[i] = e
  BY OrdersList
<1>6. Range(s) = ResyncsOf(k)
  <2>1. Range(s) = {s[i] : i \in 1 .. Len(s)} /\ Range(s) \subseteq ResyncsOf(k)
    BY <1>5, RangeEquality, RangeOfSeq
  <2> QED BY <1>5, <2>1
<1>7. ASSUME NEW o \in live
      PROVE  /\ notice[o] \in ObjectItems /\ notice[o].kind = KindOf[o] /\ notice[o].operation = "upsert"
             /\ UidOf(notice[o]) = o /\ Value(notice[o]) = store[o]
  <2>1. store[o] \in LiveStates
    BY StateFacts DEF PlacesType
  <2>2. "upsert" \in Operations
    BY DEF Operations
  <2> QED BY SMTT(60), <2>1, <2>2, ChangeIsItem
<1> HIDE DEF notice
<1>8. \A x \in ResyncsOf(k) : /\ x \in ObjectItems /\ x.kind = k /\ x.operation = "upsert"
                              /\ Value(x) = store[UidOf(x)]
  BY <1>2, <1>7 DEF ResyncsOf
<1>9. ASSUME NEW o \in Objects, Live(store[o]), KindOf[o] = k
      PROVE  \E x \in ResyncsOf(k) : UidOf(x) = o
  <2>1. o \in live /\ notice[o] \in ResyncChanges
    BY <1>2, <1>9
  <2>2. notice[o] \in ResyncsOf(k) /\ UidOf(notice[o]) = o
    BY <1>7, <1>9, <2>1 DEF ResyncsOf
  <2> QED BY <2>2
<1> QED BY <1>5, <1>6, <1>8, <1>9

\* What Start queues when its informers have synced.
LEMMA StartAdds ==
  ASSUME LinesType, StartRuns, ~shut
  PROVE  /\ Marker("cluster", Cluster) \in Markers /\ Marker("snapshot", Snapshot("completed")) \in Markers
         /\ queue' = Append(Append(queue, Marker("cluster", Cluster)), Marker("snapshot", Snapshot("completed")))
<1>1. Marker("cluster", Cluster) \in Items /\ Marker("snapshot", Snapshot("completed")) \in Items
  BY DEF Items, Markers
<1> DEFINE a == Marker("cluster", Cluster)
           b == Marker("snapshot", Snapshot("completed"))
<1>2. queue' = queue \o <<a, b>> /\ queue \in Seq(Items)
  BY DEF StartRuns, Add, LinesType
<1> HIDE DEF a, b
<1>3. queue' = Append(Append(queue, a), b)
  BY SMTT(60), <1>1, <1>2 DEF a, b
<1> QED BY <1>1, <1>3 DEF Markers, a, b

\* Notifications stay notifications of their kind, wherever they are.
LEMMA LinesKept ==
  ASSUME CollectorType, StoreBehind, Next
  PROVE  LinesType'
<1>0. PlacesType /\ LinesType /\ WorkType /\ FlagsType
  BY DEF CollectorType
<1>1. ASSUME UNCHANGED <<feed, queue, delayed>> PROVE LinesType'
  BY <1>0, <1>1 DEF LinesType
<1>2. ASSUME NEW o \in Objects, Observe(o) PROVE LinesType'
  <2>1. KindOf[o] \in Kinds /\ "upsert" \in Operations /\ "delete" \in Operations
    BY CollectorAssumption DEF Operations
  <2>2. PICK x \in ObjectItems : x.kind = KindOf[o] /\ feed' = [feed EXCEPT ![KindOf[o]] = Append(@, x)]
    <3>1. CASE api[o] \in LiveStates /\ feed' = [feed EXCEPT ![KindOf[o]] =
                  Append(@, Change(KindOf[o], "upsert", [uid |-> o, value |-> api[o]]))]
      <4> DEFINE x == Change(KindOf[o], "upsert", [uid |-> o, value |-> api[o]])
      <4>1. x \in ObjectItems /\ x.kind = KindOf[o]
        BY <2>1, <3>1, ChangeIsItem
      <4>2. feed' = [feed EXCEPT ![KindOf[o]] = Append(@, x)]
        BY <3>1
      <4> HIDE DEF x
      <4> QED BY <4>1, <4>2
    <3>2. CASE store[o] \in LiveStates /\ feed' = [feed EXCEPT ![KindOf[o]] =
                  Append(@, Change(KindOf[o], "delete", [uid |-> o, value |-> store[o]]))]
      <4> DEFINE x == Change(KindOf[o], "delete", [uid |-> o, value |-> store[o]])
      <4>1. x \in ObjectItems /\ x.kind = KindOf[o]
        BY <2>1, <3>2, ChangeIsItem
      <4>2. feed' = [feed EXCEPT ![KindOf[o]] = Append(@, x)]
        BY <3>2
      <4> HIDE DEF x
      <4> QED BY <4>1, <4>2
    <3> QED BY <1>0, <1>2, <3>1, <3>2, Observed
  <2>3. /\ feed' \in [Kinds -> Seq(ObjectItems)]
        /\ \A j \in Kinds : \A i \in DOMAIN feed'[j] : feed'[j][i].kind = j
    BY <1>0, <2>1, <2>2, FeedGrows
  <2>4. UNCHANGED <<queue, delayed>>
    BY <1>2 DEF Observe
  <2> QED BY <1>0, <2>3, <2>4 DEF LinesType
<1>3. ASSUME NEW k \in Kinds, Handler(k) PROVE LinesType'
  <2>1. feed[k] # <<>> /\ feed' = [feed EXCEPT ![k] = Tail(@)] /\ delayed' = delayed
    BY <1>3 DEF Handler
  <2>2. /\ feed' \in [Kinds -> Seq(ObjectItems)]
        /\ \A j \in Kinds : \A i \in DOMAIN feed'[j] : feed'[j][i].kind = j
        /\ Head(feed[k]) \in Items
    BY <1>0, <2>1, FeedShrinks DEF Items
  <2>3. queue \in Seq(Items) /\ queue' = IF shut THEN queue ELSE queue \o <<Head(feed[k])>>
    BY <1>0, <1>3 DEF Handler, Add, LinesType
  <2>4. queue' \in Seq(Items)
    BY SMTT(60), <2>2, <2>3, AppendLine
  <2> QED BY <1>0, <2>1, <2>2, <2>4 DEF LinesType
<1>4. ASSUME Resync PROVE LinesType'
  <2>1. /\ feed' \in [Kinds -> UNION {Orders(ResyncsOf(k)) : k \in Kinds}]
        /\ \A k \in Kinds : feed'[k] \in Orders(ResyncsOf(k))
        /\ UNCHANGED <<queue, delayed>>
    BY <1>4 DEF Resync
  <2>2. ASSUME NEW k \in Kinds
        PROVE  feed'[k] \in Seq(ObjectItems) /\ \A i \in DOMAIN feed'[k] : feed'[k][i].kind = k
    <3>1. /\ feed'[k] \in Seq(ResyncsOf(k)) /\ Range(feed'[k]) = ResyncsOf(k)
          /\ \A x \in ResyncsOf(k) : x \in ObjectItems /\ x.kind = k
      BY <1>0, <2>1, ResyncLists
    <3>2. feed'[k] \in Seq(ObjectItems)
      BY <3>1, SeqMonotonic
    <3>3. \A i \in DOMAIN feed'[k] : feed'[k][i] \in Range(feed'[k])
      BY DEF Range
    <3> QED BY <3>1, <3>2, <3>3
  <2>3. feed' \in [Kinds -> Seq(ObjectItems)]
    BY <2>1, <2>2
  <2> QED BY <1>0, <2>1, <2>2, <2>3 DEF LinesType
<1>5. ASSUME StartRuns PROVE LinesType'
  <2>1. UNCHANGED <<feed, delayed>> /\ queue \in Seq(Items)
    BY <1>0, <1>5 DEF StartRuns, informerVars, LinesType
  <2>2. CASE shut
    BY <1>0, <1>5, <2>1, <2>2 DEF StartRuns, Add, LinesType
  <2>3. CASE ~shut
    <3> DEFINE a == Marker("cluster", Cluster)
               b == Marker("snapshot", Snapshot("completed"))
    <3>1. a \in Items /\ b \in Items /\ queue' = Append(Append(queue, a), b)
      BY <1>0, <1>5, <2>3, StartAdds DEF Items
    <3> HIDE DEF a, b
    <3>2. queue' \in Seq(Items)
      BY <2>1, <3>1, AppendProperties
    <3> QED BY <1>0, <2>1, <3>2 DEF LinesType
  <2> QED BY <2>2, <2>3
<1>6. ASSUME ProcessNext PROVE LinesType'
  <2>1. queue \in Seq(Items) /\ queue # <<>> /\ queue' = Tail(queue) /\ UNCHANGED <<feed, delayed>>
    BY <1>0, <1>6 DEF ProcessNext, LinesType, informerVars
  <2>2. queue' \in Seq(Items)
    BY <2>1, TakeFromLine
  <2> QED BY <1>0, <2>1, <2>2 DEF LinesType
<1>7. ASSUME PublishFails PROVE LinesType'
  <2>1. work.item \in Items
    BY <1>0, <1>7, CurrentFacts DEF PublishFails
  <2>2. delayed' = (IF shut THEN delayed ELSE delayed \cup {work.item}) /\ UNCHANGED <<feed, queue>>
    BY <1>7 DEF PublishFails, informerVars
  <2> QED BY <1>0, <2>1, <2>2 DEF LinesType
<1>8. ASSUME NEW item \in delayed, Retry(item) PROVE LinesType'
  <2>1. /\ delayed' \subseteq Items /\ item \in Items /\ queue \in Seq(Items)
        /\ queue' = IF shut THEN queue ELSE queue \o <<item>>
        /\ feed' = feed
    BY <1>0, <1>8 DEF Retry, LinesType, Add, informerVars
  <2>2. queue' \in Seq(Items)
    BY SMTT(60), <2>1, AppendLine
  <2> QED BY <1>0, <2>1, <2>2 DEF LinesType
<1>9. CASE \E o \in Objects : ApiCreate(o) \/ ApiUpdate(o) \/ ApiDelete(o)
  BY <1>1, <1>9 DEF ApiCreate, ApiUpdate, ApiDelete, informerVars
<1>10. CASE StartFails \/ Cancel \/ ShutDown \/ SkipDelta \/ PublishDelta \/ Finish \/ Acknowledge
  BY <1>1, <1>10 DEF StartFails, Cancel, ShutDown, SkipDelta, PublishDelta, Finish, Acknowledge, informerVars
<1> QED BY <1>2, <1>3, <1>4, <1>5, <1>6, <1>7, <1>8, <1>9, <1>10 DEF Next

\* The states of objects stay states; the store stays behind the API, which
\* gives each change of an object a new revision and each object one deletion.
LEMMA PlacesKept ==
  ASSUME CollectorType, StoreBehind, Next
  PROVE  PlacesType' /\ StoreBehind'
<1>0. PlacesType
  BY DEF CollectorType
<1>1. ASSUME UNCHANGED <<api, store>> PROVE PlacesType' /\ StoreBehind'
  BY <1>0, <1>1 DEF PlacesType, StoreBehind
<1>2. ASSUME NEW o \in Objects, NEW v \in States, api' = [api EXCEPT ![o] = v], store' = store,
             v.state # "gone" => api[o].state # "gone" /\ api[o].revision < v.revision
      PROVE  PlacesType' /\ StoreBehind'
  <2>1. PlacesType'
    BY <1>0, <1>2 DEF PlacesType
  <2>2. api'[o] = v /\ \A p \in Objects \ {o} : api'[p] = api[p]
    BY <1>0, <1>2 DEF PlacesType
  <2>3. ASSUME v.state # "gone"
        PROVE  store[o].state # "gone" /\ store[o].revision < v.revision
    <3>1. store[o].revision \in Nat /\ api[o].revision \in Nat /\ v.revision \in Nat
      BY <1>0, StateFacts DEF PlacesType
    <3>2. store[o].state # "gone" /\ store[o].revision <= api[o].revision /\ api[o].revision < v.revision
      BY <1>2, <2>3 DEF StoreBehind
    <3> QED BY SMTT(60), <3>1, <3>2
  <2>4. v.revision \in Nat /\ store[o].revision \in Nat
    BY <1>0, StateFacts DEF PlacesType
  <2>5. v.state # "gone" => /\ store[o].state # "gone" /\ store[o].revision <= v.revision
                            /\ store[o].revision = v.revision => store[o] = v
    BY SMTT(60), <2>3, <2>4
  <2>6. StoreBehind'
    BY <1>2, <2>2, <2>5 DEF StoreBehind
  <2> QED BY <2>1, <2>6
<1>3. \A o \in Objects : ObjectStates(o) \subseteq LiveStates
  BY SMTT(60), CollectorAssumption DEF ObjectStates, LiveStates
<1>4. ASSUME NEW o \in Objects, ApiCreate(o) PROVE PlacesType' /\ StoreBehind'
  <2>1. PICK v \in NewStates(o) : api' = [api EXCEPT ![o] = v]
    BY <1>4 DEF ApiCreate
  <2>2. api[o] = Absent /\ store' = store
    BY <1>4 DEF ApiCreate, informerVars
  <2>3. v \in States /\ v.revision = 1
    BY <1>3 DEF NewStates, States
  <2>4. api[o].state # "gone" /\ api[o].revision < v.revision
    BY SMTT(60), <2>2, <2>3 DEF Absent
  <2> QED BY <1>2, <2>1, <2>2, <2>3, <2>4
<1>5. ASSUME NEW o \in Objects, ApiUpdate(o) PROVE PlacesType' /\ StoreBehind'
  <2>1. PICK v \in ObjectStates(o) : v.revision = api[o].revision + 1 /\ api' = [api EXCEPT ![o] = v]
    BY <1>5 DEF ApiUpdate
  <2>2. Live(api[o]) /\ store' = store
    BY <1>5 DEF ApiUpdate, informerVars
  <2>3. v \in States /\ api[o] \in States
    BY <1>0, <1>3 DEF States, PlacesType
  <2>4. api[o].state # "gone" /\ api[o].revision \in Nat
    BY <2>2, <2>3, StateFacts DEF Live
  <2>5. api[o].revision < v.revision
    BY SMTT(60), <2>1, <2>4
  <2> QED BY <1>2, <2>1, <2>2, <2>3, <2>4, <2>5
<1>6. ASSUME NEW o \in Objects, ApiDelete(o) PROVE PlacesType' /\ StoreBehind'
  <2>1. api' = [api EXCEPT ![o] = Gone] /\ store' = store
    BY <1>6 DEF ApiDelete, informerVars
  <2>2. Gone \in States /\ Gone.state = "gone"
    BY StateFacts DEF States
  <2> QED BY <1>2, <2>1, <2>2
<1>7. ASSUME NEW o \in Objects, Observe(o) PROVE PlacesType' /\ StoreBehind'
  <2>1. store' = [store EXCEPT ![o] = api[o]] /\ api' = api
    BY <1>7 DEF Observe, clusterVars
  <2>2. store'[o] = api[o] /\ \A p \in Objects \ {o} : store'[p] = store[p]
    BY <1>0, <2>1 DEF PlacesType
  <2>3. PlacesType'
    BY <1>0, <2>1 DEF PlacesType
  <2>4. api[o].revision <= api[o].revision
    <3>1. api[o].revision \in Nat
      BY <1>0, StateFacts DEF PlacesType
    <3> QED BY SMTT(60), <3>1
  <2>5. StoreBehind'
    BY <2>1, <2>2, <2>4 DEF StoreBehind
  <2> QED BY <2>3, <2>5
<1>8. CASE (\E k \in Kinds : Handler(k)) \/ Resync \/ StartRuns \/ StartFails \/ Cancel \/ ShutDown
  BY <1>1, <1>8 DEF Handler, Resync, StartRuns, StartFails, Cancel, ShutDown, clusterVars, informerVars
<1>9. CASE ProcessNext \/ SkipDelta \/ PublishDelta \/ PublishFails \/ Finish
           \/ (\E item \in delayed : Retry(item)) \/ Acknowledge
  BY <1>1, <1>9 DEF ProcessNext, SkipDelta, PublishDelta, PublishFails, Finish, Retry, Acknowledge,
                    clusterVars, informerVars
<1> QED BY <1>4, <1>5, <1>6, <1>7, <1>8, <1>9 DEF Next

\* The worker goes on to the next event.
LEMMA WorkAdvances ==
  ASSUME WorkType, Working, work' = [work EXCEPT !.next = @ + 1]
  PROVE  /\ WorkType' /\ work' # Idle /\ work'.item = work.item /\ work'.events = work.events
         /\ work'.next = work.next + 1
<1>1. work \in Jobs /\ work.next \in Nat /\ work.next >= 1 /\ Yields(work.item, work.events)
  BY DEF WorkType, Working, Jobs
<1>2. /\ work' \in Jobs /\ work'.item = work.item /\ work'.events = work.events
      /\ work'.next = work.next + 1
  BY SMTT(60), <1>1 DEF Jobs
<1>3. work'.next >= 1 /\ work'.next # 0
  BY SMTT(60), <1>1, <1>2
<1>4. work' # Idle
  BY <1>3 DEF Idle
<1>5. Yields(work'.item, work'.events)
  BY <1>1, <1>2
<1> QED BY <1>2, <1>3, <1>4, <1>5 DEF WorkType

\* The worker takes the first of the queue.
LEMMA WorkStarts ==
  ASSUME CollectorType, ProcessNext
  PROVE  /\ WorkType' /\ work' # Idle /\ work = Idle
         /\ queue \in Seq(Items) /\ queue # <<>> /\ queue' = Tail(queue)
         /\ work'.item = Head(queue) /\ work'.item \in Items
         /\ work'.events \in EventsOf(work'.item) /\ work'.events \in Seq(Events)
         /\ work'.next = 1
<1>1. queue \in Seq(Items) /\ queue # <<>> /\ queue' = Tail(queue) /\ work = Idle
  BY DEF ProcessNext, CollectorType, LinesType
<1>2. Head(queue) \in Items
  BY <1>1, TakeFromLine
<1>3. PICK es \in EventsOf(Head(queue)) : work' = [item |-> Head(queue), events |-> es, next |-> 1]
  BY DEF ProcessNext
<1>4. es \in Seq(Events) /\ Yields(Head(queue), es)
  BY <1>2, EventsYielded
<1>5. work'.item = Head(queue) /\ work'.events = es /\ work'.next = 1
  BY <1>3
<1>6. work' # Idle
  BY <1>5 DEF Idle
<1>7. work' \in Jobs
  <2>1. 1 \in Nat
    OBVIOUS
  <2> QED BY <1>2, <1>3, <1>4, <2>1 DEF Jobs
<1>8. Yields(work'.item, work'.events) /\ work'.next >= 1
  BY <1>4, <1>5
<1> QED BY <1>1, <1>2, <1>4, <1>5, <1>6, <1>7, <1>8 DEF WorkType

\* What the worker has in hand stays a job.
LEMMA WorkKept ==
  ASSUME CollectorType, Next
  PROVE  WorkType'
<1>0. WorkType
  BY DEF CollectorType
<1>1. ASSUME work' = work PROVE WorkType'
  BY <1>0, <1>1 DEF WorkType
<1>2. ASSUME work' = Idle PROVE WorkType'
  BY <1>2 DEF WorkType
<1>3. CASE SkipDelta \/ PublishDelta
  BY <1>0, <1>3, WorkAdvances DEF SkipDelta, PublishDelta
<1>4. CASE ProcessNext
  BY <1>4, WorkStarts
<1>5. CASE PublishFails \/ Finish
  BY <1>2, <1>5 DEF PublishFails, Finish
<1>6. CASE \E o \in Objects : ApiCreate(o) \/ ApiUpdate(o) \/ ApiDelete(o) \/ Observe(o)
  BY <1>1, <1>6 DEF ApiCreate, ApiUpdate, ApiDelete, Observe, workerVars
<1>7. CASE (\E k \in Kinds : Handler(k)) \/ Resync \/ StartRuns \/ StartFails \/ Cancel \/ ShutDown
           \/ (\E item \in delayed : Retry(item)) \/ Acknowledge
  BY <1>1, <1>7 DEF Handler, Resync, StartRuns, StartFails, Cancel, ShutDown, Retry, Acknowledge, workerVars
<1> QED BY <1>3, <1>4, <1>5, <1>6, <1>7 DEF Next

\* Only PublishDelta changes what is cached and what was published; Finish alone
\* changes the containers kept of a pod.
LEMMA WorkerOnly ==
  ASSUME Next
  PROVE  /\ PublishDelta \/ UNCHANGED <<cache, latest, redundant>>
         /\ Finish \/ podContainers' = podContainers
<1>1. CASE \E o \in Objects : ApiCreate(o) \/ ApiUpdate(o) \/ ApiDelete(o) \/ Observe(o)
  BY <1>1 DEF ApiCreate, ApiUpdate, ApiDelete, Observe, workerVars
<1>2. CASE (\E k \in Kinds : Handler(k)) \/ Resync \/ StartRuns \/ StartFails \/ Cancel \/ ShutDown
           \/ (\E item \in delayed : Retry(item)) \/ Acknowledge
  BY <1>2 DEF Handler, Resync, StartRuns, StartFails, Cancel, ShutDown, Retry, Acknowledge, workerVars
<1>3. CASE ProcessNext \/ SkipDelta \/ PublishDelta \/ PublishFails \/ Finish
  BY <1>3 DEF ProcessNext, SkipDelta, PublishDelta, PublishFails, Finish
<1> QED BY <1>1, <1>2, <1>3 DEF Next

\* What PublishDelta does: one key, one event.
LEMMA Published ==
  ASSUME WorkType, CacheType, PublishDelta
  PROVE  /\ Working /\ Current \in Events /\ Current.key \in Keys
         /\ latest'[Current.key] = Current
         /\ cache'[Current.key] = IF Current.operation = "delete" THEN <<>> ELSE Current.body
         /\ \A k \in Keys \ {Current.key} : latest'[k] = latest[k] /\ cache'[k] = cache[k]
         /\ CacheType'
<1>1. Working /\ Current \in Events /\ (Deletes(Current) <=> Current.operation = "delete")
  BY CurrentFacts DEF PublishDelta
<1>2. Current.key \in Keys /\ Current.body \in Bodies
  BY <1>1 DEF Events
<1>3. latest' = [latest EXCEPT ![Current.key] = Current]
  BY DEF PublishDelta
<1>4. cache' = [cache EXCEPT ![Current.key] = IF Current.operation = "delete" THEN <<>> ELSE Current.body]
  BY <1>1 DEF PublishDelta, Committed, Fingerprint
<1> DEFINE e == Current
<1> HIDE DEF e
<1>5. /\ latest'[e.key] = e
      /\ \A k \in Keys \ {e.key} : latest'[k] = latest[k]
      /\ latest' \in [Keys -> Events \cup {None}]
  BY <1>1, <1>2, <1>3 DEF CacheType, e
<1>6. /\ cache'[e.key] = IF e.operation = "delete" THEN <<>> ELSE e.body
      /\ \A k \in Keys \ {e.key} : cache'[k] = cache[k]
      /\ cache' \in [Keys -> Bodies \cup {<<>>}]
  BY <1>2, <1>4 DEF CacheType, e
<1> QED BY <1>1, <1>2, <1>5, <1>6 DEF CacheType, e

\* Cache and history agree, and no delta published was redundant.
LEMMA CacheKept ==
  ASSUME CollectorType, CacheIsLatest, Next
  PROVE  CacheType' /\ CacheIsLatest'
<1>0. WorkType /\ CacheType
  BY DEF CollectorType
<1>1. CASE UNCHANGED <<cache, latest, redundant>>
  BY <1>0, <1>1 DEF CacheType, CacheIsLatest
<1>2. CASE PublishDelta
  <2> DEFINE e == Current
  <2>1. /\ e \in Events /\ e.key \in Keys /\ latest'[e.key] = e
        /\ cache'[e.key] = IF e.operation = "delete" THEN <<>> ELSE e.body
        /\ \A k \in Keys \ {e.key} : latest'[k] = latest[k] /\ cache'[k] = cache[k]
        /\ CacheType'
    BY <1>0, <1>2, Published
  <2>2. Deletes(e) <=> e.operation = "delete"
    BY <1>0, <1>2, CurrentFacts DEF PublishDelta
  <2>3. ~NothingToSay(e) /\ redundant' = (redundant \/ SaysNothingNew(e))
    BY <1>2 DEF PublishDelta
  <2> HIDE DEF e
  <2>4. e.operation \in Operations /\ e.body # <<>>
    BY <2>1, BodyFacts DEF Events
  <2>5. ~SaysNothingNew(e)
    <3>1. CASE e.operation = "delete"
      <4>1. cache[e.key] # <<>>
        BY <2>2, <2>3, <3>1 DEF NothingToSay, Exists
      <4>2. latest[e.key].operation = "upsert"
        BY <2>1, <4>1 DEF CacheIsLatest
      <4> QED BY <3>1, <4>2 DEF SaysNothingNew
    <3>2. CASE e.operation # "delete"
      <4>1. cache[e.key] # e.body
        BY <2>2, <2>3, <3>2 DEF NothingToSay, Changed, Fingerprint
      <4> QED BY <2>1, <3>2, <4>1 DEF SaysNothingNew, CacheIsLatest
    <3> QED BY <3>1, <3>2
  <2>6. redundant' = FALSE
    BY <2>3, <2>5 DEF CacheIsLatest
  <2>7. \A k \in Keys : IF latest'[k].operation = "upsert" THEN cache'[k] = latest'[k].body
                                                            ELSE cache'[k] = <<>>
    BY <2>1, <2>4 DEF CacheIsLatest, Operations
  <2> QED BY <2>1, <2>6, <2>7 DEF CacheIsLatest
<1> QED BY <1>1, <1>2, WorkerOnly

\* The events of a pod's containers, by what they do.
LEMMA ContainerEventCases ==
  ASSUME NEW x \in ObjectItems, x.kind = "pod", NEW es \in Seq(Events), Yields(x, es),
         NEW i \in 2 .. Len(es)
  PROVE  \/ /\ es[i].operation = x.operation /\ es[i].revision = Value(x).revision
            /\ \E c \in Value(x).containers : es[i].key = ContainerKey(UidOf(x), c)
         \/ /\ x.operation = "upsert" /\ es[i].operation = "delete"
            /\ \E c \in Containers \ Value(x).containers : es[i].key = ContainerKey(UidOf(x), c)
<1>1. (Reports(es[i], x) \/ Withdraws(es[i], x)) /\ es[i].key # ObjectKey(UidOf(x))
  BY ItemFacts DEF Yields
<1> QED BY <1>1 DEF Reports, Withdraws

\* What updatePodContainers keeps of a pod: the containers of its last upsert.
LEMMA KeptAfter ==
  ASSUME NEW x \in ObjectItems, x.kind = "pod", NEW es \in Seq(Events), Yields(x, es)
  PROVE  /\ x.operation = "delete" => UpdatePodContainers(x, es) = {}
         /\ UpdatePodContainers(x, es) \subseteq Events
         /\ \A e \in UpdatePodContainers(x, es) :
              /\ e.operation = "upsert" /\ e.revision = Value(x).revision
              /\ \E c \in Value(x).containers : e.key = ContainerKey(UidOf(x), c)
         /\ x.operation = "upsert" => \A c \in Value(x).containers :
              \E e \in UpdatePodContainers(x, es) : e.key = ContainerKey(UidOf(x), c)
<1>1. x.operation \in Operations
  BY ItemFacts
<1>2. CASE x.operation = "delete"
  <2>1. UpdatePodContainers(x, es) = {}
    BY <1>2 DEF UpdatePodContainers
  <2> QED BY <1>2, <2>1
<1>3. CASE x.operation = "upsert"
  <2> DEFINE at == {j \in 2 .. Len(es) : es[j].operation # "delete"}
             kept == UpdatePodContainers(x, es)
  <2>1. kept = {es[i] : i \in at}
    BY <1>3 DEF UpdatePodContainers
  <2>2. Len(es) \in Nat
    BY LenProperties
  <2>3. at \subseteq 1 .. Len(es)
    BY SMTT(60), <2>2
  <2>4. kept \subseteq Events
    BY <2>1, <2>3, ElementOfSeq
  <2>6. ASSUME NEW i \in at
        PROVE  /\ es[i].operation = "upsert" /\ es[i].revision = Value(x).revision
               /\ \E c \in Value(x).containers : es[i].key = ContainerKey(UidOf(x), c)
    BY SMTT(60), <1>3, ContainerEventCases
  <2>7. ASSUME NEW c \in Value(x).containers PROVE \E e \in kept : e.key = ContainerKey(UidOf(x), c)
    <3>1. PICK i \in 2 .. Len(es) : es[i].key = ContainerKey(UidOf(x), c)
      BY ItemFacts DEF Yields
    <3>2. es[i].operation = x.operation
      BY SMTT(60), <3>1, ContainerEventCases, KeyFacts
    <3> QED BY <1>3, <2>1, <3>1, <3>2
  <2> HIDE DEF at
  <2> QED BY <1>3, <2>1, <2>4, <2>6, <2>7
<1> QED BY <1>1, <1>2, <1>3 DEF Operations

\* What the worker leaves when it has published everything.
LEMMA Finished ==
  ASSUME WorkType, ContainersType, Finish
  PROVE  /\ work # Idle /\ work' = Idle /\ work \in Jobs /\ work.item \in Items
         /\ work.events \in Seq(Events) /\ Yields(work.item, work.events)
         /\ work.next \in Nat /\ work.next > Len(work.events)
         /\ work.item.kind # "pod" => podContainers' = podContainers
         /\ work.item \in Markers => podContainers' = podContainers
         /\ work.item \in ObjectItems /\ work.item.kind = "pod" =>
              /\ podContainers'[UidOf(work.item)] = UpdatePodContainers(work.item, work.events)
              /\ \A o \in PodsOnly \ {UidOf(work.item)} : podContainers'[o] = podContainers[o]
              /\ podContainers' \in [PodsOnly -> SUBSET Events]
<1>1. /\ work # Idle /\ work' = Idle /\ work.next > Len(work.events) /\ work \in Jobs
      /\ Yields(work.item, work.events)
  BY DEF Finish, WorkType
<1>2. work.item \in Items /\ work.events \in Seq(Events) /\ work.next \in Nat
  BY <1>1 DEF Jobs
<1>3. work.item.kind # "pod" => podContainers' = podContainers
  BY DEF Finish
<1>4. work.item \in Markers => podContainers' = podContainers
  BY <1>3, MarkerFacts
<1>5. ASSUME work.item \in ObjectItems, work.item.kind = "pod"
      PROVE  /\ podContainers'[UidOf(work.item)] = UpdatePodContainers(work.item, work.events)
             /\ \A o \in PodsOnly \ {UidOf(work.item)} : podContainers'[o] = podContainers[o]
             /\ podContainers' \in [PodsOnly -> SUBSET Events]
  <2>1. podContainers' = [podContainers EXCEPT ![UidOf(work.item)] = UpdatePodContainers(work.item, work.events)]
    BY <1>5 DEF Finish, UidOf
  <2>2. UidOf(work.item) \in PodsOnly
    BY <1>5, ItemFacts
  <2>3. UpdatePodContainers(work.item, work.events) \subseteq Events
    BY <1>1, <1>2, <1>5, KeptAfter
  <2> QED BY <2>1, <2>2, <2>3 DEF ContainersType
<1> QED BY <1>1, <1>2, <1>3, <1>4, <1>5

\* What is kept of a pod are upserts of its containers.
LEMMA ContainersKept ==
  ASSUME CollectorType, Next
  PROVE  ContainersType'
<1>0. WorkType /\ ContainersType
  BY DEF CollectorType
<1>1. CASE podContainers' = podContainers
  BY <1>0, <1>1 DEF ContainersType
<1>2. CASE Finish /\ work.item \in ObjectItems /\ work.item.kind = "pod"
  <2> DEFINE u == UidOf(work.item)
             kept == UpdatePodContainers(work.item, work.events)
  <2>1. /\ podContainers'[u] = kept
        /\ \A o \in PodsOnly \ {u} : podContainers'[o] = podContainers[o]
        /\ podContainers' \in [PodsOnly -> SUBSET Events]
        /\ work.events \in Seq(Events) /\ Yields(work.item, work.events)
    BY <1>0, <1>2, Finished
  <2>2. Value(work.item).containers \subseteq Containers
    BY <1>2, ItemFacts
  <2>3. \A e \in kept : e.operation = "upsert" /\ \E c \in Value(work.item).containers : e.key = ContainerKey(u, c)
    BY <1>2, <2>1, KeptAfter
  <2> HIDE DEF u, kept
  <2>4. \A e \in kept : e.operation = "upsert" /\ \E c \in Containers : e.key = ContainerKey(u, c)
    BY <2>2, <2>3
  <2> QED BY SMTT(60), <1>0, <2>1, <2>3, <2>4 DEF ContainersType
<1>3. CASE Finish /\ ~(work.item \in ObjectItems /\ work.item.kind = "pod")
  BY <1>0, <1>1, <1>3, Finished DEF Items
<1> QED BY <1>1, <1>2, <1>3, WorkerOnly

\* The queue is shut down only after cancellation, which nothing takes back.
LEMMA FlagsKept ==
  ASSUME CollectorType, Next
  PROVE  FlagsType' /\ (cancelled => cancelled')
<1>0. FlagsType
  BY DEF CollectorType
<1>1. ASSUME UNCHANGED <<cancelled, shut>> PROVE FlagsType' /\ (cancelled => cancelled')
  BY <1>0, <1>1 DEF FlagsType
<1>2. CASE StartFails \/ Cancel \/ ShutDown
  BY <1>0, <1>2 DEF StartFails, Cancel, ShutDown, FlagsType
<1>3. CASE \E o \in Objects : ApiCreate(o) \/ ApiUpdate(o) \/ ApiDelete(o) \/ Observe(o)
  BY <1>1, <1>3 DEF ApiCreate, ApiUpdate, ApiDelete, Observe, startVars
<1>4. CASE (\E k \in Kinds : Handler(k)) \/ Resync \/ StartRuns
           \/ (\E item \in delayed : Retry(item)) \/ Acknowledge
  BY <1>1, <1>4 DEF Handler, Resync, StartRuns, Retry, Acknowledge, startVars
<1>5. CASE ProcessNext \/ SkipDelta \/ PublishDelta \/ PublishFails \/ Finish
  BY <1>1, <1>5 DEF ProcessNext, SkipDelta, PublishDelta, PublishFails, Finish, startVars
<1> QED BY <1>2, <1>3, <1>4, <1>5 DEF Next
-----------------------------------------------------------------------------
(* The theorems. *)

\* What holds of every state of the collector, cancelled or not.
CollectorInv == CollectorType /\ StoreBehind /\ CacheIsLatest

\* Init establishes it: nothing is stored, published or cached.
LEMMA CollectorStarts ==
  ASSUME Init
  PROVE  CollectorInv
<1>1. PlacesType /\ StoreBehind
  <2>1. \A o \in Objects : ListedStates(o) \subseteq LiveStates
    BY SMTT(60), CollectorAssumption DEF ListedStates, NewStates, ObjectStates, LiveStates
  <2>2. api \in [Objects -> States] /\ store = [o \in Objects |-> Absent]
    BY <2>1 DEF Init, States
  <2>3. Absent \in States /\ Absent.state # "gone" /\ Absent.revision = 0
    BY DEF States, Absent
  <2>4. PlacesType /\ \A o \in Objects : store[o] = Absent
    BY <2>2, <2>3 DEF PlacesType
  <2>5. ASSUME NEW o \in Objects
        PROVE  0 <= api[o].revision /\ (api[o].state # "gone" /\ api[o].revision = 0 => api[o] = Absent)
    <3>1. api[o] \in States
      BY <2>2
    <3>2. api[o] \in LiveStates \/ api[o] = Absent \/ api[o] = Gone
      BY <3>1 DEF States
    <3> QED BY SMTT(60), <3>1, <3>2, StateFacts DEF LiveStates
  <2>6. StoreBehind
    BY <2>3, <2>4, <2>5 DEF StoreBehind
  <2> QED BY <2>4, <2>6
<1>2. LinesType
  <2>1. feed = [k \in Kinds |-> <<>>] /\ queue = <<Marker("snapshot", Snapshot("started"))>> /\ delayed = {}
    BY DEF Init
  <2>2. Marker("snapshot", Snapshot("started")) \in Items
    BY DEF Items, Markers
  <2> DEFINE m == Marker("snapshot", Snapshot("started"))
  <2> HIDE DEF m
  <2>3. queue \in Seq(Items)
    <3>1. m \in Items /\ queue = <<m>>
      BY <2>1, <2>2 DEF m
    <3> QED BY SMTT(60), <3>1
  <2>4. \A k \in Kinds : feed[k] = <<>> /\ <<>> \in Seq(ObjectItems) /\ DOMAIN <<>> = {}
    BY SMTT(60), <2>1
  <2>5. feed \in [Kinds -> Seq(ObjectItems)]
    BY <2>1, <2>4
  <2> QED BY <2>1, <2>3, <2>4, <2>5 DEF LinesType
<1>3. WorkType
  BY DEF Init, WorkType
<1>4. CacheType /\ CacheIsLatest
  <2>1. None.operation = "none"
    BY DEF None
  <2> QED BY <2>1 DEF Init, CacheType, CacheIsLatest
<1>5. ContainersType
  BY DEF Init, ContainersType
<1>6. FlagsType
  BY DEF Init, FlagsType
<1> QED BY <1>1, <1>2, <1>3, <1>4, <1>5, <1>6 DEF CollectorInv, CollectorType

\* Every step keeps it.
LEMMA CollectorStep ==
  ASSUME CollectorInv, [Next]_collectorVars
  PROVE  CollectorInv'
<1>1. CASE Next
  <2>1. LinesType'
    BY <1>1, LinesKept DEF CollectorInv
  <2>2. PlacesType' /\ StoreBehind'
    BY <1>1, PlacesKept DEF CollectorInv
  <2>3. WorkType' /\ ContainersType' /\ FlagsType'
    BY <1>1, WorkKept, ContainersKept, FlagsKept DEF CollectorInv
  <2>4. CacheType' /\ CacheIsLatest'
    BY <1>1, CacheKept DEF CollectorInv
  <2> QED BY <2>1, <2>2, <2>3, <2>4 DEF CollectorInv, CollectorType
<1>2. CASE UNCHANGED collectorVars
  <2>1. /\ UNCHANGED <<api, store, feed, queue, delayed, work>>
        /\ UNCHANGED <<cache, latest, podContainers, redundant, cancelled, shut>>
    BY <1>2 DEF collectorVars
  <2>2. PlacesType' /\ LinesType' /\ WorkType'
    BY <2>1 DEF CollectorInv, CollectorType, PlacesType, LinesType, WorkType
  <2>3. CacheType' /\ ContainersType' /\ FlagsType'
    BY <2>1 DEF CollectorInv, CollectorType, CacheType, ContainersType, FlagsType
  <2>4. StoreBehind' /\ CacheIsLatest'
    BY <2>1 DEF CollectorInv, StoreBehind, CacheIsLatest
  <2> QED BY <2>2, <2>3, <2>4 DEF CollectorInv, CollectorType
<1> QED BY <1>1, <1>2

\* Feeds, queue and worker hold changes of their kinds and the events those
\* changes yield, and the cache holds what was last published under each key,
\* in every state the collector reaches, a cancelled one included.
THEOREM CollectorKeepsItsInvariant == Spec => []CollectorInv
<1>1. Init => CollectorInv
  BY CollectorStarts
<1>2. CollectorInv /\ [Next]_collectorVars => CollectorInv'
  BY CollectorStep
<1> QED BY <1>1, <1>2, PTL DEF Spec

\* publishDelta never publishes an upsert equal to the last one under its key,
\* nor the delete of a key that is not published.
THEOREM DeltasSaySomethingNew == Spec => []NoRedundantDelta
<1>1. CollectorInv => NoRedundantDelta
  BY DEF CollectorInv, CacheIsLatest, NoRedundantDelta
<1> QED BY <1>1, CollectorKeepsItsInvariant, PTL
=============================================================================
