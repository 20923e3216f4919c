------------------------- MODULE InventoryCollector -------------------------
(***************************************************************************)
(* The agent's inventory collector (agent/inventory): informers that       *)
(* follow the Kubernetes API, their handlers, the work queue, the single   *)
(* worker that turns changes into deltas, and the bounded buffer it        *)
(* publishes into.                                                         *)
(*                                                                         *)
(* An informer first updates its store, which the listers read, and hands  *)
(* the notification to its handler's own goroutine; the handlers of two    *)
(* kinds, the worker and Start run concurrently.  Of an object the model   *)
(* keeps its revision (resource version), the content its observation      *)
(* reports and, for a pod, its containers.                                 *)
(***************************************************************************)
EXTENDS Integers, Sequences, FiniteSets

CONSTANTS Objects,      \* the uids of the API objects
          KindOf,       \* the kind of each object
          NamespaceOf,  \* the namespace object it lives in, or NoUID
          Containers,   \* container names of a pod
          Contents,     \* contents that fingerprints tell apart
          NoUID,        \* the empty string
          MaxChanges,   \* bound: changes of the API after the start
          Capacity      \* capacity of the agent's buffer

Kinds == {"node", "namespace", "deployment", "pod"}

ASSUME CollectorAssumption == /\ KindOf \in [Objects -> Kinds]
                              /\ NamespaceOf \in [Objects -> Objects \cup {NoUID}]
                              /\ NoUID \notin Objects
                              /\ MaxChanges \in Nat /\ Capacity \in Nat \ {0}

VARIABLES api,           \* the cluster: each object's state, or Absent, or Gone
          listed,        \* objects of the initial lists
          changes,       \* changes of the API since the start
          store,         \* what the informers' stores hold
          feed,          \* notifications on their way to the handler of a kind
          phase,         \* how far Start is
          cancelled,     \* the context of Start is done
          shut,          \* the queue is shut down
          queue,         \* changes ready for the worker
          delayed,       \* changes AddRateLimited holds back
          work,          \* the change in the worker's hands, or Idle
          cache,         \* fingerprint committed for each key, or None
          podContainers, \* container events of each pod's last upsert
          room,          \* free places of the buffer
          latest,        \* history: last event published for each key, or None
          redundant      \* history: some published event said nothing new

clusterVars == <<api, listed, changes>>
informerVars == <<store, feed>>
startVars == <<phase, cancelled, shut>>
workerVars == <<work, cache, podContainers, latest, redundant>>
collectorVars == <<api, listed, changes, store, feed, phase, cancelled, shut, queue,
                   delayed, work, cache, podContainers, room, latest, redundant>>

Absent == [state |-> "absent", revision |-> 0, content |-> 0, containers |-> {}]
Gone == [Absent EXCEPT !.state = "gone"]
Live(x) == x.state = "live"
Idle == [events |-> <<>>, next |-> 0]
None == [key |-> <<>>, operation |-> "none", revision |-> 0, body |-> <<>>]

\* The sequences that list the elements of a finite set, each once, in any order.
Orders(S) == {s \in UNION {[1 .. n -> S] : n \in {Cardinality(S)} \cap Nat} :
                \A e \in S : \E i \in DOMAIN s : s[i] = e}

ObjectKey(o) == <<KindOf[o], o>>
ContainerKey(o, c) == <<"container", o, c>>
PodsOnly == {o \in Objects : KindOf[o] = "pod"}
Keys == {ObjectKey(o) : o \in Objects}
          \cup {ContainerKey(o, c) : o \in PodsOnly, c \in Containers}
          \cup {<<"cluster", NoUID>>, <<"snapshot", "started">>,
                <<"snapshot", "completed">>}

ObjectStates(o) ==
  [state : {"live"}, revision : 1 .. MaxChanges + 1, content : Contents,
   containers : IF KindOf[o] = "pod" THEN SUBSET Containers ELSE {{}}]

\* Contents are interchangeable, so a new object may have any one of them.
NewStates(o) == {x \in ObjectStates(o) : /\ x.revision = 1
                                         /\ x.content = CHOOSE c \in Contents : TRUE}

\* Bound: a pod that is there from the start has all its containers.
ListedStates(o) ==
  {x \in NewStates(o) : KindOf[o] = "pod" => x.containers = Containers}
-----------------------------------------------------------------------------
(* The Kubernetes API and the informers of client-go, which stop following it *)
(* when the context is done.                                                *)

MayChange == ~cancelled /\ changes < MaxChanges

\* An object is created in a namespace that exists.
ApiCreate(o) ==
  /\ MayChange /\ api[o] = Absent
  /\ NamespaceOf[o] # NoUID => Live(api[NamespaceOf[o]])
  /\ \E x \in NewStates(o) : api' = [api EXCEPT ![o] = x]
  /\ changes' = changes + 1
  /\ UNCHANGED <<listed, room, queue, delayed>>
  /\ UNCHANGED <<informerVars, startVars, workerVars>>

ApiUpdate(o) ==
  /\ MayChange /\ Live(api[o])
  /\ \E x \in ObjectStates(o) : /\ x.revision = api[o].revision + 1
                                /\ api' = [api EXCEPT ![o] = x]
  /\ changes' = changes + 1
  /\ UNCHANGED <<listed, room, queue, delayed>>
  /\ UNCHANGED <<informerVars, startVars, workerVars>>

\* A namespace goes after the objects in it; a uid never comes back.
ApiDelete(o) ==
  /\ MayChange /\ Live(api[o])
  /\ \A p \in Objects : NamespaceOf[p] = o => ~Live(api[p])
  /\ api' = [api EXCEPT ![o] = Gone]
  /\ changes' = changes + 1
  /\ UNCHANGED <<listed, room, queue, delayed>>
  /\ UNCHANGED <<informerVars, startVars, workerVars>>

Change(kind, operation, object) ==
  [kind |-> kind, operation |-> operation, object |-> object]

\* The reflector brings the store up to date and distributes the
\* notification; the deletion of an object carries its last known state.
Observe(o) ==
  /\ ~cancelled
  /\ store[o] # api[o]
  /\ ~(store[o] = Absent /\ api[o] = Gone)
  /\ store' = [store EXCEPT ![o] = api[o]]
  /\ feed' = [feed EXCEPT ![KindOf[o]] = Append(@,
       IF api[o] = Gone
         THEN Change(KindOf[o], "delete", [uid |-> o, value |-> store[o]])
         ELSE Change(KindOf[o], "upsert", [uid |-> o, value |-> api[o]]))]
  /\ UNCHANGED <<room, queue, delayed>>
  /\ UNCHANGED <<clusterVars, startVars, workerVars>>

Quiet == /\ \A k \in Kinds : feed[k] = <<>>
         /\ queue = <<>> /\ delayed = {} /\ work = Idle

\* A resync notifies an update of every object the informers hold.
ResyncChanges == {Change(KindOf[o], "upsert", [uid |-> o, value |-> store[o]]) :
                    o \in {p \in Objects : Live(store[p])}}

ResyncsOf(k) == {c \in ResyncChanges : c.kind = k}

\* The informers come from one factory and have one resync interval, after which
\* their handlers get the notifications in any order.  Bound: the interval is
\* long, so the resync finds the collector quiet.
Resync ==
  /\ phase = "running" /\ ~cancelled /\ Quiet
  /\ ResyncChanges # {}
  /\ feed' \in [Kinds -> UNION {Orders(ResyncsOf(k)) : k \in Kinds}]
  /\ \A k \in Kinds : feed'[k] \in Orders(ResyncsOf(k))
  /\ UNCHANGED <<store, room, queue, delayed>>
  /\ UNCHANGED <<clusterVars, startVars, workerVars>>

\* queue.Add, which a queue that is shut down ignores.
Add(q, items) == IF shut THEN q ELSE q \o items

\* The handler of kind k, run by the goroutine of its listener.
Handler(k) ==
  /\ feed[k] # <<>>
  /\ queue' = Add(queue, <<Head(feed[k])>>)
  /\ feed' = [feed EXCEPT ![k] = Tail(@)]
  /\ UNCHANGED <<store, room, delayed>>
  /\ UNCHANGED <<clusterVars, startVars, workerVars>>
-----------------------------------------------------------------------------
(* Builders: the observation of an object, under the key of its delta. *)

Event(key, operation, revision, body) ==
  [key |-> key, operation |-> operation, revision |-> revision, body |-> body]

\* Snapshot and Cluster, whose events are built before they are queued.
Snapshot(marker) == Event(<<"snapshot", marker>>, "upsert", 0, <<marker>>)
Cluster == Event(<<"cluster", NoUID>>, "upsert", 0, <<"cluster">>)
Marker(kind, event) == Change(kind, "upsert", event)

\* The lister knows the namespace, or its uid is left empty.
NamespaceUID(o) ==
  IF NamespaceOf[o] # NoUID /\ Live(store[NamespaceOf[o]]) THEN NamespaceOf[o]
                                                         ELSE NoUID

\* Node, Namespace, Deployment and Pod.
ObjectEvent(item) ==
  LET o == item.object.uid IN
  Event(ObjectKey(o), item.operation, item.object.value.revision,
        <<item.object.value.content, NamespaceUID(o)>>)

ContainerEvents(item) ==
  LET o == item.object.uid
  IN  {Event(ContainerKey(o, c), item.operation, item.object.value.revision,
             <<item.object.value.content, NamespaceUID(o)>>) :
         c \in item.object.value.containers}

AsDelete(event) == [event EXCEPT !.operation = "delete"]

\* Containers of the pod's last upsert that this one no longer has.
RemovedContainers(item) ==
  {AsDelete(e) : e \in {f \in podContainers[item.object.uid] :
                          \A g \in ContainerEvents(item) : g.key # f.key}}

\* Fault variant: containers that went away are not deleted.
EventsOfPresent(item) ==
  IF item.kind \in {"cluster", "snapshot"} THEN {<<item.object>>}
  ELSE {<<ObjectEvent(item)>> \o s :
          s \in IF item.kind = "pod" THEN Orders(ContainerEvents(item))
                                     ELSE {<<>>}}

\* The sequences of events a change may yield (map order is arbitrary).
EventsOf(item) ==
  CASE item.kind \in {"cluster", "snapshot"} -> {<<item.object>>}
    [] item.kind = "pod" ->
         {<<ObjectEvent(item)>> \o s \o r :
            s \in Orders(ContainerEvents(item)),
            r \in Orders(IF item.operation = "upsert"
                              THEN RemovedContainers(item) ELSE {})}
    [] OTHER -> {<<ObjectEvent(item)>>}
-----------------------------------------------------------------------------
(* Start, after it has queued the STARTED marker and started the informers. *)

HasSynced == \A o \in listed : Live(api[o]) => Live(store[o])

StartRuns ==
  /\ phase = "syncing" /\ ~cancelled /\ HasSynced
  /\ queue' = Add(queue, <<Marker("cluster", Cluster),
                           Marker("snapshot", Snapshot("completed"))>>)
  /\ phase' = "running"
  /\ UNCHANGED <<cancelled, shut, delayed, room>>
  /\ UNCHANGED <<clusterVars, informerVars, workerVars>>

\* No sync before cancellation, no server version or no kube-system: the
\* error of Start ends the agent.
StartFails ==
  /\ phase = "syncing" /\ (cancelled \/ HasSynced)
  /\ phase' = "failed"
  /\ cancelled' = TRUE
  /\ UNCHANGED <<shut, queue, delayed, room>>
  /\ UNCHANGED <<clusterVars, informerVars, workerVars>>

\* Bound: cancellation counts as two changes of the API.
Cancel ==
  /\ ~cancelled /\ changes + 2 <= MaxChanges
  /\ changes' = changes + 2
  /\ cancelled' = TRUE
  /\ UNCHANGED <<api, listed, phase, shut, queue, delayed, room>>
  /\ UNCHANGED <<informerVars, workerVars>>

ShutDown ==
  /\ phase = "running" /\ cancelled /\ ~shut
  /\ shut' = TRUE
  /\ UNCHANGED <<phase, cancelled, queue, delayed, room>>
  /\ UNCHANGED <<clusterVars, informerVars, workerVars>>
-----------------------------------------------------------------------------
(* The worker: processNext, process, publishDelta. *)

ProcessNext ==
  /\ phase = "running" /\ work = Idle /\ queue # <<>>
  /\ \E events \in EventsOf(Head(queue)) :
       work' = [item |-> Head(queue), events |-> events, next |-> 1]
  /\ queue' = Tail(queue)
  /\ UNCHANGED <<cache, podContainers, latest, redundant, delayed, room>>
  /\ UNCHANGED <<clusterVars, informerVars, startVars>>

Working == work # Idle /\ work.next <= Len(work.events)
Current == work.events[work.next]
Deletes(event) == work.item.operation = "delete" \/ event.operation = "delete"
Exists(key) == cache[key] # <<>>

\* Fingerprint: the observation without sequence, event id, times and revision.
Fingerprint(event) == event.body

\* Commit and Delete of the cache.
Committed(event) ==
  [cache EXCEPT ![event.key] = IF Deletes(event) THEN <<>> ELSE Fingerprint(event)]

\* Fault variant: the fingerprint leaves the namespace uid out.
ChangedContent(event) == ~Exists(event.key) \/ cache[event.key][1] # event.body[1]

\* Changed, with Fingerprint of all but the times, the ids and the revision.
Changed(event) == cache[event.key] # Fingerprint(event)

NothingToSay(event) ==
  IF Deletes(event) THEN ~Exists(event.key) ELSE ~Changed(event)

SkipDelta ==
  /\ Working /\ NothingToSay(Current)
  /\ work' = [work EXCEPT !.next = @ + 1]
  /\ UNCHANGED <<cache, podContainers, latest, redundant, queue, delayed, room>>
  /\ UNCHANGED <<clusterVars, informerVars, startVars>>

SaysNothingNew(event) ==
  IF event.operation = "delete"
    THEN latest[event.key].operation # "upsert"
    ELSE /\ latest[event.key].operation = "upsert"
         /\ latest[event.key].body = event.body

\* publishDelta of an event that says something new: it is published when the
\* buffer has room, and then cached.
PublishDelta ==
  /\ Working /\ ~NothingToSay(Current)
  /\ room > 0
  /\ room' = room - 1
  /\ cache' = Committed(Current)
  /\ work' = [work EXCEPT !.next = @ + 1]
  /\ latest' = [latest EXCEPT ![Current.key] = Current]
  /\ redundant' = (redundant \/ SaysNothingNew(Current))
  /\ UNCHANGED <<podContainers, queue, delayed>>
  /\ UNCHANGED <<clusterVars, informerVars, startVars>>

\* Fault variant: Publish returns an error instead of waiting for room.
PublishGivesUp == room = 0

\* Publish waits for room and returns an error only when the context is done.
PublishErrs == room = 0 /\ cancelled

PublishFails ==
  /\ Working /\ ~NothingToSay(Current) /\ PublishErrs
  /\ delayed' = (IF shut THEN delayed ELSE delayed \cup {work.item})
  /\ work' = Idle
  /\ UNCHANGED <<cache, podContainers, latest, redundant, queue, room>>
  /\ UNCHANGED <<clusterVars, informerVars, startVars>>

\* The rate limiter's delay ends.
Retry(item) ==
  /\ item \in delayed
  /\ delayed' = delayed \ {item}
  /\ queue' = Add(queue, <<item>>)
  /\ UNCHANGED room
  /\ UNCHANGED <<clusterVars, informerVars, startVars, workerVars>>

\* updatePodContainers: the containers of this upsert, none after a delete.
UpdatePodContainers(item, events) ==
  IF item.operation = "delete" THEN {}
  ELSE {events[i] : i \in {j \in 2 .. Len(events) : events[j].operation # "delete"}}

\* Everything is published: updatePodContainers and Forget.
Finish ==
  /\ work # Idle /\ work.next > Len(work.events)
  /\ podContainers' =
       IF work.item.kind # "pod" THEN podContainers
       ELSE [podContainers EXCEPT ![work.item.object.uid] =
               UpdatePodContainers(work.item, work.events)]
  /\ work' = Idle
  /\ UNCHANGED <<cache, latest, redundant, queue, delayed, room>>
  /\ UNCHANGED <<clusterVars, informerVars, startVars>>

\* External: the stream client acknowledges an entry of the buffer.
Acknowledge ==
  /\ room < Capacity
  /\ room' = room + 1
  /\ UNCHANGED <<queue, delayed>>
  /\ UNCHANGED <<clusterVars, informerVars, startVars, workerVars>>
-----------------------------------------------------------------------------
\* Start has registered the handlers, queued STARTED and started the informers
\* on a cluster in which the objects of "listed" exist.
Init ==
  /\ api \in [Objects -> {Absent} \cup UNION {ListedStates(o) : o \in Objects}]
  /\ \A o \in Objects : /\ api[o] \in ListedStates(o) \cup {Absent}
                        /\ Live(api[o]) /\ NamespaceOf[o] # NoUID
                             => Live(api[NamespaceOf[o]])
  /\ listed = {o \in Objects : Live(api[o])}
  /\ changes = 0
  /\ store = [o \in Objects |-> Absent]
  /\ feed = [k \in Kinds |-> <<>>]
  /\ phase = "syncing" /\ cancelled = FALSE /\ shut = FALSE
  /\ queue = <<Marker("snapshot", Snapshot("started"))>>
  /\ delayed = {}
  /\ work = Idle
  /\ cache = [k \in Keys |-> <<>>]
  /\ podContainers = [o \in PodsOnly |-> {}]
  /\ room = Capacity
  /\ latest = [k \in Keys |-> None]
  /\ redundant = FALSE

Next ==
  \/ \E o \in Objects : ApiCreate(o) \/ ApiUpdate(o) \/ ApiDelete(o) \/ Observe(o)
  \/ \E k \in Kinds : Handler(k)
  \/ Resync \/ StartRuns \/ StartFails \/ Cancel \/ ShutDown
  \/ ProcessNext \/ SkipDelta \/ PublishDelta \/ PublishFails \/ Finish
  \/ \E item \in delayed : Retry(item)
  \/ Acknowledge

Spec == Init /\ [][Next]_collectorVars

\* Watches, handler goroutines, the resync timers and the worker keep running,
\* Start goes on once the caches have synced, and the buffer drains (Delivery).
FairSpec ==
  /\ Spec
  /\ WF_collectorVars(StartRuns) /\ WF_collectorVars(Acknowledge) /\ WF_collectorVars(Resync)
  /\ WF_collectorVars(ProcessNext \/ SkipDelta \/ PublishDelta \/ Finish)
  /\ \A o \in Objects : WF_collectorVars(Observe(o))
  /\ \A k \in Kinds : WF_collectorVars(Handler(k))
-----------------------------------------------------------------------------
\* publishDelta publishes deltas only: never an upsert equal to the last one
\* published under its key, never a delete of a key that is not published.
NoRedundantDelta == ~redundant

Rank(event) == 2 * event.revision + (IF event.operation = "delete" THEN 1 ELSE 0)

\* One worker and a Publish that waits keep the order of the API: while the
\* agent runs, what is published under a key is never followed by an older
\* revision of the same object, whatever the buffer does meanwhile.
NeverOlder ==
  [][cancelled \/ \A k \in Keys : latest[k] # latest'[k]
                                   => Rank(latest[k]) <= Rank(latest'[k])]_collectorVars

LiveKeys == {ObjectKey(o) : o \in {p \in Objects : Live(store[p])}}
              \cup UNION {{ContainerKey(o, c) : c \in store[o].containers} :
                            o \in PodsOnly}

\* When the collector has caught up, the keys it believes published are those
\* of the objects and containers the informers hold: deleted objects, and
\* containers gone from a live pod or with their pod, have had their tombstone.
QuietCacheIsInventory ==
  phase = "running" /\ ~cancelled /\ Quiet =>
    {k \in Keys : Exists(k) /\ Len(k) > 1 /\ k[1] \notin {"cluster", "snapshot"}} = LiveKeys

\* The collector's cache tells the truth: it never lets a delta pass that repeats
\* the one before it, and once the collector has caught up it holds the keys of
\* what is there.
CacheIsTruthful == NoRedundantDelta /\ QuietCacheIsInventory

\* The ingestion side knows of every live object its current content and the
\* uid of its namespace, and of no other object that it is there.
Accurate ==
  \A o \in Objects :
    LET e == latest[ObjectKey(o)] IN
    IF Live(api[o]) THEN /\ e.operation = "upsert"
                         /\ e.body = <<api[o].content, NamespaceOf[o]>>
                    ELSE e.operation # "upsert"

\* Once the cluster stops changing, handlers, worker and resync make what is
\* published accurate for good, unless the agent stops first.  A pod processed
\* before its namespace was listed owes its namespace uid to the resync.
EventuallyAccurate == <>[](cancelled \/ Accurate)
=============================================================================
