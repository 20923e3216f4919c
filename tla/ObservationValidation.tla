----------------------- MODULE ObservationValidation -----------------------
(***************************************************************************)
(* What the ingestion server lets through and what the persistence worker  *)
(* can map.  validateHello, validateBatch and suffixAfter run in the       *)
(* stream handler (services/ingestion/server/server.go); mapObservation    *)
(* runs later, in the worker (services/ingestion/persistence/              *)
(* repository.go), where an ErrInvalidInventory ends Worker.Run and with   *)
(* it the process.  Strings are abstracted to "is not empty".              *)
(***************************************************************************)
EXTENDS Integers, Sequences

CONSTANTS Hellos,      \* AgentHello frames that may arrive
          Batches,     \* ObservationBatch frames that may arrive
          Watermarks,  \* values of persistedThrough
          MaxRecords   \* Config.MaxBatchRecords

\* The payloads that have an inventory table, each with its own mapper.
Tables == {"cluster", "node", "namespace", "deployment", "pod", "container"}

\* "metric" stands for every other payload, "none" for a missing one.
Payloads == Tables \cup {"metric", "none"}

Observation == [payload : Payloads,
                operation : {"unspecified", "upsert", "delete"},
                uid : BOOLEAN,       \* metadata UID; for a container the pod's
                name : BOOLEAN,      \* the container's name
                eventId : BOOLEAN,
                sequence : Nat]

Batch == [id : BOOLEAN, first : Nat, last : Nat,
          fits : BOOLEAN,            \* proto.Size is within MaxBatchBytes
          checksum : BOOLEAN,        \* payload_checksum matches
          observations : Seq(Observation)]

Hello == [tenant : BOOLEAN, cluster : BOOLEAN, instance : BOOLEAN]

ASSUME ValidationAssumption == /\ Hellos \subseteq Hello
                               /\ Batches \subseteq Batch
                               /\ Watermarks \subseteq Nat
                               /\ MaxRecords \in Nat \ {0}
-----------------------------------------------------------------------------
ValidHello(h) == h.tenant /\ h.cluster /\ h.instance

ValidOperation(o) == o.operation \in {"upsert", "delete"}

\* Fault variant: container names are not checked.
ValidContainerUid(o) ==
  o.payload \in Tables => /\ ValidOperation(o)
                          /\ o.payload # "cluster" => o.uid

\* validateInventoryObservation.
ValidInventory(o) ==
  o.payload \in Tables => /\ ValidOperation(o)
                          /\ o.payload # "cluster" => o.uid
                          /\ o.payload = "container" => o.name

\* validateBatch.
ValidBatch(b) ==
  /\ b.id
  /\ Len(b.observations) \in 1 .. MaxRecords
  /\ b.fits
  /\ b.first # 0
  /\ b.last >= b.first
  /\ Len(b.observations) = b.last - b.first + 1
  /\ \A i \in 1 .. Len(b.observations) :
       LET o == b.observations[i]
       IN  /\ o.sequence = b.first + i - 1
           /\ o.eventId
           /\ o.payload # "none"
           /\ ValidInventory(o)
  /\ b.checksum

\* Fault variant: the slice is cut one observation too late.
SuffixAfterOffByOne(b, p) ==
  IF b.first > p
    THEN b
    ELSE [b EXCEPT !.first = p + 1,
                   !.observations = SubSeq(b.observations, p + 3 - b.first,
                                           Len(b.observations))]

\* suffixAfter: the observations beyond the watermark p.
SuffixAfter(b, p) ==
  IF b.first > p
    THEN b
    ELSE [b EXCEPT !.first = p + 1,
                   !.observations = SubSeq(b.observations, p + 2 - b.first,
                                           Len(b.observations))]

\* mapCluster .. mapContainer: the table, or ErrInvalidInventory.
MapInventory(o) ==
  IF /\ o.operation \in {"upsert", "delete"}            \* operationName
     /\ o.payload \in Tables \ {"cluster", "container"} => o.uid
     /\ o.payload = "container" => o.uid /\ o.name
    THEN o.payload
    ELSE "invalid"

\* mapObservation: a table, "skip" (ok is false), or ErrInvalidInventory.
MapObservation(h, o) ==
  IF ~(h.tenant /\ h.cluster /\ o.eventId) \/ o.sequence = 0
    THEN "invalid"
    ELSE IF o.payload \in Tables THEN MapInventory(o) ELSE "skip"
-----------------------------------------------------------------------------
VARIABLES hello,   \* the session's AgentHello
          batch,   \* the batch in handleBatch; its suffix once it is accepted
          through, \* persistedThrough
          stage    \* how far the batch has come

vars == <<hello, batch, through, stage>>

Init == /\ hello \in Hellos
        /\ batch \in Batches
        /\ through \in Watermarks
        /\ stage = "connecting"

\* Connect checks the AgentHello before any batch.
Connect == /\ stage = "connecting"
           /\ stage' = IF ValidHello(hello) THEN "received" ELSE "refused"
           /\ UNCHANGED <<hello, batch, through>>

Reject == /\ stage = "received"
          /\ ~ValidBatch(batch)
          /\ stage' = "rejected"
          /\ UNCHANGED <<hello, batch, through>>

\* A valid batch that is a duplicate, or lies beyond a gap, is not queued.
Answer == /\ stage = "received"
          /\ ValidBatch(batch)
          /\ batch.last <= through \/ batch.first > through + 1
          /\ stage' = "answered"
          /\ UNCHANGED <<hello, batch, through>>

Accept == /\ stage = "received"
          /\ ValidBatch(batch)
          /\ batch.last > through
          /\ batch.first <= through + 1
          /\ batch' = SuffixAfter(batch, through)
          /\ stage' = "queued"
          /\ UNCHANGED <<hello, through>>

Invalid(i) == MapObservation(hello, batch.observations[i]) = "invalid"

\* Persist maps every observation before the first insert.
Persist == /\ stage = "queued"
           /\ stage' = IF \E i \in 1 .. Len(batch.observations) : Invalid(i)
                         THEN "poison"
                         ELSE "persisted"
           /\ UNCHANGED <<hello, batch, through>>

Next == Connect \/ Reject \/ Answer \/ Accept \/ Persist

Spec == Init /\ [][Next]_vars
-----------------------------------------------------------------------------
\* The types of the frame and of the handler's progress.
TypeOK == /\ hello \in Hello
          /\ batch \in Batch
          /\ through \in Nat
          /\ stage \in {"connecting", "refused", "received", "rejected",
                        "answered", "queued", "poison", "persisted"}

\* What the stream handler accepts, the worker can map: mapObservation reports
\* ErrInvalidInventory, which ends the process, for no batch that has passed
\* validateHello and validateBatch.
AcceptedIsMappable == stage # "poison"

\* The suffix that is archived, queued and stored continues the watermark: it
\* holds exactly one observation for each number after it, in order.
SuffixContinuesWatermark ==
  stage \in {"queued", "persisted"} =>
     /\ batch.first = through + 1
     /\ Len(batch.observations) = batch.last - through
     /\ \A i \in 1 .. Len(batch.observations) :
          batch.observations[i].sequence = through + i
=============================================================================
