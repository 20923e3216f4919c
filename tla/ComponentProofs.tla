-------------------------- MODULE ComponentProofs ---------------------------
(*****************************************************************************)
(* Proofs about components of which each stands for itself: the validation   *)
(* of what a stream receives (frames and batches of any length, at any       *)
(* watermark), the metrics sampler (any interval, however long a sample      *)
(* takes), the shutdown of a service (any number of calls), the workflow of  *)
(* recommendations (any targets, windows, commands and runs of the job), the *)
(* tables of imported prices and charges, and the identity of a certificate. *)
(*****************************************************************************)
EXTENDS ObservationValidation, MetricsSampler, ServiceLifecycle, Workflow, Pricing,
        IngestionAuth, WellFoundedInduction, TLAPS

\* The provers, in this order, and the seconds each may spend on a step; each
\* has a second, longer try.
USE ZenonT(30), SMTT(30), ZenonT(60), SMTT(60)
-----------------------------------------------------------------------------
(* ObservationValidation. *)

\* What validateBatch has established of the observation numbered n.
Checked(o, n) == o.sequence = n /\ o.eventId /\ ValidInventory(o)

\* The inductive invariant: what Connect and Accept have established.
ValidationInv ==
  /\ stage \notin {"connecting", "refused"} => ValidHello(hello)
  /\ stage \in {"queued", "persisted"} =>
       /\ batch.first = through + 1
       /\ Len(batch.observations) = batch.last - through
       /\ \A i \in 1 .. Len(batch.observations) :
            Checked(batch.observations[i], through + i)
  /\ stage # "poison"

\* Every check of mapObservation is implied by one of validateBatch.
LEMMA QueuedIsMappable ==
  ASSUME NEW h \in Hello, NEW o \in Observation, ValidHello(h), o.eventId,
         o.sequence # 0, ValidInventory(o)
  PROVE  MapObservation(h, o) # "invalid"
BY DEF MapObservation, MapInventory, ValidHello, ValidInventory, ValidOperation,
       Hello, Observation, Tables, Payloads

\* Slicing a sequence at an offset, as suffixAfter does.
LEMMA DropFirst ==
  ASSUME NEW S, NEW s \in Seq(S), NEW k \in 0 .. Len(s)
  PROVE  /\ SubSeq(s, k + 1, Len(s)) \in Seq(S)
         /\ Len(SubSeq(s, k + 1, Len(s))) = Len(s) - k
         /\ \A i \in 1 .. Len(s) - k : SubSeq(s, k + 1, Len(s))[i] = s[k + i]
OBVIOUS

\* What validateBatch has checked.
LEMMA ValidBatchFacts ==
  ASSUME NEW b \in Batch, ValidBatch(b)
  PROVE  /\ b.first \in Nat \ {0} /\ b.last \in Nat
         /\ b.observations \in Seq(Observation)
         /\ Len(b.observations) = b.last - b.first + 1
         /\ \A i \in 1 .. Len(b.observations) : Checked(b.observations[i], b.first + i - 1)
<1>1. b.first \in Nat /\ b.last \in Nat /\ b.observations \in Seq(Observation)
  BY DEF Batch
<1>2. b.first # 0 /\ Len(b.observations) = b.last - b.first + 1
  BY DEF ValidBatch
<1>3. \A i \in 1 .. Len(b.observations) : Checked(b.observations[i], b.first + i - 1)
  BY DEF ValidBatch, Checked
<1> QED BY <1>1, <1>2, <1>3

\* suffixAfter changes two fields of the batch.
LEMMA BatchRecord ==
  ASSUME NEW id \in BOOLEAN, NEW first \in Nat, NEW last \in Nat, NEW fits \in BOOLEAN,
         NEW sum \in BOOLEAN, NEW s \in Seq(Observation)
  PROVE  [id |-> id, first |-> first, last |-> last, fits |-> fits, checksum |-> sum,
          observations |-> s] \in Batch
BY DEF Batch

\* suffixAfter drops exactly the numbers the watermark covers.
LEMMA SuffixCorrect ==
  ASSUME NEW b \in Batch, NEW p \in Nat, ValidBatch(b), b.last > p, b.first <= p + 1,
         NEW q, q = SuffixAfter(b, p)
  PROVE  /\ q \in Batch
         /\ q.first = p + 1
         /\ Len(q.observations) = q.last - p
         /\ \A i \in 1 .. Len(q.observations) : Checked(q.observations[i], p + i)
<1>1. PICK first \in Nat \ {0}, last \in Nat, s \in Seq(Observation) :
        /\ first = b.first /\ last = b.last /\ s = b.observations
        /\ Len(s) = last - first + 1
        /\ \A i \in 1 .. Len(s) : Checked(s[i], first + i - 1)
  BY ValidBatchFacts
<1>2. CASE first > p
  <2>1. first = p + 1 /\ q = b
    BY <1>1, <1>2 DEF SuffixAfter
  <2>2. \A i \in 1 .. Len(s) : Checked(s[i], p + i)
    <3> SUFFICES ASSUME NEW i \in 1 .. Len(s) PROVE Checked(s[i], p + i)
      OBVIOUS
    <3>1. first + i - 1 = p + i
      BY <2>1
    <3>2. Checked(s[i], first + i - 1)
      BY <1>1
    <3> QED BY <3>1, <3>2
  <2>3. Len(s) = last - p
    BY <1>1, <2>1
  <2> QED BY <1>1, <2>1, <2>2, <2>3
<1>3. CASE first <= p
  <2>1. PICK k \in Int : k = p + 1 - first
    OBVIOUS
  <2>2. k \in 0 .. Len(s) /\ p + 2 - first = k + 1 /\ Len(s) - k = last - p
    <3>1. last > p /\ Len(s) = last - first + 1
      BY <1>1
    <3> QED BY <1>3, <2>1, <3>1
  <2>3. PICK t : t = SubSeq(s, k + 1, Len(s))
    OBVIOUS
  <2>4. /\ t \in Seq(Observation)
        /\ Len(t) = Len(s) - k
        /\ \A i \in 1 .. Len(s) - k : t[i] = s[k + i]
    BY <2>2, <2>3, DropFirst
  <2>5. q = [b EXCEPT !.first = p + 1, !.observations = t]
    <3>1. first = b.first /\ s = b.observations
      BY <1>1
    <3>2. ~(b.first > p)
      BY <1>3, <3>1
    <3>3. SubSeq(b.observations, p + 2 - b.first, Len(b.observations)) = t
      BY <2>2, <2>3, <3>1
    <3> QED BY <3>2, <3>3 DEF SuffixAfter
  <2>6. q \in Batch /\ q.first = p + 1 /\ q.last = last /\ q.observations = t
    <3>1. last = b.last
      BY <1>1
    <3>2. q \in Batch
      <4>1. b.id \in BOOLEAN /\ b.fits \in BOOLEAN /\ b.checksum \in BOOLEAN /\ b.last \in Nat
        BY DEF Batch
      <4>2. q = [id |-> b.id, first |-> p + 1, last |-> b.last, fits |-> b.fits,
                 checksum |-> b.checksum, observations |-> t]
        BY <2>5 DEF Batch
      <4>3. p + 1 \in Nat
        OBVIOUS
      <4> QED BY SMTT(60), <2>4, <4>1, <4>2, <4>3, BatchRecord
    <3>3. q.first = p + 1
      BY <2>5 DEF Batch
    <3>4. q.last = last
      BY <2>5, <3>1 DEF Batch
    <3>5. q.observations = t
      BY <2>5 DEF Batch
    <3> QED BY <3>2, <3>3, <3>4, <3>5
  <2>7. ASSUME NEW i \in 1 .. Len(t) PROVE Checked(t[i], p + i)
    <3>1. k + i \in 1 .. Len(s) /\ first + (k + i) - 1 = p + i
      BY SMTT(60), <2>1, <2>2, <2>4
    <3>2. t[i] = s[k + i]
      BY <2>4
    <3>3. Checked(s[k + i], first + (k + i) - 1)
      BY <1>1, <3>1
    <3> QED BY <3>1, <3>2, <3>3
  <2>8. Len(t) = last - p
    BY <2>2, <2>4
  <2> QED BY <2>6, <2>7, <2>8
<1> QED BY <1>1, <1>2, <1>3

\* Every step of the handler and the worker preserves the invariant.
LEMMA ValidationStep ==
  ASSUME TypeOK, ValidationInv, [Next]_vars
  PROVE  TypeOK' /\ ValidationInv'
<1> USE DEF TypeOK, ValidationInv
<1>1. CASE Connect
  BY <1>1 DEF Connect
<1>2. CASE Reject \/ Answer
  BY <1>2 DEF Reject, Answer
<1>3. CASE Accept
  <2>1. /\ ValidBatch(batch) /\ batch.last > through /\ batch.first <= through + 1
        /\ batch' = SuffixAfter(batch, through) /\ stage' = "queued"
        /\ UNCHANGED <<hello, through>> /\ stage = "received"
    BY <1>3 DEF Accept
  <2>2. /\ batch' \in Batch
        /\ batch'.first = through + 1
        /\ Len(batch'.observations) = batch'.last - through
        /\ \A i \in 1 .. Len(batch'.observations) :
              Checked(batch'.observations[i], through + i)
    BY <2>1, SuffixCorrect
  <2> QED BY <2>1, <2>2
<1>4. CASE Persist
  <2>1. ASSUME NEW i \in 1 .. Len(batch.observations) PROVE ~Invalid(i)
    <3>1. batch.observations[i] \in Observation
      BY SMTT(60) DEF Batch
    <3>2. ValidHello(hello) /\ Checked(batch.observations[i], through + i)
      BY <1>4 DEF Persist
    <3>3. through + i # 0
      OBVIOUS
    <3> QED BY <3>1, <3>2, <3>3, QueuedIsMappable DEF Invalid, Checked
  <2>2. stage' = "persisted" /\ UNCHANGED <<hello, batch, through>> /\ stage = "queued"
    BY <1>4, <2>1 DEF Persist
  <2> QED BY <2>2
<1>5. CASE UNCHANGED vars
  BY <1>5 DEF vars
<1> QED BY <1>1, <1>2, <1>3, <1>4, <1>5 DEF Next

\* ValidationInv is an invariant, for every frame that may arrive.
THEOREM ValidationHolds == Spec => [](TypeOK /\ ValidationInv)
<1>1. Init => TypeOK /\ ValidationInv
  BY ValidationAssumption DEF Init, TypeOK, ValidationInv
<1>2. TypeOK /\ ValidationInv /\ [Next]_vars => (TypeOK /\ ValidationInv)'
  BY ValidationStep
<1> QED BY <1>1, <1>2, PTL DEF Spec

\* mapObservation never reports ErrInvalidInventory for an accepted batch, so no
\* agent can stop the persistence worker.
THEOREM Mappable == Spec => []AcceptedIsMappable
<1>1. TypeOK /\ ValidationInv => AcceptedIsMappable
  BY DEF ValidationInv, AcceptedIsMappable
<1> QED BY <1>1, ValidationHolds, PTL

\* suffixAfter hands on exactly one observation for each number that follows the
\* watermark, in order.
THEOREM SuffixContinues == Spec => []SuffixContinuesWatermark
<1>1. TypeOK /\ ValidationInv => SuffixContinuesWatermark
  BY DEF ValidationInv, SuffixContinuesWatermark, Checked
<1> QED BY <1>1, ValidationHolds, PTL
-----------------------------------------------------------------------------
(* MetricsSampler.  AtMostTwoWindows is not inductive: it says nothing of the *)
(* tick that starts the next sample.  The tick in the channel, or the one to  *)
(* be fired next if the channel is empty, was not there yet when the last     *)
(* window ended, and is at least an interval later than the end of the one    *)
(* before.                                                                    *)

\* The tick that starts the next sample.
Coming == IF tick = NoTick THEN nextTick ELSE tick

LastEnd == windows[Len(windows)]

\* The time elapsed and the ends of the windows are counts of the same unit.
SamplerTypes ==
  /\ elapsed \in Nat /\ nextTick \in Nat
  /\ tick \in Nat \cup {NoTick}
  /\ windows \in Seq(Nat) /\ Len(windows) >= 1

\* The ticker is never late, and a tick in the channel is past, with its
\* successors at least an interval later.
TickerInv ==
  /\ LastEnd <= elapsed /\ elapsed <= nextTick
  /\ tick # NoTick => tick <= elapsed /\ tick + Interval <= nextTick

\* The tick that comes next, against the ends of the last two windows.
ComingInv ==
  /\ LastEnd <= Coming
  /\ Len(windows) >= 2 => windows[Len(windows) - 1] + Interval <= Coming

\* The inductive invariant of ticker and windows.
SamplerInv == SamplerTypes /\ TickerInv /\ ComingInv /\ AtMostTwoWindows

\* A step that leaves the ticker and the windows alone.
SampleStep == UNCHANGED <<elapsed, nextTick, tick, windows>>

\* Reading the sources and publishing do not touch ticker or windows.
LEMMA SampleSteps ==
  ASSUME ReadSpecs \/ ReadSummary \/ ReadUsage \/ PublishSample \/ SampleDone \/ StopSampler
  PROVE  SampleStep
BY DEF ReadSpecs, ReadSummary, ReadUsage, PublishSample, SampleDone, StopSampler, SampleStep

\* The invariant holds when Start takes its first sample.
LEMMA SamplerStarts == SamplerInit => SamplerInv
BY IntervalAssumption
   DEF SamplerInit, SamplerInv, SamplerTypes, TickerInv, ComingInv, Coming, LastEnd,
       AtMostTwoWindows

\* What it means to append a window.
LEMMA AppendedWindow ==
  ASSUME NEW s \in Seq(Nat), NEW t \in Nat
  PROVE  /\ Append(s, t) \in Seq(Nat) /\ Len(Append(s, t)) = Len(s) + 1
         /\ \A i \in 1 .. Len(s) : Append(s, t)[i] = s[i]
         /\ Append(s, t)[Len(s) + 1] = t
OBVIOUS

\* A sample begins: its tick is an interval past the last window but one, and the
\* ticks to come are an interval past the last.
LEMMA BeginKeepsInv ==
  ASSUME SamplerInv, BeginSample PROVE SamplerInv'
<1> DEFINE n == Len(windows)
<1>1. /\ elapsed \in Nat /\ nextTick \in Nat /\ tick \in Nat /\ Interval \in Nat
      /\ windows \in Seq(Nat) /\ n >= 1 /\ n \in Nat /\ windows[n] \in Nat
  BY SMTT(60), IntervalAssumption DEF SamplerInv, SamplerTypes, BeginSample
<1>2. tick # NoTick /\ Coming = tick
  BY DEF BeginSample, Coming
<1>3. /\ tick <= elapsed /\ tick + Interval <= nextTick /\ elapsed <= nextTick
      /\ windows[n] <= tick
      /\ n >= 2 => windows[n - 1] + Interval <= tick
  BY <1>2 DEF SamplerInv, TickerInv, ComingInv, LastEnd
<1>4. windows' = Append(windows, elapsed) /\ elapsed' = elapsed /\ nextTick' = nextTick /\ tick' = NoTick
  BY DEF BeginSample
<1>5. /\ windows' \in Seq(Nat) /\ Len(windows') = n + 1
      /\ \A i \in 1 .. n : windows'[i] = windows[i]
      /\ windows'[n + 1] = elapsed
  BY <1>1, <1>4, AppendedWindow
<1>6. SamplerTypes'
  BY <1>1, <1>4, <1>5 DEF SamplerTypes
<1>7. LastEnd' = elapsed /\ Coming' = nextTick
  BY <1>4, <1>5 DEF LastEnd, Coming
<1>8. TickerInv'
  BY <1>1, <1>3, <1>4, <1>7 DEF TickerInv
<1>9. ComingInv'
  <2>1. windows'[Len(windows') - 1] = windows[n]
    BY <1>1, <1>5
  <2> QED BY <1>1, <1>3, <1>7, <2>1 DEF ComingInv
<1>10. AtMostTwoWindows'
  <2> SUFFICES ASSUME NEW i \in 1 .. (n + 1 - 2)
               PROVE  windows'[i + 2] - Interval >= windows'[i]
    BY SMTT(60), <1>4, <1>5 DEF AtMostTwoWindows
  <2>1. CASE i = n - 1
    <3>0. i + 2 = n + 1 /\ i \in 1 .. n /\ n >= 2
      BY <1>1, <2>1
    <3>1. windows'[i + 2] = elapsed /\ windows'[i] = windows[n - 1]
      BY <1>5, <2>1, <3>0
    <3>2. windows[n - 1] \in Nat
      <4>1. n - 1 \in 1 .. n
        BY <1>1, <3>0
      <4>2. \A k \in 1 .. n : windows[k] \in Nat
        BY <1>1
      <4> HIDE DEF n
      <4> QED BY <4>1, <4>2
    <3>3. windows[n - 1] + Interval <= tick
      BY <1>3, <3>0
    <3> HIDE DEF n
    <3>4. windows[n - 1] + Interval <= elapsed
      BY <1>1, <1>3, <3>2, <3>3
    <3> QED BY <1>1, <3>1, <3>2, <3>4
  <2>2. CASE i # n - 1
    <3>0. i \in 1 .. n - 2 /\ i + 2 \in 1 .. n /\ i \in 1 .. n
      BY <1>1, <2>2
    <3>1. windows'[i + 2] = windows[i + 2] /\ windows'[i] = windows[i]
      BY <1>5, <3>0
    <3> QED BY <3>0, <3>1 DEF SamplerInv, AtMostTwoWindows
  <2> QED BY <2>1, <2>2
<1> QED BY <1>6, <1>8, <1>9, <1>10 DEF SamplerInv

\* The ticker fires on time; a tick that finds the channel full changes nothing.
LEMMA FireKeepsInv ==
  ASSUME SamplerInv, Fire PROVE SamplerInv'
<1>1. /\ elapsed \in Nat /\ nextTick \in Nat /\ Interval \in Nat /\ elapsed = nextTick
      /\ LastEnd <= elapsed /\ windows \in Seq(Nat) /\ Len(windows) >= 1
  BY IntervalAssumption DEF SamplerInv, SamplerTypes, TickerInv, Fire
<1>2. elapsed' = elapsed /\ nextTick' = nextTick + Interval /\ windows' = windows
  BY DEF Fire
<1>3. LastEnd' = LastEnd /\ AtMostTwoWindows'
  BY <1>2 DEF LastEnd, SamplerInv, AtMostTwoWindows
<1>4. tick' = Coming /\ Coming \in Nat
  BY <1>1 DEF Fire, Coming, SamplerInv, SamplerTypes
<1>5. Coming' = Coming
  BY <1>4, IntervalAssumption DEF Coming
<1>6. Coming <= elapsed /\ Coming + Interval <= nextTick + Interval
  BY <1>1, <1>4 DEF Coming, SamplerInv, TickerInv
<1>7. SamplerTypes'
  BY <1>1, <1>2, <1>4 DEF SamplerTypes
<1>8. TickerInv'
  BY <1>1, <1>2, <1>3, <1>4, <1>6 DEF TickerInv
<1>9. ComingInv'
  BY <1>2, <1>3, <1>5 DEF ComingInv, SamplerInv
<1> QED BY <1>3, <1>7, <1>8, <1>9 DEF SamplerInv

\* Time passes only while no tick is due.
LEMMA PassKeepsInv ==
  ASSUME SamplerInv, Pass PROVE SamplerInv'
<1>1. /\ elapsed \in Nat /\ nextTick \in Nat /\ elapsed < nextTick /\ LastEnd <= elapsed
      /\ windows \in Seq(Nat) /\ Len(windows) >= 1 /\ LastEnd \in Nat
  BY DEF SamplerInv, SamplerTypes, TickerInv, Pass, LastEnd
<1>2. elapsed' = elapsed + 1 /\ nextTick' = nextTick /\ windows' = windows /\ tick' = tick
  BY DEF Pass
<1>3. LastEnd' = LastEnd /\ Coming' = Coming /\ AtMostTwoWindows' /\ ComingInv'
  BY <1>2 DEF LastEnd, Coming, SamplerInv, AtMostTwoWindows, ComingInv
<1>4. SamplerTypes'
  BY <1>1, <1>2 DEF SamplerTypes, SamplerInv
<1>5. TickerInv'
  BY <1>1, <1>2, <1>3 DEF TickerInv, SamplerInv, SamplerTypes
<1> QED BY <1>3, <1>4, <1>5 DEF SamplerInv

\* Every step of the sampler, or of another part of the agent, keeps it.
LEMMA SamplerKeepsInv ==
  ASSUME SamplerInv, [SamplerNext]_samplerVars PROVE SamplerInv'
<1>1. CASE Fire BY <1>1, FireKeepsInv
<1>2. CASE Pass BY <1>2, PassKeepsInv
<1>3. CASE BeginSample BY <1>3, BeginKeepsInv
<1>4. CASE SampleStep
  BY <1>4 DEF SampleStep, SamplerInv, SamplerTypes, TickerInv, ComingInv, Coming, LastEnd,
              AtMostTwoWindows
<1>5. CASE UNCHANGED samplerVars
  BY <1>4, <1>5 DEF samplerVars, SampleStep
<1> QED BY <1>1, <1>2, <1>3, <1>4, <1>5, SampleSteps DEF SamplerNext

\* For every interval and every delay of the sources and the buffer, Start's loop
\* and the ticker sample no instant with more than two windows.
THEOREM WindowsOverlapAtMostOnce == SamplerSpec => []AtMostTwoWindows
<1>1. SamplerInv => AtMostTwoWindows
  BY DEF SamplerInv
<1> QED BY <1>1, SamplerStarts, SamplerKeepsInv, PTL DEF SamplerSpec
-----------------------------------------------------------------------------
(* What a sample publishes.  MeasuredIsPublished speaks of the sample's end: *)
(* before it, the container is still to be published, and what no source has *)
(* been asked for is not measured.                                           *)

\* One sample under way.
SampleType ==
  [phase : {"specs", "summary", "usage", "publish", "idle", "stopped"},
   specs : BOOLEAN, entry : BOOLEAN, cpu : BOOLEAN, memory : BOOLEAN,
   node : {{}, {"PARTIAL"}, {"COMPLETE"}}, todo : SUBSET {"container", "node"}]

\* The container of a running pod was measured, and was published for what it is.
Measured == sample.specs /\ (sample.cpu \/ sample.memory)

\* The container is among what was published, as complete only if it is.
ContainerPublished ==
  \E o \in observed :
    o.kind = "container" /\ (o.quality = "COMPLETE" => sample.cpu /\ sample.memory)

\* The inductive invariant: what each phase has not reached yet is not there.
PublishInv ==
  /\ sample \in SampleType
  /\ sample.phase = "specs" => ~sample.specs
  /\ sample.phase \in {"specs", "summary", "usage"} => ~sample.cpu
  /\ sample.phase \in {"specs", "summary"} => ~sample.memory
  /\ sample.phase = "usage" /\ sample.memory => sample.entry
  /\ sample.phase = "publish" /\ Measured => "container" \in sample.todo \/ ContainerPublished
  /\ sample.phase = "idle" /\ Measured => ContainerPublished

\* Only the phase changes.
LEMMA PhaseOnly ==
  ASSUME PublishInv, NEW p \in {"idle", "stopped"}, Goes(p), observed' = observed,
         p = "idle" /\ Measured => ContainerPublished
  PROVE  PublishInv'
<1>1. /\ sample' \in SampleType /\ sample'.phase = p /\ sample'.specs = sample.specs
      /\ sample'.cpu = sample.cpu /\ sample'.memory = sample.memory
  BY DEF PublishInv, SampleType, Goes
<1>2. Measured' <=> Measured
  BY <1>1 DEF Measured
<1>3. ContainerPublished => ContainerPublished'
  BY <1>1 DEF ContainerPublished
<1> QED BY <1>1, <1>2, <1>3 DEF PublishInv

\* usage is done: a container that was measured is to be published.
LEMMA PublishBegins ==
  ASSUME NEW s \in SampleType, s.cpu \/ s.memory => s.entry, Publishes(s)
  PROVE  PublishInv'
<1>1. Todo(s) \in SUBSET {"container", "node"}
  BY DEF Todo
<1>2. /\ sample' \in SampleType /\ sample'.phase = "publish" /\ sample'.specs = s.specs
      /\ sample'.cpu = s.cpu /\ sample'.memory = s.memory /\ sample'.todo = Todo(s)
  BY <1>1 DEF Publishes, SampleType
<1>3. Measured' => "container" \in Todo(s)
  BY <1>2 DEF Measured, Todo
<1> QED BY <1>2, <1>3 DEF PublishInv

\* Every step of a sample.
LEMMA SamplePublishes ==
  ASSUME PublishInv, [SamplerNext]_samplerVars PROVE PublishInv'
<1>0. sample \in SampleType
  BY DEF PublishInv
<1>1. CASE UNCHANGED <<sample, observed>>
  BY <1>1 DEF PublishInv, Measured, ContainerPublished
<1>2. CASE BeginSample
  <2>1. Begun \in SampleType
    BY DEF Begun, SampleType
  <2> QED BY <1>2, <2>1 DEF BeginSample, Begun, PublishInv
<1>3. CASE ReadSpecs
  <2>0. /\ sample.phase = "specs" /\ observed' = observed
        /\ ~Measured /\ ~sample.cpu /\ ~sample.memory
    BY <1>3 DEF ReadSpecs, PublishInv, Measured
  <2>1. CASE Goes("idle")
    BY <2>0, <2>1, PhaseOnly
  <2>2. ASSUME NEW running \in BOOLEAN,
               sample' = [sample EXCEPT !.phase = "summary", !.specs = running]
        PROVE  PublishInv'
    <3>1. /\ sample' \in SampleType /\ sample'.phase = "summary"
          /\ sample'.cpu = sample.cpu /\ sample'.memory = sample.memory
      BY <1>0, <2>2 DEF SampleType
    <3> QED BY <2>0, <3>1 DEF PublishInv
  <2> QED BY <1>3, <2>1, <2>2 DEF ReadSpecs
<1>4. CASE ReadSummary
  <2>0. /\ sample.phase = "summary" /\ observed' = observed
        /\ ~sample.cpu /\ ~sample.memory
    BY <1>4 DEF ReadSummary, PublishInv
  <2>1. CASE Goes("usage")
    <3>1. /\ sample' \in SampleType /\ sample'.phase = "usage"
          /\ sample'.cpu = sample.cpu /\ sample'.memory = sample.memory
      BY <1>0, <2>1 DEF SampleType, Goes
    <3> QED BY <2>0, <3>1 DEF PublishInv
  <2>2. ASSUME NEW node \in {{}, {"PARTIAL"}, {"COMPLETE"}}, NEW entry \in BOOLEAN,
               NEW memory \in BOOLEAN, memory => entry,
               sample' = [sample EXCEPT !.phase = "usage", !.node = node, !.entry = entry,
                                        !.memory = memory]
        PROVE  PublishInv'
    <3>1. /\ sample' \in SampleType /\ sample'.phase = "usage"
          /\ sample'.cpu = sample.cpu /\ sample'.memory = memory /\ sample'.entry = entry
      BY <1>0, <2>2 DEF SampleType
    <3> QED BY <2>0, <2>2, <3>1 DEF PublishInv
  <2> QED BY <1>4, <2>1, <2>2 DEF ReadSummary
<1>5. CASE ReadUsage
  <2>0. /\ sample.phase = "usage" /\ observed' = observed
        /\ ~sample.cpu /\ (sample.memory => sample.entry)
    BY <1>5 DEF ReadUsage, PublishInv
  <2>1. CASE Publishes(sample)
    BY <1>0, <2>0, <2>1, PublishBegins
  <2>2. CASE UsageFails(sample) /\ Goes("idle")
    <3>1. ~Measured
      BY <2>0, <2>2 DEF UsageFails, Measured
    <3> QED BY <2>0, <2>2, <3>1, PhaseOnly
  <2>3. ASSUME NEW cpu \in BOOLEAN, NEW memory \in BOOLEAN,
               Publishes([sample EXCEPT !.entry = TRUE, !.cpu = cpu, !.memory = @ \/ memory])
        PROVE  PublishInv'
    <3>1. PICK s : s = [sample EXCEPT !.entry = TRUE, !.cpu = cpu, !.memory = @ \/ memory]
      OBVIOUS
    <3>2. (sample.memory \/ memory) \in BOOLEAN
      OBVIOUS
    <3>3. s \in SampleType /\ s.entry
      BY <1>0, <3>1, <3>2 DEF SampleType
    <3> QED BY <2>3, <3>1, <3>3, PublishBegins
  <2> QED BY <1>5, <2>1, <2>2, <2>3 DEF ReadUsage
<1>6. CASE PublishSample
  <2>0. sample.phase = "publish"
    BY <1>6 DEF PublishSample
  <2>1. PICK kind \in {"container", "node"} :
          /\ kind = IF "container" \in sample.todo THEN "container" ELSE "node"
          /\ sample' = [sample EXCEPT !.todo = @ \ {kind}]
          /\ kind = "container" =>
               observed' = observed \cup {[kind |-> kind, quality |-> q] : q \in {ContainerQuality(sample)}}
          /\ observed \subseteq observed'
    BY <1>6 DEF PublishSample
  <2>2. /\ sample' \in SampleType /\ sample'.phase = "publish" /\ sample'.specs = sample.specs
        /\ sample'.cpu = sample.cpu /\ sample'.memory = sample.memory
        /\ sample'.todo = sample.todo \ {kind}
    BY <1>0, <2>0, <2>1 DEF SampleType
  <2>3. (Measured' <=> Measured) /\ (ContainerPublished => ContainerPublished')
    BY <2>1, <2>2 DEF Measured, ContainerPublished
  <2>4. kind = "container" => ContainerPublished'
    <3> SUFFICES ASSUME kind = "container" PROVE ContainerPublished'
      OBVIOUS
    <3>1. PICK o : o = [kind |-> kind, quality |-> ContainerQuality(sample)]
      OBVIOUS
    <3>2. o \in observed'
      BY <2>1, <3>1
    <3>3. o.kind = "container" /\ o.quality = ContainerQuality(sample)
      BY <3>1
    <3>4. ContainerQuality(sample) = "COMPLETE" => sample.cpu /\ sample.memory
      BY DEF ContainerQuality
    <3> QED BY <2>2, <3>2, <3>3, <3>4 DEF ContainerPublished
  <2>5. kind # "container" => "container" \notin sample.todo
    BY <2>1
  <2>6. Measured => ContainerPublished'
    BY <2>0, <2>3, <2>4, <2>5 DEF PublishInv
  <2> QED BY <2>2, <2>3, <2>6 DEF PublishInv
<1>7. CASE SampleDone
  <2>1. Measured => ContainerPublished
    BY <1>7 DEF SampleDone, PublishInv
  <2> QED BY <1>7, <2>1, PhaseOnly DEF SampleDone
<1>8. CASE StopSampler
  BY <1>8, PhaseOnly DEF StopSampler
<1> QED
  BY <1>1, <1>2, <1>3, <1>4, <1>5, <1>6, <1>7, <1>8 DEF SamplerNext, samplerVars, Fire, Pass

\* Whichever of the sources fail, and in whatever order the sample goes on, a
\* container of a running pod that was measured at all is published, and as
\* complete only with both measurements.
THEOREM MeasuredContainersPublished == SamplerSpec => []MeasuredIsPublished
<1>1. SamplerInit => PublishInv
  <2>1. Begun \in SampleType
    BY DEF Begun, SampleType
  <2> QED BY <2>1 DEF SamplerInit, Begun, PublishInv
<1>2. PublishInv => MeasuredIsPublished
  BY DEF PublishInv, Measured, ContainerPublished, MeasuredIsPublished
<1> QED BY <1>1, <1>2, SamplePublishes, PTL DEF SamplerSpec
-----------------------------------------------------------------------------
(* ServiceLifecycle: a gRPC process lets the calls it has taken finish. *)

\* A call is cut off only by an exit.  Those of the main functions and of the
\* agent are not a gRPC process's, and draining is nobody else's.
LifecycleInv ==
  /\ calls \in [Calls -> {"none", "active", "done", "aborted"}]
  /\ CallsAreDrained

\* Initially no call is cut off.
LEMMA LifecycleStarts == LifecycleInit => LifecycleInv
BY DEF LifecycleInit, LifecycleInv, CallsAreDrained

\* A step that cuts no call off and keeps role, expired and failed.
LEMMA OneCallChanges ==
  ASSUME LifecycleInv, NEW c \in Calls, NEW s \in {"none", "active", "done"},
         calls' = [calls EXCEPT ![c] = s], UNCHANGED <<role, expired, failed>>
  PROVE  LifecycleInv'
BY DEF LifecycleInv, CallsAreDrained

\* An exit cuts off the calls that are active.
LEMMA ExitKeepsInv ==
  ASSUME LifecycleInv, Exits, role' = role, expired' = expired,
         failed => failed',
         \/ role \notin {"grpc", "ingestion"}
         \/ failed' \/ expired' \/ Active = {}
  PROVE  LifecycleInv'
<1>1. calls' \in [Calls -> {"none", "active", "done", "aborted"}]
  BY DEF LifecycleInv, Exits
<1>2. CallsAreDrained'
  <2> SUFFICES ASSUME role \in {"grpc", "ingestion"}, NEW c \in Calls, calls'[c] = "aborted"
               PROVE  expired' \/ failed'
    BY DEF CallsAreDrained
  <2>1. CASE calls[c] = "active"
    BY <2>1 DEF Active
  <2>2. CASE calls[c] # "active"
    <3>1. calls[c] = "aborted"
      BY <2>2 DEF Exits
    <3> QED BY <3>1 DEF LifecycleInv, CallsAreDrained
  <2> QED BY <2>1, <2>2
<1> QED BY <1>1, <1>2 DEF LifecycleInv

\* Every step of the process, its clients and its signals keeps the invariant.
LEMMA LifecycleKeepsInv ==
  ASSUME LifecycleInv, [LifecycleNext]_lifecycleVars PROVE LifecycleInv'
<1>1. ASSUME NEW c \in Calls, Arrive(c) PROVE LifecycleInv'
  BY <1>1, OneCallChanges DEF Arrive
<1>2. ASSUME NEW c \in Calls, Complete(c) PROVE LifecycleInv'
  BY <1>2, OneCallChanges DEF Complete
<1>3. CASE Signal
  BY <1>3 DEF Signal, LifecycleInv, CallsAreDrained
<1>4. CASE ServeFails
  BY <1>4, ExitKeepsInv DEF ServeFails
<1>5. CASE GracefulStop
  BY <1>5 DEF GracefulStop, LifecycleInv, CallsAreDrained
<1>6. CASE Expire
  BY <1>6 DEF Expire, LifecycleInv, CallsAreDrained
<1>7. CASE RunReturns
  BY <1>7, ExitKeepsInv DEF RunReturns
<1>8. CASE Shutdown
  BY <1>8 DEF Shutdown, LifecycleInv, CallsAreDrained
<1>9. CASE MainReturns
  BY <1>9, ExitKeepsInv DEF MainReturns
<1>10. CASE RuntimeReturns
  BY <1>10, ExitKeepsInv DEF RuntimeReturns
<1>11. CASE UNCHANGED lifecycleVars
  BY <1>11 DEF lifecycleVars, LifecycleInv, CallsAreDrained
<1> QED
  BY <1>1, <1>2, <1>3, <1>4, <1>5, <1>6, <1>7, <1>8, <1>9, <1>10, <1>11
     DEF LifecycleNext, Stopping

\* However many calls and streams are open when the signal arrives, Run cuts one
\* off only after the ten seconds or when its server failed.
THEOREM GrpcCallsAreDrained == LifecycleSpec => []CallsAreDrained
<1>1. LifecycleInv => CallsAreDrained
  BY DEF LifecycleInv
<1> QED BY <1>1, LifecycleStarts, LifecycleKeepsInv, PTL DEF LifecycleSpec
-----------------------------------------------------------------------------
(* Workflow, with any number of concurrent command requests, and queries and *)
(* inserts failing anywhere.  None of the invariants is inductive: each needs *)
(* to know what a command in flight read and what it is about to insert.      *)
(* InFlight says that; RowsDated and CommandsDated say that no two rows or    *)
(* commands share an instant, from which a recommendation has one current row.*)

ID == [target : Targets, window : Int]

Row == [id : ID, status : Statuses, version : Nat, generated : Nat]

Selecting == [step : {"select"}, id : ID, action : DOMAIN NextStatus, expected : Nat, at : Nat]

Inserting == [step : {"insert", "action"}, id : ID, action : DOMAIN NextStatus,
              expected : Nat, at : Nat, row : Row]

Types ==
  /\ recommendation \in SUBSET Row
  /\ actions \in SUBSET [action : DOMAIN NextStatus, row : Row]
  /\ answered \in SUBSET [id : ID, at : Nat, expected : Nat]
  /\ command \in [Handlers -> {NoCommand} \cup Selecting \cup Inserting]
  /\ job \in Int /\ clock \in Nat

\* rows holds an approved row with the generated configuration of row r.
ApprovedFor(r, rows) ==
  \E s \in rows : s.status = "approved" /\ s.id = r.id /\ s.generated = r.generated

\* What command c has read, and what it is to insert or has inserted.
InFlight(c, rows) ==
  c \in Inserting =>
    /\ c.row.id = c.id /\ c.row.version = c.at /\ c.row.status = NextStatus[c.action]
    /\ c.action = "request_execution" => ApprovedFor(c.row, rows)
    /\ c.step = "action" => c.row \in rows

\* The row an answered command left.
Effective(a, rows) ==
  \E r \in rows : r.id = a.id /\ r.version = a.at /\ r.status # "open"

\* A row is open as the job saved it.
OpenAsSaved == \A r \in recommendation : r.status = "open" => r.version = r.generated

\* A row or a command that has inserted none holds an instant that is past, and
\* no two of one recommendation hold the same.
Pending(c) == c \in Selecting \/ (c \in Inserting /\ c.step = "insert")

RowsDated ==
  /\ \A r \in recommendation : r.version < clock
  /\ \A r, s \in recommendation : r.id = s.id /\ r.version = s.version => r = s

CommandsDated ==
  \A h \in Handlers : Pending(command[h]) =>
    /\ command[h].at < clock
    /\ \A r \in recommendation : r.version # command[h].at
    /\ \A k \in Handlers : Pending(command[k]) /\ command[k].at = command[h].at => k = h

\* A recommendation has a row that is not older than its others.
Newest(r, rows) == \A s \in rows : s.id = r.id => s.version <= r.version

HasNewest(rows) == \A r \in rows : \E s \in rows : s.id = r.id /\ Newest(s, rows)

WorkflowInv ==
  /\ Types
  /\ ActionHasTransition
  /\ \A a \in actions : a.action = "request_execution" => ApprovedFor(a.row, recommendation)
  /\ \A h \in Handlers : InFlight(command[h], recommendation)
  /\ \A a \in answered : Effective(a, recommendation)
  /\ OpenAsSaved /\ RowsDated /\ CommandsDated
  /\ HasNewest(recommendation)

\* The clock is a number, and what is dated is older than it.
LEMMA DatedFacts ==
  ASSUME WorkflowInv
  PROVE  clock \in Nat /\ RowsDated /\ CommandsDated
BY DEF WorkflowInv, Types

\* No action opens a recommendation.
LEMMA ActionsDoNotOpen ==
  ASSUME NEW a \in DOMAIN NextStatus
  PROVE  NextStatus[a] # "open"
BY DEF NextStatus

\* The parts of a command that was accepted.
LEMMA InsertingParts ==
  ASSUME NEW c \in Inserting
  PROVE  /\ c.action \in DOMAIN NextStatus /\ c.row \in Row
         /\ c.id \in ID /\ c.at \in Nat /\ c.expected \in Nat
BY DEF Inserting

\* The steps of a command, told apart by its phase.
LEMMA CommandShapes ==
  ASSUME Types, NEW h \in Handlers
  PROVE  /\ command[h] \in {NoCommand} \cup Selecting \cup Inserting
         /\ command[h].step = "select" => command[h] \in Selecting
         /\ command[h].step \in {"insert", "action"} => command[h] \in Inserting
         /\ NoCommand \notin Selecting \cup Inserting
BY SMTT(60) DEF Types, NoCommand, Selecting, Inserting

\* The rows the job saves.
LEMMA FactIsRow ==
  ASSUME NEW t \in Targets, NEW w \in Int, NEW now \in Nat
  PROVE  /\ Fact(RecommendationID(t, w), now) \in Row
         /\ Fact(RecommendationID(t, w), now).status = "open"
         /\ Fact(RecommendationID(t, w), now).version = now
         /\ Fact(RecommendationID(t, w), now).generated = now
         /\ Fact(RecommendationID(t, w), now).id.window = w
         /\ Fact(RecommendationID(t, w), now).id = RecommendationID(t, w)
BY DEF Fact, RecommendationID, Row, ID, Statuses

\* The row a command replaces another by.
LEMMA UpdatedIsRow ==
  ASSUME NEW c, c.at \in Nat, c.action \in DOMAIN NextStatus, NEW r \in Row
  PROVE  /\ Updated(c, r) \in Row
         /\ Updated(c, r).id = r.id /\ Updated(c, r).generated = r.generated
         /\ Updated(c, r).version = c.at /\ Updated(c, r).status = NextStatus[c.action]
         /\ NextStatus[c.action] # "open"
<1>1. NextStatus[c.action] \in Statuses \ {"open"}
  BY DEF NextStatus, Statuses
<1> QED BY <1>1 DEF Updated, Row

\* Only approved recommendations are executed.
LEMMA ExecutesApproved ==
  ASSUME NEW c, NEW r \in Row, Accepts(c, r), c.action = "request_execution"
  PROVE  r.status = "approved"
BY DEF Accepts, TransitionAllowed, NextStatus

\* A request a handler takes.
LEMMA ReceivedIsSelecting ==
  ASSUME NEW id \in ID, NEW a \in DOMAIN NextStatus, NEW e \in Nat, NEW t \in Nat
  PROVE  [step |-> "select", id |-> id, action |-> a, expected |-> e, at |-> t] \in Selecting
BY DEF Selecting

\* A command that was accepted.
LEMMA AcceptedIsInserting ==
  ASSUME NEW c \in Selecting, NEW r \in Row
  PROVE  [step |-> "insert", id |-> c.id, action |-> c.action, expected |-> c.expected,
          at |-> c.at, row |-> r] \in Inserting
BY DEF Selecting, Inserting

\* A command whose row was inserted.
LEMMA NextStepIsInserting ==
  ASSUME NEW c \in Inserting
  PROVE  /\ [c EXCEPT !.step = "action"] \in Inserting
         /\ [c EXCEPT !.step = "action"].step = "action"
         /\ [c EXCEPT !.step = "action"].row = c.row
         /\ [c EXCEPT !.step = "action"].id = c.id
         /\ [c EXCEPT !.step = "action"].at = c.at
         /\ [c EXCEPT !.step = "action"].action = c.action
BY DEF Inserting

\* What holds of rows that only grow.
LEMMA RowsGrow ==
  ASSUME NEW R, NEW S, R \subseteq S
  PROVE  /\ \A r : ApprovedFor(r, R) => ApprovedFor(r, S)
         /\ \A c : InFlight(c, R) => InFlight(c, S)
         /\ \A a : Effective(a, R) => Effective(a, S)
<1>1. \A r : ApprovedFor(r, R) => ApprovedFor(r, S)
  BY DEF ApprovedFor
<1>2. \A c : InFlight(c, R) => InFlight(c, S)
  BY <1>1 DEF InFlight
<1>3. \A a : Effective(a, R) => Effective(a, S)
  BY DEF Effective
<1> QED BY <1>1, <1>2, <1>3

\* A command inserts its row, which may be older than the newest.
LEMMA NewestAfterInsert ==
  ASSUME NEW R \in SUBSET Row, NEW x \in Row, HasNewest(R)
  PROVE  HasNewest(R \cup {x})
<1> DEFINE S == R \cup {x}
<1>0. \A r \in S : r \in Row /\ r.version \in Nat
  BY DEF Row
<1> SUFFICES ASSUME NEW r \in S
             PROVE  \E s \in S : s.id = r.id /\ Newest(s, S)
  BY DEF HasNewest
<1>1. CASE r.id # x.id
  <2>1. r \in R
    BY <1>1
  <2>2. PICK s \in R : s.id = r.id /\ Newest(s, R)
    BY <2>1 DEF HasNewest
  <2>3. Newest(s, S)
    BY <1>1, <2>2 DEF Newest
  <2> QED BY <2>2, <2>3
<1>2. CASE r.id = x.id /\ \A s \in R : s.id # x.id
  <2>1. Newest(x, S)
    BY <1>0, <1>2 DEF Newest
  <2> QED BY <1>2, <2>1
<1>3. CASE r.id = x.id /\ \E s \in R : s.id = x.id
  <2>1. PICK s \in R : s.id = x.id /\ Newest(s, R)
    BY <1>3 DEF HasNewest
  <2>2. CASE x.version <= s.version
    <3>1. Newest(s, S)
      BY <2>1, <2>2 DEF Newest
    <3> QED BY <1>3, <2>1, <3>1
  <2>3. CASE s.version < x.version
    <3>1. Newest(x, S)
      BY <1>0, <2>1, <2>3 DEF Newest
    <3> QED BY <1>3, <3>1
  <2>4. s.version \in Nat /\ x.version \in Nat
    BY <1>0, <2>1
  <2>5. x.version <= s.version \/ s.version < x.version
    BY <2>4
  <2> QED BY <2>2, <2>3, <2>5
<1> QED BY <1>1, <1>2, <1>3

\* The job inserts rows of one version, newer than all.
LEMMA NewestAfterSave ==
  ASSUME NEW R \in SUBSET Row, NEW F \in SUBSET Row, NEW v \in Nat, HasNewest(R),
         \A f \in F : f.version = v, \A r \in R : r.version < v
  PROVE  HasNewest(R \cup F)
<1> DEFINE S == R \cup F
<1>0. \A r \in S : r.version \in Nat
  BY DEF Row
<1>1. \A s \in S : s.version <= v
  BY <1>0
<1> SUFFICES ASSUME NEW r \in S
             PROVE  \E s \in S : s.id = r.id /\ Newest(s, S)
  BY DEF HasNewest
<1>2. CASE \E f \in F : f.id = r.id
  <2>1. PICK f \in F : f.id = r.id
    BY <1>2
  <2>2. Newest(f, S)
    BY <1>1 DEF Newest
  <2> QED BY <2>1, <2>2
<1>3. CASE \A f \in F : f.id # r.id
  <2>1. r \in R
    BY <1>3
  <2>2. PICK s \in R : s.id = r.id /\ Newest(s, R)
    BY <2>1 DEF HasNewest
  <2>3. Newest(s, S)
    BY <1>3, <2>2 DEF Newest
  <2> QED BY <2>2, <2>3
<1> QED BY <1>2, <1>3

\* The invariant holds of empty tables.
LEMMA WorkflowStarts == WorkflowInit => WorkflowInv
<1> SUFFICES ASSUME WorkflowInit PROVE WorkflowInv
  OBVIOUS
<1>1. \A h \in Handlers : command[h] = NoCommand /\ NoCommand \notin Selecting \cup Inserting
  BY DEF WorkflowInit, NoCommand, Selecting, Inserting
<1>2. Types
  BY DEF WorkflowInit, Types, NoJob
<1>3. \A h \in Handlers : InFlight(command[h], recommendation)
  BY <1>1 DEF InFlight
<1>4. CommandsDated
  BY <1>1 DEF CommandsDated, Pending
<1> QED
  BY <1>2, <1>3, <1>4
     DEF WorkflowInit, WorkflowInv, ActionHasTransition, OpenAsSaved, RowsDated, HasNewest

\* The start of the job and its failure leave rows and commands alone.
LEMMA JobKeepsInv ==
  ASSUME WorkflowInv, job' \in Int,
         UNCHANGED <<recommendation, actions, command, clock, answered>>
  PROVE  WorkflowInv'
BY DEF WorkflowInv, Types, ActionHasTransition, OpenAsSaved, RowsDated, CommandsDated

\* The job saves a batch at an instant no row and no command holds.
LEMMA SaveKeepsInv ==
  ASSUME WorkflowInv, NEW found \in SUBSET Targets, JobSaves(found)
  PROVE  WorkflowInv'
<1> DEFINE F == {Fact(RecommendationID(t, job), clock) : t \in found}
<1>1. /\ recommendation \in SUBSET Row /\ clock \in Nat /\ job \in Int
      /\ \A r \in recommendation : r.version < clock
  BY DEF WorkflowInv, Types, RowsDated
<1>2. /\ recommendation' = recommendation \cup F /\ clock' = clock + 1 /\ job' = NoJob
      /\ actions' = actions /\ command' = command /\ answered' = answered
  BY DEF JobSaves
<1>3. \A f \in F : /\ f \in Row /\ f.status = "open" /\ f.version = clock
                   /\ f.generated = clock
  BY SMTT(60), <1>1, FactIsRow
<1>4. \A f, g \in F : f.id = g.id => f = g
  BY SMTT(60), <1>1, FactIsRow DEF Fact
<1>5. recommendation \subseteq recommendation'
  BY <1>2
<1> HIDE DEF F
<1>6. Types'
  BY SMTT(60), <1>1, <1>2, <1>3 DEF WorkflowInv, Types, NoJob
<1>7. ActionHasTransition'
  BY <1>2, <1>5 DEF WorkflowInv, ActionHasTransition
<1>8. /\ (\A a \in actions : a.action = "request_execution" => ApprovedFor(a.row, recommendation))'
      /\ (\A h \in Handlers : InFlight(command[h], recommendation))'
      /\ (\A a \in answered : Effective(a, recommendation))'
  BY <1>2, <1>5, RowsGrow DEF WorkflowInv
<1>9. OpenAsSaved'
  BY <1>2, <1>3 DEF WorkflowInv, OpenAsSaved
<1>10. RowsDated'
  <2>1. \A r \in recommendation' : r.version < clock'
    BY SMTT(60), <1>1, <1>2, <1>3 DEF Row
  <2>2. ASSUME NEW r \in recommendation', NEW q \in recommendation', r.id = q.id,
               r.version = q.version
        PROVE  r = q
    <3>1. r \in F <=> q \in F
      BY <1>1, <1>2, <1>3, <2>2
    <3> QED BY <1>2, <1>4, <2>2, <3>1 DEF WorkflowInv, RowsDated
  <2> QED BY <2>1, <2>2 DEF RowsDated
<1>11. CommandsDated'
  <2> SUFFICES ASSUME NEW h \in Handlers, Pending(command[h])
               PROVE  /\ command[h].at < clock + 1
                      /\ \A r \in recommendation' : r.version # command[h].at
                      /\ \A k \in Handlers : Pending(command[k])
                                             /\ command[k].at = command[h].at => k = h
    BY <1>2 DEF CommandsDated
  <2>1. command[h].at \in Nat
    BY DEF WorkflowInv, Types, Pending, Selecting, Inserting
  <2>2. /\ command[h].at < clock /\ \A r \in recommendation : r.version # command[h].at
        /\ \A k \in Handlers : Pending(command[k]) /\ command[k].at = command[h].at => k = h
    BY DEF WorkflowInv, CommandsDated
  <2>3. \A f \in F : f.version # command[h].at
    BY <1>1, <1>3, <2>1, <2>2
  <2> QED BY <1>1, <1>2, <2>1, <2>2, <2>3
<1>12. HasNewest(recommendation)'
  BY <1>1, <1>2, <1>3, NewestAfterSave DEF WorkflowInv
<1> QED BY <1>6, <1>7, <1>8, <1>9, <1>10, <1>11, <1>12 DEF WorkflowInv

\* What a step of one handler does to commands in flight: the others stay.
LEMMA OtherCommands ==
  ASSUME Types, NEW h \in Handlers, NEW c \in {NoCommand} \cup Selecting \cup Inserting,
         command' = [command EXCEPT ![h] = c]
  PROVE  /\ command' \in [Handlers -> {NoCommand} \cup Selecting \cup Inserting]
         /\ command'[h] = c
         /\ \A k \in Handlers : k # h => command'[k] = command[k]
BY DEF Types

\* A step that inserts no row and replaces one command.
LEMMA CommandKeepsInv ==
  ASSUME WorkflowInv, NEW h \in Handlers, NEW c \in {NoCommand} \cup Selecting \cup Inserting,
         command' = [command EXCEPT ![h] = c], clock' \in Nat, clock <= clock',
         recommendation' = recommendation, job' = job,
         actions' \in SUBSET [action : DOMAIN NextStatus, row : Row],
         answered' \in SUBSET [id : ID, at : Nat, expected : Nat],
         \A a \in actions' : /\ a.row \in recommendation
                             /\ a.action = "request_execution" => ApprovedFor(a.row, recommendation),
         \A a \in answered' : Effective(a, recommendation),
         InFlight(c, recommendation),
         Pending(c) => /\ c.at < clock' /\ \A r \in recommendation : r.version # c.at
                       /\ \A k \in Handlers : Pending(command[k]) /\ command[k].at = c.at => k = h
  PROVE  WorkflowInv'
<1>0. Types /\ clock \in Nat
  BY DEF WorkflowInv, Types
<1>1. /\ command' \in [Handlers -> {NoCommand} \cup Selecting \cup Inserting]
      /\ command'[h] = c
      /\ \A k \in Handlers : k # h => command'[k] = command[k]
  BY <1>0, OtherCommands
<1>2. Types'
  BY <1>0, <1>1 DEF Types
<1>3. (\A k \in Handlers : InFlight(command[k], recommendation))'
  BY <1>1 DEF WorkflowInv
<1>4. ActionHasTransition' /\ OpenAsSaved'
  BY DEF WorkflowInv, ActionHasTransition, OpenAsSaved
<1>5. RowsDated'
  BY SMTT(60), <1>0 DEF WorkflowInv, RowsDated, Types, Row
<1>6. CommandsDated'
  <2> SUFFICES ASSUME NEW k \in Handlers, Pending(command'[k])
               PROVE  /\ command'[k].at < clock'
                      /\ \A r \in recommendation : r.version # command'[k].at
                      /\ \A j \in Handlers : Pending(command'[j])
                                             /\ command'[j].at = command'[k].at => j = k
    BY DEF CommandsDated
  <2>1. CASE k = h
    BY <1>1, <2>1
  <2>2. CASE k # h
    <3>1. command'[k] = command[k] /\ Pending(command[k])
      BY <1>1, <2>2
    <3>2. /\ command[k].at < clock /\ \A r \in recommendation : r.version # command[k].at
          /\ \A j \in Handlers : Pending(command[j]) /\ command[j].at = command[k].at => j = k
      BY <3>1 DEF WorkflowInv, CommandsDated
    <3>3. command[k].at \in Nat
      BY <1>0, <3>1 DEF Types, Pending, Selecting, Inserting
    <3>4. Pending(c) => c.at # command[k].at
      BY <2>2, <3>1
    <3> QED BY SMTT(60), <1>0, <1>1, <3>1, <3>2, <3>3, <3>4
  <2> QED BY <2>1, <2>2
<1> QED BY <1>2, <1>3, <1>4, <1>5, <1>6 DEF WorkflowInv

\* A command whose query or insert fails is gone.
LEMMA FailKeepsInv ==
  ASSUME WorkflowInv, NEW h \in Handlers, CommandFails(h)
  PROVE  WorkflowInv'
<1>1. ~Pending(NoCommand) /\ InFlight(NoCommand, recommendation)
  BY DEF Pending, InFlight, NoCommand, Selecting, Inserting
<1>2. /\ command' = [command EXCEPT ![h] = NoCommand] /\ recommendation' = recommendation
      /\ job' = job /\ actions' = actions /\ answered' = answered /\ clock' = clock
  BY DEF CommandFails
<1>3. clock' \in Nat /\ clock <= clock'
  <2>1. clock \in Nat /\ clock' = clock
    BY <1>2, DatedFacts
  <2> QED BY ONLY <2>1
<1> HIDE DEF NoCommand
<1> QED
  BY <1>1, <1>2, <1>3, CommandKeepsInv DEF WorkflowInv, Types, ActionHasTransition

\* A handler takes an instant of its own.
LEMMA ReceiveKeepsInv ==
  ASSUME WorkflowInv, NEW h \in Handlers, NEW id \in IDs, NEW a \in DOMAIN NextStatus,
         NEW e \in 0 .. MaxClock, Receive(h, id, a, e)
  PROVE  WorkflowInv'
<1> DEFINE c == [step |-> "select", id |-> id, action |-> a, expected |-> e, at |-> clock]
<1>1. clock \in Nat /\ clock' = clock + 1 /\ id \in ID /\ e \in Nat
  BY SMTT(60), WorkflowAssumption DEF WorkflowInv, Types, Receive, IDs, Row
<1>2. c \in Selecting /\ c.at = clock
  BY <1>1, ReceivedIsSelecting
<1>3. InFlight(c, recommendation)
  BY DEF InFlight, Inserting
<1>4. \A r \in recommendation : r.version # c.at
  BY SMTT(60), <1>1 DEF WorkflowInv, RowsDated, Types, Row
<1>5. ASSUME NEW k \in Handlers, Pending(command[k]) PROVE command[k].at # c.at
  <2>1. command[k].at < clock
    BY <1>5, DatedFacts DEF CommandsDated
  <2>2. ~(clock < clock)
    BY <1>1
  <2> QED BY <1>2, <2>1, <2>2
<1>6. /\ command' = [command EXCEPT ![h] = c] /\ recommendation' = recommendation
      /\ job' = job /\ actions' = actions /\ answered' = answered
  BY DEF Receive
<1>7. c.at < clock' /\ clock <= clock' /\ clock' \in Nat
  BY <1>1, <1>2
<1> HIDE DEF c
<1> QED
  BY <1>2, <1>3, <1>4, <1>5, <1>6, <1>7, CommandKeepsInv
     DEF WorkflowInv, Types, ActionHasTransition

\* A command is refused, or holds the row it will insert, made of the one it read.
LEMMA SelectKeepsInv ==
  ASSUME WorkflowInv, NEW h \in Handlers, Select(h)
  PROVE  WorkflowInv'
<1> DEFINE d == command[h]
<1>1. PICK current \in RowsOf(d.id) :
        command' = [command EXCEPT ![h] =
          IF Accepts(d, current)
            THEN [step |-> "insert", id |-> d.id, action |-> d.action, expected |-> d.expected,
                  at |-> d.at, row |-> Updated(d, current)]
            ELSE NoCommand]
  BY DEF Select
<1>2. /\ recommendation' = recommendation /\ job' = job /\ actions' = actions
      /\ answered' = answered /\ clock' = clock /\ clock' \in Nat /\ clock <= clock'
  BY SMTT(60) DEF Select, WorkflowInv, Types
<1>3. d \in Selecting /\ Pending(d)
  BY CommandShapes DEF WorkflowInv, Select, Pending
<1>4. d.at \in Nat /\ d.action \in DOMAIN NextStatus
  BY <1>3 DEF Selecting
<1>5. current \in recommendation /\ current \in Row /\ current.id = d.id
  BY <1>1 DEF RowsOf, WorkflowInv, Types
<1>6. CASE ~Accepts(d, current)
  <2>1. ~Pending(NoCommand) /\ InFlight(NoCommand, recommendation)
    BY DEF Pending, InFlight, NoCommand, Selecting, Inserting
  <2>2. command' = [command EXCEPT ![h] = NoCommand]
    BY <1>1, <1>6
  <2> HIDE DEF NoCommand
  <2> QED
    BY <1>2, <2>1, <2>2, CommandKeepsInv DEF WorkflowInv, Types, ActionHasTransition
<1>7. CASE Accepts(d, current)
  <2> DEFINE x == Updated(d, current)
  <2> DEFINE c == [step |-> "insert", id |-> d.id, action |-> d.action,
                   expected |-> d.expected, at |-> d.at, row |-> x]
  <2>1. /\ x \in Row /\ x.id = current.id /\ x.generated = current.generated
        /\ x.version = d.at /\ x.status = NextStatus[d.action]
    BY <1>4, <1>5, UpdatedIsRow
  <2>2. command' = [command EXCEPT ![h] = c]
    BY <1>1, <1>7
  <2>3. c.step = "insert" /\ c.id = d.id /\ c.action = d.action /\ c.at = d.at /\ c.row = x
    OBVIOUS
  <2> HIDE DEF x
  <2>4. c \in Inserting
    BY <1>3, <2>1, AcceptedIsInserting
  <2> HIDE DEF c
  <2>5. d.action = "request_execution" => ApprovedFor(x, recommendation)
    BY <1>5, <1>7, <2>1, ExecutesApproved DEF ApprovedFor
  <2>6. InFlight(c, recommendation)
    BY <1>5, <2>1, <2>3, <2>5 DEF InFlight
  <2>7. /\ c.at < clock' /\ \A r \in recommendation : r.version # c.at
        /\ \A k \in Handlers : Pending(command[k]) /\ command[k].at = c.at => k = h
    BY <1>2, <1>3, <2>3 DEF WorkflowInv, CommandsDated
  <2> QED
    BY <1>2, <2>2, <2>4, <2>6, <2>7, CommandKeepsInv
    DEF WorkflowInv, Types, ActionHasTransition
<1> QED BY <1>6, <1>7

\* The action is recorded, of a command whose row is there.
LEMMA ActionKeepsInv ==
  ASSUME WorkflowInv, NEW h \in Handlers, InsertAction(h)
  PROVE  WorkflowInv'
<1> DEFINE c == command[h]
<1> DEFINE b == [action |-> c.action, row |-> c.row]
<1> DEFINE w == [id |-> c.id, at |-> c.at, expected |-> c.expected]
<1>1. c \in Inserting /\ c.step = "action"
  BY CommandShapes DEF WorkflowInv, InsertAction
<1>2. /\ c.row \in recommendation /\ c.row.id = c.id /\ c.row.version = c.at
      /\ c.row.status = NextStatus[c.action]
      /\ c.action = "request_execution" => ApprovedFor(c.row, recommendation)
  BY <1>1 DEF WorkflowInv, InFlight
<1>3. /\ b \in [action : DOMAIN NextStatus, row : Row] /\ b.action = c.action /\ b.row = c.row
      /\ w \in [id : ID, at : Nat, expected : Nat] /\ w.id = c.id /\ w.at = c.at
      /\ c.action \in DOMAIN NextStatus
  BY <1>1, InsertingParts
<1>4. NextStatus[c.action] # "open"
  BY <1>3, ActionsDoNotOpen
<1>5. Effective(w, recommendation)
  BY <1>2, <1>3, <1>4 DEF Effective
<1>6. /\ actions' = actions \cup {b} /\ answered' \in {answered, answered \cup {w}}
      /\ command' = [command EXCEPT ![h] = NoCommand]
      /\ recommendation' = recommendation /\ job' = job /\ clock' = clock
  BY DEF InsertAction
<1>7. clock' \in Nat /\ clock <= clock'
  <2>1. clock \in Nat /\ clock' = clock
    BY <1>6, DatedFacts
  <2> QED BY ONLY <2>1
<1>8. ~Pending(NoCommand) /\ InFlight(NoCommand, recommendation)
  BY DEF Pending, InFlight, NoCommand, Selecting, Inserting
<1> HIDE DEF c, b, w, NoCommand
<1>9. actions' \in SUBSET [action : DOMAIN NextStatus, row : Row]
  BY <1>3, <1>6 DEF WorkflowInv, Types
<1>10. answered' \in SUBSET [id : ID, at : Nat, expected : Nat]
  BY <1>3, <1>6 DEF WorkflowInv, Types
<1>11. \A a \in actions' : /\ a.row \in recommendation
                           /\ a.action = "request_execution" => ApprovedFor(a.row, recommendation)
  BY <1>2, <1>3, <1>6 DEF WorkflowInv, ActionHasTransition
<1>12. \A a \in answered' : Effective(a, recommendation)
  BY <1>5, <1>6 DEF WorkflowInv
<1> QED
  BY <1>6, <1>7, <1>8, <1>9, <1>10, <1>11, <1>12, CommandKeepsInv

\* A command inserts its row, at the instant it took and nobody else holds.
LEMMA InsertKeepsInv ==
  ASSUME WorkflowInv, NEW h \in Handlers, InsertRecommendation(h)
  PROVE  WorkflowInv'
<1> DEFINE c == command[h]
<1> DEFINE x == c.row
<1> DEFINE e == [c EXCEPT !.step = "action"]
<1>1. c \in Inserting /\ c.step = "insert" /\ Pending(c) /\ Types
  BY CommandShapes DEF WorkflowInv, InsertRecommendation, Pending
<1>2. x \in Row /\ c.at \in Nat /\ c.action \in DOMAIN NextStatus /\ recommendation \in SUBSET Row
  BY <1>1, InsertingParts DEF Types
<1>3. /\ recommendation' = recommendation \cup {x} /\ command' = [command EXCEPT ![h] = e]
      /\ actions' = actions /\ job' = job /\ clock' = clock /\ answered' = answered
  BY <1>1 DEF InsertRecommendation, Types
<1>4. /\ e \in Inserting /\ e.step = "action" /\ e.row = x /\ e.id = c.id /\ e.at = c.at
      /\ e.action = c.action
  BY <1>1, NextStepIsInserting
<1>5. /\ x.id = c.id /\ x.version = c.at /\ x.status = NextStatus[c.action]
      /\ c.action = "request_execution" => ApprovedFor(x, recommendation)
  BY <1>1 DEF WorkflowInv, InFlight
<1>6. x.status # "open"
  BY <1>2, <1>5, ActionsDoNotOpen
<1>7. /\ c.at < clock /\ \A r \in recommendation : r.version # c.at
      /\ \A k \in Handlers : Pending(command[k]) /\ command[k].at = c.at => k = h
  BY <1>1 DEF WorkflowInv, CommandsDated
<1> HIDE DEF c, x, e
<1>8. /\ command' \in [Handlers -> {NoCommand} \cup Selecting \cup Inserting]
      /\ command'[h] = e
      /\ \A k \in Handlers : k # h => command'[k] = command[k]
  BY <1>1, <1>3, <1>4, OtherCommands
<1>9. recommendation \subseteq recommendation'
  BY <1>3
<1>10. Types'
  BY <1>1, <1>2, <1>3, <1>8 DEF Types
<1>11. ActionHasTransition'
  BY <1>3, <1>9 DEF WorkflowInv, ActionHasTransition
<1>12. /\ (\A a \in actions : a.action = "request_execution" => ApprovedFor(a.row, recommendation))'
       /\ (\A a \in answered : Effective(a, recommendation))'
  BY <1>3, <1>9, RowsGrow DEF WorkflowInv
<1>13. (\A k \in Handlers : InFlight(command[k], recommendation))'
  <2>1. InFlight(e, recommendation')
    <3>1. c.action = "request_execution" => ApprovedFor(x, recommendation')
      BY <1>5, <1>9, RowsGrow
    <3> QED BY <1>3, <1>4, <1>5, <3>1 DEF InFlight
  <2>2. \A k \in Handlers : InFlight(command[k], recommendation')
    BY <1>9, RowsGrow DEF WorkflowInv
  <2> QED BY <1>8, <2>1, <2>2
<1>14. OpenAsSaved'
  BY <1>3, <1>6 DEF WorkflowInv, OpenAsSaved
<1>15. RowsDated'
  BY SMTT(60), <1>3, <1>5, <1>7, DatedFacts DEF RowsDated
<1>16. CommandsDated'
  <2> SUFFICES ASSUME NEW k \in Handlers, Pending(command'[k])
               PROVE  /\ command'[k].at < clock'
                      /\ \A r \in recommendation' : r.version # command'[k].at
                      /\ \A j \in Handlers : Pending(command'[j])
                                             /\ command'[j].at = command'[k].at => j = k
    BY DEF CommandsDated
  <2>1. ~Pending(e)
    BY <1>4 DEF Pending, Selecting
  <2>2. k # h /\ command'[k] = command[k] /\ Pending(command[k])
    BY <1>8, <2>1
  <2>3. /\ command[k].at < clock /\ \A r \in recommendation : r.version # command[k].at
        /\ \A j \in Handlers : Pending(command[j]) /\ command[j].at = command[k].at => j = k
    BY <2>2 DEF WorkflowInv, CommandsDated
  <2>4. x.version # command[k].at
    BY <1>5, <1>7, <2>2
  <2> QED BY <1>3, <1>8, <2>1, <2>2, <2>3, <2>4
<1>17. HasNewest(recommendation)'
  BY <1>2, <1>3, NewestAfterInsert DEF WorkflowInv
<1> QED BY <1>10, <1>11, <1>12, <1>13, <1>14, <1>15, <1>16, <1>17 DEF WorkflowInv

\* Every step of the job and of the handlers keeps the invariant.
LEMMA WorkflowKeepsInv ==
  ASSUME WorkflowInv, [WorkflowNext]_workflowVars PROVE WorkflowInv'
<1>1. CASE JobGenerates
  <2>1. clock \div Hour \in Int
    BY SMTT(60), WorkflowAssumption DEF WorkflowInv, Types
  <2> QED BY <1>1, <2>1, JobKeepsInv DEF JobGenerates
<1>2. CASE JobFails
  BY <1>2, JobKeepsInv DEF JobFails, NoJob
<1>3. ASSUME NEW found \in SUBSET Targets \ {{}}, JobSaves(found) PROVE WorkflowInv'
  BY <1>3, SaveKeepsInv
<1>4. ASSUME NEW h \in Handlers, NEW id \in IDs, NEW a \in DOMAIN NextStatus,
             NEW e \in 0 .. MaxClock, Receive(h, id, a, e)
      PROVE  WorkflowInv'
  BY <1>4, ReceiveKeepsInv
<1>5. ASSUME NEW h \in Handlers,
             Select(h) \/ InsertRecommendation(h) \/ InsertAction(h) \/ CommandFails(h)
      PROVE  WorkflowInv'
  BY <1>5, SelectKeepsInv, InsertKeepsInv, ActionKeepsInv, FailKeepsInv
<1>6. CASE UNCHANGED workflowVars
  BY <1>6, JobKeepsInv DEF workflowVars, WorkflowInv, Types
<1> QED BY <1>1, <1>2, <1>3, <1>4, <1>5, <1>6 DEF WorkflowNext

\* The invariant, for any number of targets and handlers.
LEMMA WorkflowInvariant == WorkflowSpec => []WorkflowInv
BY WorkflowStarts, WorkflowKeepsInv, PTL DEF WorkflowSpec

\* Whatever insert fails, an action on record has the row it brought: ApplyCommand
\* inserts the row first.
THEOREM ActionsHaveRows == WorkflowSpec => []ActionHasTransition
<1>1. WorkflowInv => ActionHasTransition
  BY DEF WorkflowInv
<1> QED BY <1>1, WorkflowInvariant, PTL

\* However many commands and job runs interleave, the executor is handed only what
\* was approved, with the configuration that was approved.
THEOREM ExecutionsWereApproved == WorkflowSpec => []ExecutesWhatWasApproved
<1>1. WorkflowInv => ExecutesWhatWasApproved
  BY DEF WorkflowInv, ExecutesWhatWasApproved, ApprovedFor
<1> QED BY <1>1, WorkflowInvariant, PTL

\* The query service goes on showing a command that was answered with success, or
\* something newer; open again only what the job has saved since.
THEOREM AnswersStayVisible == WorkflowSpec => []AnsweredIsVisible
<1>1. ASSUME WorkflowInv PROVE AnsweredIsVisible
  <2> SUFFICES ASSUME NEW a \in answered
               PROVE  /\ \E r \in GetRecommendation(a.id) :
                           r.version >= a.at /\ GetRecommendation(a.id) = {r}
                      /\ \A r \in ListRecommendations("open") :
                           r.id = a.id => r.version > a.at /\ r.version = r.generated
    BY DEF AnsweredIsVisible
  <2>0. a.at \in Nat /\ \A r \in recommendation : r.version \in Nat
    BY <1>1 DEF WorkflowInv, Types, Row
  <2>1. PICK q \in recommendation : q.id = a.id /\ q.version = a.at /\ q.status # "open"
    BY <1>1 DEF WorkflowInv, Effective
  <2>2. PICK r \in recommendation : r.id = a.id /\ Newest(r, recommendation)
    BY <1>1, <2>1 DEF WorkflowInv, HasNewest
  <2>3. r \in GetRecommendation(a.id) /\ r.version >= a.at
    BY <2>0, <2>1, <2>2 DEF GetRecommendation, RowsOf, IsCurrent, Newest
  <2>4. ASSUME NEW s \in recommendation, s.id = a.id, IsCurrent(s) PROVE s = r
    <3>1. s.version <= r.version /\ r.version <= s.version
      BY <2>2, <2>4 DEF IsCurrent, RowsOf, Newest
    <3>2. s.version = r.version
      BY <2>0, <3>1
    <3> QED BY <1>1, <2>2, <2>4, <3>2 DEF WorkflowInv, RowsDated
  <2>5. GetRecommendation(a.id) = {r}
    BY <2>3, <2>4 DEF GetRecommendation, RowsOf
  <2>6. ASSUME NEW s \in ListRecommendations("open"), s.id = a.id
        PROVE  s.version > a.at /\ s.version = s.generated
    <3>1. s \in recommendation /\ s.status = "open" /\ q.version <= s.version
      BY <2>1, <2>6 DEF ListRecommendations, RecommendationsWhere, IsCurrent, RowsOf
    <3>2. s.version # q.version
      BY <1>1, <2>1, <2>6, <3>1 DEF WorkflowInv, RowsDated
    <3> QED BY <1>1, <2>0, <2>1, <3>1, <3>2 DEF WorkflowInv, OpenAsSaved
  <2> QED BY <2>3, <2>5, <2>6
<1> QED BY <1>1, WorkflowInvariant, PTL

\* A run of the job adds rows to no recommendation of another analysis window.
THEOREM LaterRunsKeepDecisions == WorkflowSpec => DecisionsSurviveLaterRuns
<1>1. ASSUME [WorkflowNext]_workflowVars, NEW id \in IDs, job # NoJob, job' = NoJob, id.window # job
      PROVE  RowsOf(id)' = RowsOf(id)
  <2>1. CASE recommendation' = recommendation
    BY <2>1 DEF RowsOf
  <2>2. ASSUME NEW found \in SUBSET Targets, JobSaves(found) PROVE RowsOf(id)' = RowsOf(id)
    <3>1. \A t \in found : Fact(RecommendationID(t, job), clock).id.window = job
      BY DEF Fact, RecommendationID
    <3> QED BY SMTT(60), <1>1, <2>2, <3>1 DEF JobSaves, RowsOf
  <2>3. recommendation' = recommendation \/ \E found \in SUBSET Targets : JobSaves(found)
    BY <1>1 DEF WorkflowNext, workflowVars, JobGenerates, JobFails, Receive, Select,
                InsertRecommendation, InsertAction, CommandFails
  <2> QED BY <2>1, <2>2, <2>3
<1>2. [WorkflowNext]_workflowVars =>
        [\A id \in IDs : job # NoJob /\ job' = NoJob /\ id.window # job
                         => RowsOf(id)' = RowsOf(id)]_workflowVars
  BY <1>1
<1> QED BY <1>2, PTL DEF WorkflowSpec, DecisionsSurviveLaterRuns
-----------------------------------------------------------------------------
(* Pricing: the tables of imported prices and charges. *)

\* Of the numbers up to n that are in S there is a last.
LEMMA LastOf ==
  ASSUME NEW n \in Nat, NEW S \in SUBSET (1 .. n), NEW s \in S
  PROVE  \E m \in S : \A k \in S : k <= m
<1> DEFINE Below == {d \in Nat : n - d \in S}
<1>1. n - s \in Below
  BY SMTT(60)
<1>2. PICK d \in Below : \A e \in Below : ~(<<e, d>> \in OpToRel(<, Nat))
  BY <1>1, WFMin, NatLessThanWellFounded
<1>3. ASSUME NEW k \in S PROVE k <= n - d
  <2>1. n - k \in Below
    BY SMTT(60)
  <2>2. ~(<<n - k, d>> \in OpToRel(<, Nat))
    BY <1>2, <2>1
  <2>3. d \in Nat /\ n - k \in Nat
    BY <1>2, <2>1
  <2>4. ~(n - k < d)
    BY <2>2, <2>3 DEF OpToRel
  <2> QED BY SMTT(60), <2>3, <2>4
<1> QED BY <1>2, <1>3

\* The rows of a table are the items of the requests that were accepted.
LEMMA RowsAreAccepted ==
  ASSUME NEW table, NEW imports
  PROVE  /\ \A r \in TableRows(table, imports) :
              \E i \in Accepted(table, imports) : \E k \in DOMAIN imports[i] :
                r = [item |-> imports[i][k], version |-> i, position |-> k]
         /\ \A i \in Accepted(table, imports) : \A k \in DOMAIN imports[i] :
              [item |-> imports[i][k], version |-> i, position |-> k] \in TableRows(table, imports)
BY DEF TableRows, AcceptedItems, Accepted

\* Of the rows accepted for a key the current one is the last.
LEMMA CurrentIsLast ==
  ASSUME NEW table, NEW Item, NEW imports \in Seq(Seq(Item)),
         NEW r \in CurrentRows(table, imports)
  PROVE  /\ r.version \in Accepted(table, imports)
         /\ r.position \in DOMAIN imports[r.version]
         /\ r.item = imports[r.version][r.position]
         /\ r = [item |-> r.item, version |-> r.version, position |-> r.position]
         /\ r.version \in Nat /\ r.position \in Nat
         /\ IsLast(table, imports, r.version, r.position)
<1>1. /\ r \in TableRows(table, imports)
      /\ ~\E s \in TableRows(table, imports) :
            RowKey(table, s.item) = RowKey(table, r.item) /\ Supersedes(s, r)
  BY DEF CurrentRows, Final
<1>7. PICK i \in Accepted(table, imports) : \E k \in DOMAIN imports[i] :
        r = [item |-> imports[i][k], version |-> i, position |-> k]
  BY <1>1, RowsAreAccepted
<1>2. PICK k \in DOMAIN imports[i] :
        r = [item |-> imports[i][k], version |-> i, position |-> k]
  BY <1>7
<1>3. r.item = imports[i][k] /\ r.version = i /\ r.position = k
  BY <1>2
<1>4. ASSUME NEW j \in Accepted(table, imports), NEW m \in DOMAIN imports[j]
      PROVE  j \in Nat /\ m \in Nat
  <2>1. j \in DOMAIN imports
    BY DEF Accepted
  <2>2. j \in 1 .. Len(imports) /\ imports[j] \in Seq(Item)
    BY SMTT(60), <2>1
  <2>3. m \in 1 .. Len(imports[j])
    BY SMTT(60), <2>2
  <2> QED BY SMTT(60), <2>2, <2>3
<1>5. ASSUME NEW j \in Accepted(table, imports), NEW m \in DOMAIN imports[j],
             RowKey(table, imports[j][m]) = RowKey(table, imports[i][k])
      PROVE  j < i \/ (j = i /\ m <= k)
  <2> DEFINE s == [item |-> imports[j][m], version |-> j, position |-> m]
  <2>1. s \in TableRows(table, imports)
    BY RowsAreAccepted
  <2>2. s.item = imports[j][m] /\ s.version = j /\ s.position = m
    OBVIOUS
  <2>3. ~Supersedes(s, r)
    BY <1>1, <1>3, <1>5, <2>1, <2>2
  <2>4. ~(j > i) /\ ~(j = i /\ m > k)
    BY <2>2, <2>3, <1>3 DEF Supersedes
  <2>5. j \in Nat /\ m \in Nat /\ i \in Nat /\ k \in Nat
    BY <1>4
  <2> QED BY SMTT(60), <2>4, <2>5
<1>6. IsLast(table, imports, i, k)
  BY <1>5 DEF IsLast
<1> QED BY <1>2, <1>3, <1>4, <1>6

\* Every accepted item has a current row of its key.
LEMMA CurrentHasKey ==
  ASSUME NEW table, NEW Item, NEW imports \in Seq(Seq(Item)),
         NEW i \in Accepted(table, imports), NEW k \in DOMAIN imports[i]
  PROVE  \E r \in CurrentRows(table, imports) :
           RowKey(table, r.item) = RowKey(table, imports[i][k])
<1> DEFINE Key == RowKey(table, imports[i][k])
           Same(j) == {m \in DOMAIN imports[j] : RowKey(table, imports[j][m]) = Key}
           Requests == {j \in Accepted(table, imports) : Same(j) # {}}
<1>1. ASSUME NEW j \in Accepted(table, imports)
      PROVE  /\ j \in 1 .. Len(imports)
             /\ imports[j] \in Seq(Item)
             /\ Len(imports[j]) \in Nat
             /\ Same(j) \in SUBSET (1 .. Len(imports[j]))
  <2>1. j \in DOMAIN imports
    BY DEF Accepted
  <2> QED BY SMTT(60), <2>1
<1>2. Len(imports) \in Nat /\ Requests \in SUBSET (1 .. Len(imports)) /\ i \in Requests
  <2>1. Len(imports) \in Nat
    BY SMTT(60)
  <2>2. k \in Same(i)
    OBVIOUS
  <2> QED BY <1>1, <2>1, <2>2
<1> HIDE DEF Requests
<1>3. PICK j \in Requests : \A e \in Requests : e <= j
  BY <1>2, LastOf
<1>4. j \in Accepted(table, imports) /\ Same(j) # {}
  BY DEF Requests
<1>5. PICK any \in Same(j) : TRUE
  BY <1>4
<1>6. Len(imports[j]) \in Nat /\ Same(j) \in SUBSET (1 .. Len(imports[j]))
  BY <1>1, <1>4
<1> DEFINE positions == Same(j)
           length == Len(imports[j])
<1>7. length \in Nat /\ positions \in SUBSET (1 .. length) /\ any \in positions
  BY <1>5, <1>6
<1> HIDE DEF positions, length
<1>8. PICK m \in positions : \A e \in positions : e <= m
  BY <1>7, LastOf
<1> DEFINE r == [item |-> imports[j][m], version |-> j, position |-> m]
<1>9. /\ m \in DOMAIN imports[j] /\ RowKey(table, imports[j][m]) = Key
      /\ \A e \in DOMAIN imports[j] : RowKey(table, imports[j][e]) = Key => e <= m
  BY <1>8 DEF positions
<1>10. r \in TableRows(table, imports)
  BY <1>4, <1>9, RowsAreAccepted
<1>11. r.item = imports[j][m] /\ r.version = j /\ r.position = m
  OBVIOUS
<1>12. ASSUME NEW s \in TableRows(table, imports), RowKey(table, s.item) = RowKey(table, r.item),
              Supersedes(s, r)
       PROVE  FALSE
  <2>1. PICK a \in Accepted(table, imports) : \E b \in DOMAIN imports[a] :
          s = [item |-> imports[a][b], version |-> a, position |-> b]
    BY RowsAreAccepted
  <2>2. PICK b \in DOMAIN imports[a] : s = [item |-> imports[a][b], version |-> a, position |-> b]
    BY <2>1
  <2>3. s.item = imports[a][b] /\ s.version = a /\ s.position = b
    BY <2>2
  <2>4. b \in Same(a)
    BY <2>2, <2>3, <1>9, <1>11, <1>12
  <2>5. a \in Requests
    BY <2>4 DEF Requests
  <2>6. a <= j
    BY <1>3, <2>5
  <2>7. a \in Nat /\ j \in Nat /\ m \in Nat /\ b \in Nat
    <3>1. a \in 1 .. Len(imports) /\ j \in 1 .. Len(imports)
      BY <1>1, <1>4
    <3>2. b \in 1 .. Len(imports[a]) /\ m \in 1 .. length
      BY <2>4, <1>1, <1>7
    <3> QED BY SMTT(60), <3>1, <3>2
  <2>8. a > j \/ (a = j /\ b > m)
    BY <1>11, <1>12, <2>3 DEF Supersedes
  <2>9. a = j => b <= m
    BY <1>9, <2>2, <2>4
  <2> QED BY SMTT(60), <2>6, <2>7, <2>8, <2>9
<1>13. r \in CurrentRows(table, imports)
  BY <1>10, <1>12 DEF CurrentRows, Final
<1> QED BY <1>9, <1>11, <1>13

\* importBillingCharges: a charge counts once and is not lost.
LEMMA ChargesOnce ==
  ASSUME NEW imports \in Seq(Seq(BillingChargeInput))
  PROVE  ChargesCountOnce(imports)
<1>1. ASSUME NEW x, NEW y
      PROVE  RowKey("charges", x) = RowKey("charges", y) <=>
               x.account = y.account /\ x.period = y.period /\ x.id = y.id
  BY Zenon DEF RowKey, ChargeKey
<1>2. ASSUME NEW a \in Charges(imports), NEW b \in Charges(imports),
             a.item.id = b.item.id, a.item.account = b.item.account, a.item.period = b.item.period
      PROVE  a = b
  <2>1. RowKey("charges", a.item) = RowKey("charges", b.item)
    BY <1>1, <1>2
  <2>2. /\ a.version \in Accepted("charges", imports) /\ a.position \in DOMAIN imports[a.version]
        /\ a.item = imports[a.version][a.position]
        /\ a = [item |-> a.item, version |-> a.version, position |-> a.position]
        /\ a.version \in Nat /\ a.position \in Nat
        /\ IsLast("charges", imports, a.version, a.position)
    BY CurrentIsLast DEF Charges
  <2>3. /\ b.version \in Accepted("charges", imports) /\ b.position \in DOMAIN imports[b.version]
        /\ b.item = imports[b.version][b.position]
        /\ b = [item |-> b.item, version |-> b.version, position |-> b.position]
        /\ b.version \in Nat /\ b.position \in Nat
        /\ IsLast("charges", imports, b.version, b.position)
    BY CurrentIsLast DEF Charges
  <2>4. b.version < a.version \/ (b.version = a.version /\ b.position <= a.position)
    BY <2>1, <2>2, <2>3 DEF IsLast
  <2>5. a.version < b.version \/ (a.version = b.version /\ a.position <= b.position)
    BY <2>1, <2>2, <2>3 DEF IsLast
  <2>6. a.version = b.version /\ a.position = b.position
    BY SMTT(60), <2>2, <2>3, <2>4, <2>5
  <2> QED BY <2>2, <2>3, <2>6
<1>3. ASSUME NEW i \in Accepted("charges", imports), NEW k \in DOMAIN imports[i]
      PROVE  \E r \in Charges(imports) : r.item.id = imports[i][k].id
  <2>1. PICK r \in CurrentRows("charges", imports) :
          RowKey("charges", r.item) = RowKey("charges", imports[i][k])
    BY CurrentHasKey
  <2> QED BY <1>1, <2>1 DEF Charges
<1> QED BY <1>2, <1>3 DEF ChargesCountOnce

\* effectiveCatalogPrice: the price found is in effect, the last accepted for its
\* interval, and the caller's own where there is one.
LEMMA PriceFound ==
  ASSUME NEW imports \in Seq(Seq(CatalogPriceInput)), NEW asked \in EffectivePriceRequest, NEW now \in Nat
  PROVE  PriceIsInEffect(imports, asked, now)
<1> DEFINE q == [asked EXCEPT !.at = IF asked.at = 0 THEN now ELSE @]
<1>1. ASSUME NEW r \in LookedUp(imports, asked, now)
      PROVE  r \in EffectiveCatalogPrice(imports, q)
  <2>1. PICK p \in EffectivePriceQueries(asked, now) : r \in EffectiveCatalogPrice(imports, p)
    BY DEF LookedUp
  <2>2. p = q
    BY Zenon, <2>1 DEF EffectivePriceQueries
  <2> QED BY <2>1, <2>2
<1>2. q.at \in Nat
  BY DEF EffectivePriceRequest
<1> HIDE DEF q
<1>3. ASSUME NEW r \in LookedUp(imports, asked, now)
      PROVE  /\ r.item.start <= q.at /\ (r.item.end = NoEnd \/ q.at < r.item.end)
             /\ r.version \in Accepted("prices", imports)
             /\ IsLast("prices", imports, r.version, r.position)
             /\ r.item.account # q.account =>
                  ~\E s \in CurrentRows("prices", imports) :
                     Matches(s.item, q) /\ s.item.account = q.account /\ s.item.sku = q.sku
  <2>1. /\ r \in CurrentRows("prices", imports) /\ Matches(r.item, q)
        /\ ~\E s \in CurrentRows("prices", imports) : Matches(s.item, q) /\ Ranks(s, r, q)
    BY <1>1 DEF EffectiveCatalogPrice
  <2>2. /\ r.version \in Accepted("prices", imports)
        /\ r.position \in DOMAIN imports[r.version]
        /\ r.item = imports[r.version][r.position]
        /\ IsLast("prices", imports, r.version, r.position)
    BY <2>1, CurrentIsLast
  <2>3. r.item \in CatalogPriceInput
    <3>1. r.version \in DOMAIN imports
      BY <2>2 DEF Accepted
    <3>2. imports[r.version] \in Seq(CatalogPriceInput)
      BY SMTT(60), <3>1
    <3> QED BY SMTT(60), <2>2, <3>2
  <2>4. r.item.start <= q.at /\ (r.item.end = NoEnd \/ r.item.end > q.at)
    BY Zenon, <2>1 DEF Matches
  <2>5. r.item.end = NoEnd \/ q.at < r.item.end
    BY SMTT(60), <1>2, <2>3, <2>4 DEF CatalogPriceInput
  <2>6. ASSUME r.item.account # q.account, NEW s \in CurrentRows("prices", imports),
               Matches(s.item, q), s.item.account = q.account, s.item.sku = q.sku
        PROVE  FALSE
    <3>1. Score(s.item, q) > Score(r.item, q)
      BY SMTT(60), <2>6 DEF Score
    <3> QED BY <2>1, <2>6, <3>1 DEF Ranks
  <2> QED BY <2>2, <2>4, <2>5, <2>6
<1> QED BY <1>3 DEF PriceIsInEffect, q
-----------------------------------------------------------------------------
(* IngestionAuth. *)

\* Of the URIs of a certificate at most one is the first that is an identity.
LEMMA IdentityIsOne ==
  ASSUME NEW peer, NEW n \in Nat, DOMAIN peer.uris = 1 .. n,
         NEW a \in CertificateIdentity(peer), NEW b \in CertificateIdentity(peer)
  PROVE  a = b
<1> DEFINE First(i) == IsIdentityURI(peer.uris[i])
                         /\ \A k \in 1..(i - 1) : ~IsIdentityURI(peer.uris[k])
<1>1. PICK i \in 1 .. n : First(i) /\ a = <<peer.uris[i].parts[2], peer.uris[i].parts[4]>>
  BY DEF CertificateIdentity
<1>2. PICK j \in 1 .. n : First(j) /\ b = <<peer.uris[j].parts[2], peer.uris[j].parts[4]>>
  BY DEF CertificateIdentity
<1>3. i \notin 1..(j - 1) /\ j \notin 1..(i - 1)
  BY <1>1, <1>2
<1>4. i = j
  BY SMTT(60), <1>3
<1> QED BY <1>1, <1>2, <1>4

\* The identity names a tenant and a cluster.
LEMMA IdentityIsNamed ==
  ASSUME NEW peer, NEW a \in CertificateIdentity(peer)
  PROVE  a[1] # "" /\ a[2] # ""
<1>1. PICK i \in DOMAIN peer.uris :
        /\ IsIdentityURI(peer.uris[i])
        /\ a = <<peer.uris[i].parts[2], peer.uris[i].parts[4]>>
  BY Zenon DEF CertificateIdentity
<1>2. peer.uris[i].parts[2] # "" /\ peer.uris[i].parts[4] # ""
  BY Zenon, <1>1 DEF IsIdentityURI
<1> QED BY Zenon, <1>1, <1>2

\* MTLSAuthenticator: a certificate is good for one cluster.
LEMMA CertificateHasOneCluster ==
  ASSUME NEW peer, NEW n \in Nat, DOMAIN peer.uris = 1 .. n, NEW agents
  PROVE  OneIdentityPerCertificate(peer, agents)
<1> SUFFICES ASSUME NEW a \in agents, NEW b \in agents,
                    Authenticate(FALSE, peer, a), Authenticate(FALSE, peer, b)
             PROVE  a.tenant = b.tenant /\ a.cluster = b.cluster /\ a.tenant # "" /\ a.cluster # ""
  BY Zenon DEF OneIdentityPerCertificate
<1> DEFINE x == <<a.tenant, a.cluster>>
           y == <<b.tenant, b.cluster>>
<1>1. x \in CertificateIdentity(peer) /\ y \in CertificateIdentity(peer)
  BY Zenon DEF Authenticate, AuthenticateMTLS
<1>2. x[1] = a.tenant /\ x[2] = a.cluster /\ y[1] = b.tenant /\ y[2] = b.cluster
  OBVIOUS
<1> HIDE DEF x, y
<1>3. x = y
  BY <1>1, IdentityIsOne
<1>4. x[1] # "" /\ x[2] # ""
  BY Zenon, <1>1, IdentityIsNamed
<1> QED BY Zenon, <1>2, <1>3, <1>4
=============================================================================
