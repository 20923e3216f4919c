--------------------------- MODULE MetricsSampler ---------------------------
(***************************************************************************)
(* The agent's metrics sampler (agent/metrics/sampler.go): a ticker whose   *)
(* channel holds one tick, and a loop that takes a sample when it receives  *)
(* one.  A sample reads the pods, the kubelet summaries and the metrics API *)
(* one after the other, each of which may fail or be slow, and publishes    *)
(* what was measured for the window of Interval that ends when it began.    *)
(*                                                                          *)
(* One pod with one container stands for all, and so does one node; pods,   *)
(* containers and nodes do not affect each other's samples, except that     *)
(* summaries without any container matter to UsageFails.                    *)
(***************************************************************************)
EXTENDS Integers, Sequences

CONSTANTS Interval,     \* config.Interval
          MaxTime,      \* bound of the clock
          NoTick        \* the ticker's channel is empty

ASSUME IntervalAssumption == Interval \in Nat \ {0} /\ MaxTime \in Nat /\ NoTick \notin Int

VARIABLES elapsed,      \* the time
          nextTick,     \* when the ticker fires next
          tick,         \* the tick in the ticker's channel, by its time, or NoTick
          windows,      \* the ends of the windows sampled, oldest first
          sample,       \* the sample under way or, when idle, the last one
          observed      \* what the sample has published: kind and quality of each

samplerVars == <<elapsed, nextTick, tick, windows, sample, observed>>

\* A sample that begins: no spec, nothing measured.
Begun ==
  [phase |-> "specs", specs |-> FALSE, entry |-> FALSE, cpu |-> FALSE,
   memory |-> FALSE, node |-> {}, todo |-> {}]

\* NewSampler and the beginning of Start: the first sample needs no tick.
SamplerInit ==
  /\ elapsed = 0 /\ nextTick = Interval /\ tick = NoTick
  /\ windows = <<0>> /\ sample = Begun /\ observed = {}

\* time.Ticker: a tick that finds the channel full is dropped.
Fire ==
  /\ elapsed >= nextTick
  /\ tick' = IF tick = NoTick THEN nextTick ELSE tick
  /\ nextTick' = nextTick + Interval
  /\ UNCHANGED <<elapsed, windows, sample, observed>>

\* Time passes; the runtime fires a ticker that is due first.
Pass ==
  /\ elapsed < MaxTime /\ elapsed < nextTick
  /\ elapsed' = elapsed + 1
  /\ UNCHANGED <<nextTick, tick, windows, sample, observed>>

\* Fault variant: the loop does not take the tick out of the channel.
BeginAgain ==
  /\ sample.phase = "idle" /\ tick # NoTick
  /\ windows' = Append(windows, elapsed) /\ sample' = Begun
  /\ observed' = {}
  /\ UNCHANGED <<elapsed, nextTick, tick>>

\* The loop of Start receives a tick and calls Sample.
BeginSample ==
  /\ sample.phase = "idle" /\ tick # NoTick
  /\ tick' = NoTick
  /\ windows' = Append(windows, elapsed) /\ sample' = Begun /\ observed' = {}
  /\ UNCHANGED <<elapsed, nextTick>>

Goes(phase) == sample' = [sample EXCEPT !.phase = phase]

\* specs: the list of pods fails, or the pod runs, or it has finished.
ReadSpecs ==
  /\ sample.phase = "specs"
  /\ \/ Goes("idle")
     \/ \E running \in BOOLEAN : sample' = [sample EXCEPT !.phase = "summary", !.specs = running]
  /\ UNCHANGED <<elapsed, nextTick, tick, windows, observed>>

\* summary: an error is logged and leaves nothing; a summary may have measured
\* the node (fully or in part) and list the container, with its memory or not.
ReadSummary ==
  /\ sample.phase = "summary"
  /\ \/ Goes("usage")
     \/ \E node \in {{}, {"PARTIAL"}, {"COMPLETE"}}, entry, memory \in BOOLEAN :
          /\ memory => entry
          /\ sample' = [sample EXCEPT !.phase = "usage", !.node = node, !.entry = entry,
                                      !.memory = memory]
  /\ UNCHANGED <<elapsed, nextTick, tick, windows, observed>>

\* event and nodeEvent: what is published of a sample.
ContainerQuality(s) == IF s.cpu /\ s.memory THEN "COMPLETE" ELSE "PARTIAL"

Todo(s) == (IF s.specs /\ s.entry THEN {"container"} ELSE {})
           \cup (IF s.node # {} THEN {"node"} ELSE {})

Publishes(s) == sample' = [s EXCEPT !.phase = "publish", !.todo = Todo(s)]

\* Fault variant: without the metrics API there is no sample.
FailsWithoutMetrics(s) == TRUE

\* usage returns an error: the metrics API failed and the summaries list no
\* container.
UsageFails(s) == ~s.entry

\* usage: what the metrics API measured replaces what the summaries did.
ReadUsage ==
  /\ sample.phase = "usage"
  /\ \/ IF UsageFails(sample) THEN Goes("idle") ELSE Publishes(sample)
     \/ Publishes(sample)
     \/ \E cpu, memory \in BOOLEAN :
          Publishes([sample EXCEPT !.entry = TRUE, !.cpu = cpu, !.memory = @ \/ memory])
  /\ UNCHANGED <<elapsed, nextTick, tick, windows, observed>>

\* One call of Publish: containers come first.  It waits while the buffer is
\* full, which is time passing.
PublishSample ==
  /\ sample.phase = "publish" /\ sample.todo # {}
  /\ LET kind == IF "container" \in sample.todo THEN "container" ELSE "node"
         quality == IF kind = "node" THEN sample.node ELSE {ContainerQuality(sample)}
     IN  /\ observed' = observed \cup
                          {[kind |-> kind, quality |-> q] : q \in quality}
         /\ sample' = [sample EXCEPT !.todo = @ \ {kind}]
  /\ UNCHANGED <<elapsed, nextTick, tick, windows>>

SampleDone ==
  /\ sample.phase = "publish" /\ sample.todo = {}
  /\ Goes("idle")
  /\ UNCHANGED <<elapsed, nextTick, tick, windows, observed>>

\* The context ends: Publish, a read or the loop returns.
StopSampler ==
  /\ sample.phase # "stopped"
  /\ Goes("stopped")
  /\ UNCHANGED <<elapsed, nextTick, tick, windows, observed>>

SamplerNext ==
  Fire \/ Pass \/ BeginSample \/ ReadSpecs \/ ReadSummary \/ ReadUsage \/ PublishSample
  \/ SampleDone \/ StopSampler

SamplerSpec == SamplerInit /\ [][SamplerNext]_samplerVars
-----------------------------------------------------------------------------
\* However slow the sources and the buffer are, no instant is sampled by more
\* than two windows: the ticker drops the ticks a slow sample misses, so a
\* window begins no earlier than the end of the last but one before it, and
\* what containers used is at most counted twice.
AtMostTwoWindows ==
  \A i \in 1..(Len(windows) - 2) : windows[i + 2] - Interval >= windows[i]

\* A sample that ran to its end published the container of a running pod if any
\* of its sources measured it, the other one failing or not; and it is called
\* complete only if both measurements are there.
MeasuredIsPublished ==
  sample.phase = "idle" /\ sample.specs /\ (sample.cpu \/ sample.memory) =>
    \E o \in observed :
      o.kind = "container" /\ (o.quality = "COMPLETE" => sample.cpu /\ sample.memory)
=============================================================================
