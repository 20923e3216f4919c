---------------------------- MODULE Rightsizing ----------------------------
(***************************************************************************)
(* The recommendation engine (services/recommendations/engine.go) for the   *)
(* hourly samples of one container, oldest first.  A sample is              *)
(* [seconds, cpu, memory, cpuRequest, memoryRequest], the last four summed  *)
(* over the seconds; limits follow from requests.  Factors are percentages, *)
(* and money is in units in which every rate is an integer: rounding of     *)
(* floating-point numbers is left out.                                      *)
(***************************************************************************)
EXTENDS Integers, Sequences, SequencesExt, FiniteSets

CONSTANTS MinimumSampleCount,
          CPURequestHeadroom, MemoryRequestHeadroom,   \* percent
          CPULimitMultiplier, MemoryLimitMultiplier,   \* percent
          MinCPU, MinMemory, CPURate, MemoryRate

\* normalizeConfig: what is not positive takes its default, which is positive.
NormalizedConfig ==
  {MinimumSampleCount, CPURequestHeadroom, MemoryRequestHeadroom, CPULimitMultiplier,
   MemoryLimitMultiplier, MinCPU, MinMemory, CPURate, MemoryRate} \subseteq Nat \ {0}

ASSUME EngineConfigAssumption == NormalizedConfig

CeilDiv(value, divisor) == IF value = 0 THEN 0 ELSE (value - 1) \div divisor + 1

\* averageMillicores and averageBytes.
Average(total, seconds) == IF seconds = 0 THEN 0 ELSE CeilDiv(total, seconds)

Greater(a, b) == IF a > b THEN a ELSE b

\* Fault variant: the rank is rounded down.
PercentileBelow(values, quantile) ==
  LET sorted == SortSeq(values, <)
      rank == (quantile * Len(values)) \div 100
  IN  IF values = <<>> THEN 0 ELSE sorted[IF rank < 1 THEN 1 ELSE rank]

\* Nearest rank; the index is kept within the values.
Percentile(values, quantile) ==
  LET sorted == SortSeq(values, <)
      rank == CeilDiv(quantile * Len(values), 100)
  IN  IF values = <<>> THEN 0
      ELSE sorted[IF rank < 1 THEN 1 ELSE IF rank > Len(values) THEN Len(values) ELSE rank]

\* Generate drops samples without a duration before it groups them by target.
Usable(samples) == SelectSeq(samples, LAMBDA s : s.seconds # 0)

Averages(samples, field) ==
  [i \in DOMAIN samples |-> Average(samples[i][field], samples[i].seconds)]

CPU(samples) == Averages(samples, "cpu")
Memory(samples) == Averages(samples, "memory")

\* currentConfiguration: the newest value that is not zero.
Current(samples, field) ==
  LET values == Averages(samples, field)
      set == {i \in DOMAIN values : values[i] # 0}
  IN  IF set = {} THEN 0 ELSE values[CHOOSE i \in set : \A j \in set : j <= i]

Requested(minimum, usage, headroom) == Greater(minimum, CeilDiv(usage * headroom, 100))

Limit(request, multiplier) == Greater(request, CeilDiv(request * multiplier, 100))

PositiveDelta(current, recommended) == IF current <= recommended THEN 0 ELSE current - recommended

EstimatedMonthlySavings(r) ==
  PositiveDelta(r.currentCPU, r.cpu) * CPURate + PositiveDelta(r.currentMemory, r.memory) * MemoryRate

\* The record recommend fills in, before its last check.
Candidate(samples) ==
  LET cpu == Requested(MinCPU, Percentile(CPU(samples), 95), CPURequestHeadroom)
      memory == Requested(MinMemory, Percentile(Memory(samples), 99), MemoryRequestHeadroom)
  IN  [currentCPU |-> Current(samples, "cpuRequest"),
       currentMemory |-> Current(samples, "memoryRequest"),
       cpu |-> cpu, memory |-> memory,
       cpuLimit |-> Limit(cpu, CPULimitMultiplier),
       memoryLimit |-> Limit(memory, MemoryLimitMultiplier)]

\* recommend returns a recommendation.
Recommends(samples) ==
  LET r == Candidate(samples)
  IN  /\ Len(samples) >= MinimumSampleCount
      /\ r.currentCPU # 0 /\ r.currentMemory # 0
      /\ Percentile(CPU(samples), 95) # 0 \/ Percentile(Memory(samples), 99) # 0
      /\ EstimatedMonthlySavings(r) > 0
-----------------------------------------------------------------------------
AtMost(values, v) == Cardinality({i \in DOMAIN values : values[i] <= v})

\* The requests recommended for a container would have covered 95% of its
\* hours of CPU and 99% of its hours of memory, whatever the order of the
\* samples and the gaps in them, and its limits are no lower (percentile,
\* currentConfiguration and recommend).
RecommendationCoversUsage(all) ==
  LET samples == Usable(all)
      r == Candidate(samples)
  IN  Recommends(samples) =>
        /\ 100 * AtMost(CPU(samples), r.cpu) >= 95 * Len(samples)
        /\ 100 * AtMost(Memory(samples), r.memory) >= 99 * Len(samples)
        /\ r.cpuLimit >= r.cpu /\ r.memoryLimit >= r.memory
        /\ r.cpu < r.currentCPU \/ r.memory < r.currentMemory

\* The nearest-rank percentile is the least of the values that at least the
\* given share of them does not exceed.
PercentileIsNearestRank(values, quantile) ==
  values # <<>> =>
    LET p == Percentile(values, quantile)
    IN  /\ p \in Range(values)
        /\ 100 * AtMost(values, p) >= quantile * Len(values)
        /\ \A v \in Range(values) : v < p => 100 * AtMost(values, v) < quantile * Len(values)
=============================================================================
