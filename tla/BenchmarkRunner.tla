-------------------------- MODULE BenchmarkRunner --------------------------
(***************************************************************************)
(* BenchmarkRunner::run of OpenMachineLab (src/benchmark/Benchmark.cpp):   *)
(* warm-up calls, measured calls, and the statistics of their latencies.   *)
(* Durations are small integers, percentiles are in hundredths.            *)
(***************************************************************************)
EXTENDS Integers, Sequences, FiniteSets, Functions

CONSTANTS
  MaxRuns,    \* bound of warmup_runs and measured_runs
  Durations   \* how long a call of the pipeline or the frame source may take

ASSUME BenchmarkAssumption == MaxRuns \in Nat /\ Durations \subseteq Nat

VARIABLES
  step,           \* "idle", "warmup", "measured" or "done"
  warmup_left,    \* warm-up runs that are left
  measured_runs,
  latencies,      \* in the order of the calls
  total_time,     \* total_watch, with the time that frame_source takes
  statistics      \* the result, zeros before

benchmark == <<step, warmup_left, measured_runs, latencies, total_time, statistics>>

NoStatistics == [min |-> 0, max |-> 0, mean |-> <<0, 1>>, p50 |-> 0, p90 |-> 0, p99 |-> 0]

BenchmarkInit ==
  /\ step = "idle" /\ warmup_left = 0 /\ measured_runs = 0
  /\ latencies = <<>> /\ total_time = 0 /\ statistics = NoStatistics

\* run() with a pipeline and a frame source.
BenchmarkBegin(warmup, measured) ==
  /\ step \in {"idle", "done"}
  /\ step' = "warmup" /\ warmup_left' = warmup /\ measured_runs' = measured
  /\ latencies' = <<>> /\ total_time' = 0 /\ statistics' = NoStatistics

WarmUp ==
  /\ step = "warmup" /\ warmup_left > 0
  /\ warmup_left' = warmup_left - 1
  /\ UNCHANGED <<step, measured_runs, latencies, total_time, statistics>>

MeasuredBegin ==
  /\ step = "warmup" /\ warmup_left = 0
  /\ step' = "measured"
  /\ UNCHANGED <<warmup_left, measured_runs, latencies, total_time, statistics>>

\* frame_source() and the pipeline.
Measure(source, ms) ==
  /\ step = "measured" /\ Len(latencies) < measured_runs
  /\ latencies' = Append(latencies, ms)
  /\ total_time' = total_time + source + ms
  /\ UNCHANGED <<step, warmup_left, measured_runs, statistics>>

\* What a stage or the frame source throws leaves run().
CallThrows ==
  /\ \/ step = "warmup" /\ warmup_left > 0
     \/ step = "measured" /\ Len(latencies) < measured_runs
  /\ step' = "idle" /\ warmup_left' = 0 /\ measured_runs' = 0
  /\ latencies' = <<>> /\ total_time' = 0
  /\ UNCHANGED statistics

-----------------------------------------------------------------------------
(* Percentiles: linear interpolation between the nearest ranks. *)

\* Mutation: the ranks of a list whose first element has rank one.
RankFromOne(s, p) ==
  LET rank == p * Len(s)
      lower == rank \div 100
      frac == rank % 100
  IN  IF lower + 1 >= Len(s) THEN 100 * s[Len(s)]
      ELSE s[lower + 1] * (100 - frac) + s[lower + 2] * frac

\* The guards lower >= size() and upper >= size() of the code: lower is one less
\* than the index here, and upper is lower if frac is 0.
Percentile(s, p) ==
  LET rank == p * (Len(s) - 1)
      lower == rank \div 100
      frac == rank % 100
      upper == IF frac = 0 THEN lower ELSE lower + 1
  IN  CASE Len(s) = 0 -> 0
        [] Len(s) = 1 -> 100 * s[1]
        [] Len(s) > 1 /\ lower >= Len(s) -> 100 * s[Len(s)]
        [] Len(s) > 1 /\ lower < Len(s) /\ upper >= Len(s) -> 100 * s[lower + 1]
        [] OTHER -> s[lower + 1] * (100 - frac) + s[upper + 1] * frac

Statistics(s) ==
  [min |-> s[1], max |-> s[Len(s)], mean |-> <<total_time, Len(s)>>,
   p50 |-> Percentile(s, 50), p90 |-> Percentile(s, 90), p99 |-> Percentile(s, 99)]

\* What std::sort makes of q: its elements, rearranged so that they ascend.
SortedSamples(q) ==
  {s \in {[k \in DOMAIN q |-> q[b[k]]] : b \in Bijection(DOMAIN q, DOMAIN q)} :
     \A i, j \in DOMAIN s : i <= j => s[i] <= s[j]}

\* std::sort and the numbers; without measured runs they stay 0.
Finish ==
  /\ step = "measured" /\ Len(latencies) = measured_runs
  /\ step' = "done"
  /\ \E s \in SortedSamples(latencies) :
       statistics' = IF latencies = <<>> THEN NoStatistics ELSE Statistics(s)
  /\ UNCHANGED <<warmup_left, measured_runs, latencies, total_time>>

BenchmarkNext ==
  \/ \E warmup, measured \in 0..MaxRuns : BenchmarkBegin(warmup, measured)
  \/ WarmUp \/ MeasuredBegin \/ CallThrows \/ Finish
  \/ \E source, ms \in Durations : Measure(source, ms)

BenchmarkSpec == BenchmarkInit /\ [][BenchmarkNext]_benchmark

-----------------------------------------------------------------------------
\* v divides the sorted latencies where p percent of the steps from the least to
\* the greatest are taken: the sample before is not above it, the sample behind
\* not below.
IsPercentile(v, p) ==
  LET below == {k \in DOMAIN latencies : 100 * latencies[k] < v}
      notAbove == {k \in DOMAIN latencies : 100 * latencies[k] <= v}
      steps == measured_runs - 1
  IN  /\ 100 * (Cardinality(below) - 1) < p * steps
      /\ p * steps < 100 * Cardinality(notAbove)

\* The statistics are of the measured runs, all of them and no warm-up: the
\* extremes are the least and the greatest latency, the percentiles are in order
\* between them, and each divides the latencies as its name says, for one or two
\* runs and equal latencies too, and for a rank that falls on a sample.
StatisticsDivide ==
  step = "done" =>
    LET s == statistics IN
    /\ Len(latencies) = measured_runs
    /\ measured_runs > 0 =>
         /\ \E k \in DOMAIN latencies : latencies[k] = s.min
         /\ \E k \in DOMAIN latencies : latencies[k] = s.max
         /\ \A k \in DOMAIN latencies : s.min <= latencies[k] /\ latencies[k] <= s.max
         /\ 100 * s.min <= s.p50 /\ s.p50 <= s.p90 /\ s.p90 <= s.p99
         /\ s.p99 <= 100 * s.max
         /\ IsPercentile(s.p50, 50) /\ IsPercentile(s.p90, 90) /\ IsPercentile(s.p99, 99)

=============================================================================
