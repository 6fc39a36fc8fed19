------------------------------- MODULE SpikeProbe -------------------------------
(***************************************************************************)
(* The three programs that probe one address and record the slow reads:    *)
(* discovery/trefi_probe.c, tailslayer_extreme.c and rust/src/probe.rs.    *)
(* They calibrate a threshold, run one loop of timed reads that records    *)
(* the reads above the threshold, and summarise the records.  They differ  *)
(* in how the threshold is chosen, in whether it is exclusive, in the cap  *)
(* on the records and in what a record says; each has actions of its own   *)
(* for these.                                                              *)
(*                                                                         *)
(* The cycle counter only advances; a read takes one of Latencies, and one *)
(* of Gaps passes between two reads.                                       *)
(***************************************************************************)
EXTENDS Integers, Sequences, Functions

CONSTANTS
  Latencies,       \* cycles a timed read can take
  Gaps,            \* cycles from the end of a read to the start of the next
  Requested,       \* values of --probes
  DEFAULT_PROBES,  \* probes of tailslayer_extreme and rust when none are asked for
  Manual,          \* values of --threshold; 0 for none
  Mult,            \* thresh_mult
  CALIB_PROBES,    \* reads of the calibration
  MAX_SPIKES,      \* capacity of the C programs' record buffer
  MinSpikes        \* trefi_probe analyses no fewer records (10)

ASSUME ProbeAssumption ==
  /\ Latencies \subseteq Nat \ {0} /\ Gaps \subseteq Nat \ {0}
  /\ Requested \subseteq Int /\ Manual \subseteq Nat
  /\ DEFAULT_PROBES \in Nat \ {0} /\ Mult \in Nat \ {0}
  /\ CALIB_PROBES \in Nat \ {0} /\ MAX_SPIKES \in Nat \ {0}
  /\ MinSpikes \in Nat \ {0}

Programs == {"trefi_probe", "tailslayer_extreme", "rust"}

VARIABLES
  program,           \* which of the three runs
  pc,                \* what it is doing
  n_probes,          \* reads of the main loop
  manual_threshold,
  calib,             \* the calibration's latencies, sorted
  threshold,
  now,               \* the cycle counter
  history,           \* every read of the main loop (not kept by the programs)
  spikes,            \* the records
  last_spike_cycle,  \* rust: end of the last slow read, 0 before the first
  summary            \* what is reported of the latencies

vars == <<program, pc, n_probes, manual_threshold, calib, threshold, now, history,
          spikes, last_spike_cycle, summary>>

Init ==
  /\ program \in Programs
  /\ pc = "parsing"
  /\ n_probes = 0
  /\ manual_threshold = 0
  /\ calib = <<>>
  /\ threshold = 0
  /\ now = 0
  /\ history = <<>>
  /\ spikes = <<>>
  /\ last_spike_cycle = 0
  /\ summary = <<>>

Ascending(s) == \A j, k \in DOMAIN s : j <= k => s[j] <= s[k]

\* The elements of s in every order.
Arrangements(s) == {[k \in DOMAIN s |-> s[p[k]]] : p \in Bijection(DOMAIN s, DOMAIN s)}

\* What s can become when it is sorted upwards (qsort, sort_unstable), and when
\* it is forgotten.
Unsorted(s) == Arrangements(s)
Sorted(s) == {t \in Arrangements(s) : Ascending(t)}

\* s[(size_t)(n * percent / 100)] of a sorted s of n elements.
Percentile(s, percent) == s[(Len(s) * percent) \div 100 + 1]

MoreProbes == Len(history) < n_probes

-------------------------------------------------------------------------------
(***************************************************************************)
(* Arguments, page, calibration.                                           *)
(***************************************************************************)

\* trefi_probe takes the number as it is.
ParseTrefi ==
  /\ pc = "parsing" /\ program = "trefi_probe"
  /\ n_probes' \in Requested
  /\ manual_threshold' \in Manual

ParseExtreme ==
  /\ pc = "parsing" /\ program = "tailslayer_extreme"
  /\ \E n \in Requested : n_probes' = IF n <= 0 THEN DEFAULT_PROBES ELSE n
  /\ manual_threshold' \in Manual

\* What is no unsigned number is the default; a threshold cannot be given.
ParseRust ==
  /\ pc = "parsing" /\ program = "rust"
  /\ \E n \in Requested : n_probes' = IF n < 0 THEN DEFAULT_PROBES ELSE n
  /\ UNCHANGED manual_threshold

\* The option loops of the C programs end with --help, and where they meet what
\* they do not know; rust's passes it over.
Parse ==
  /\ \/ (ParseTrefi \/ ParseExtreme \/ ParseRust) /\ pc' = "mapping"
     \/ pc = "parsing" /\ program # "rust" /\ pc' = "exited"
        /\ UNCHANGED <<n_probes, manual_threshold>>
  /\ UNCHANGED <<program, calib, threshold, now, history, spikes, last_spike_cycle, summary>>

\* A huge page, or small pages when there is none: the C programs' and rust's.
MapPage == pc = "mapping" /\ program # "rust" /\ pc' = "calibrating"
AllocateBuffer == pc = "mapping" /\ program = "rust" /\ pc' = "calibrating"

\* No page: exit.  tailslayer_extreme looks at what malloc returns.
ExtremeFails ==
  /\ program = "tailslayer_extreme"
  /\ pc \in {"mapping", "calibrating", "allocating"} /\ pc' = "exited"

\* trefi_probe does so for the records, and stores through a null pointer where
\* it got no memory for the calibration or, later, for intervals and histogram.
TrefiFails ==
  /\ program = "trefi_probe"
  /\ \/ pc \in {"mapping", "allocating"} /\ pc' = "exited"
     \/ pc = "calibrating" /\ pc' = "crashed"
     \/ pc = "probing" /\ ~MoreProbes /\ Len(spikes) >= MinSpikes /\ pc' = "crashed"

RustFails == pc = "mapping" /\ program = "rust" /\ pc' = "exited"

Obtain ==
  /\ MapPage \/ AllocateBuffer \/ ExtremeFails \/ TrefiFails \/ RustFails
  /\ UNCHANGED <<program, n_probes, manual_threshold, calib, threshold, now, history,
                 spikes, last_spike_cycle, summary>>

Median(c) == c[Len(c) \div 2 + 1]

\* The multiple of the median, unless a threshold was given.
ThresholdTrefi(c) ==
  IF manual_threshold > 0 THEN manual_threshold ELSE Mult * Median(c)

\* The floor forgotten when the multiple meets the 99th percentile exactly.
ThresholdExtremeBelowOnly(c) ==
  CASE manual_threshold # 0                      -> manual_threshold
    [] OTHER -> LET p99_base == Percentile(c, 99)
                IN  IF Mult * Median(c) < p99_base THEN p99_base + 10 ELSE Mult * Median(c)

\* The same, but never down in the calibration's own noise.
ThresholdExtreme(c) ==
  CASE manual_threshold # 0                      -> manual_threshold
    [] Mult * Median(c) <= Percentile(c, 99)     -> Percentile(c, 99) + 10
    [] OTHER                                     -> Mult * Median(c)

ThresholdRust(c) == Mult * Median(c)

\* Every multiset of latencies, as the sorted sequence it becomes.
Calibrations == {c \in [1..CALIB_PROBES -> Latencies] : Ascending(c)}

Calibrate ==
  /\ pc = "calibrating"
  /\ pc' = "allocating"
  /\ calib' \in Calibrations
  /\ threshold' = CASE program = "trefi_probe"        -> ThresholdTrefi(calib')
                    [] program = "tailslayer_extreme" -> ThresholdExtreme(calib')
                    [] program = "rust"               -> ThresholdRust(calib')
  /\ UNCHANGED <<program, n_probes, manual_threshold, now, history, spikes,
                 last_spike_cycle, summary>>

AllocateSpikes ==
  /\ pc = "allocating"
  /\ pc' = "probing"
  /\ UNCHANGED <<program, n_probes, manual_threshold, calib, threshold, now, history,
                 spikes, last_spike_cycle, summary>>

-------------------------------------------------------------------------------
(***************************************************************************)
(* The main loop: one timed read per step, from t0 to t1.                  *)
(***************************************************************************)

Read(t0, t1) ==
  /\ pc = "probing"
  /\ MoreProbes
  /\ now' = t1
  /\ history' = Append(history, [tsc |-> t0, latency |-> t1 - t0])
  /\ UNCHANGED <<program, pc, n_probes, manual_threshold, calib, threshold, summary>>

\* One record more than the buffer holds.
RoomLeftInclusive == Len(spikes) <= MAX_SPIKES
RoomLeft == Len(spikes) < MAX_SPIKES

\* A C program's record.
Stamp(t0, t1) == [tsc |-> t0, latency |-> t1 - t0]

ProbeTrefi(t0, t1) ==
  /\ program = "trefi_probe"
  /\ Read(t0, t1)
  /\ spikes' = IF t1 - t0 > threshold /\ RoomLeft
               THEN Append(spikes, Stamp(t0, t1)) ELSE spikes
  /\ UNCHANGED last_spike_cycle

ProbeExtreme(t0, t1) ==
  /\ program = "tailslayer_extreme"
  /\ Read(t0, t1)
  /\ spikes' = IF t1 - t0 >= threshold /\ RoomLeft
               THEN Append(spikes, Stamp(t0, t1)) ELSE spikes
  /\ UNCHANGED last_spike_cycle

\* The last slow read remembered by its start instead of its end.
SpikeCycleStart(t0, t1) == t0
SpikeCycle(t0, t1) == t1

\* rust: the record holds the distance from the end of the last slow read.
ProbeRust(t0, t1) ==
  LET slow  == t1 - t0 >= threshold
      delta == IF last_spike_cycle = 0 THEN 0 ELSE t1 - last_spike_cycle
  IN  /\ program = "rust"
      /\ Read(t0, t1)
      /\ spikes' = IF slow
                   THEN Append(spikes, [index             |-> Len(history),
                                        latency           |-> t1 - t0,
                                        delta_prev_cycles |-> delta])
                   ELSE spikes
      /\ last_spike_cycle' = IF slow THEN SpikeCycle(t0, t1) ELSE last_spike_cycle

Probe ==
  \E gap \in Gaps, lat \in Latencies :
    LET t0 == now + gap
        t1 == t0 + lat
    IN  ProbeTrefi(t0, t1) \/ ProbeExtreme(t0, t1) \/ ProbeRust(t0, t1)

-------------------------------------------------------------------------------
(***************************************************************************)
(* The report.  trefi_probe's periodicity analysis is module SpikeTrain.   *)
(***************************************************************************)

RecordedLatencies == [k \in DOMAIN spikes |-> spikes[k].latency]

\* The least and the greatest that a loop over S has found.
Extremes(S) == {e \in [min : S, max : S] : \A l \in S : e.min <= l /\ l <= e.max}

\* trefi_probe's statistics of the records.
LatencyStats == Extremes({spikes[k].latency : k \in DOMAIN spikes})

\* The extremes of all reads, recorded or not.
ProbeRange == Extremes({history[k].latency : k \in DOMAIN history})

ReportTrefi ==
  IF Len(spikes) < MinSpikes THEN summary' = <<>> ELSE summary' \in LatencyStats

\* The percentiles that rust and tailslayer_extreme compute of the sorted records.
PercentilesOf(sorted) ==
  [p50 |-> Median(sorted), p90 |-> Percentile(sorted, 90),
   p99 |-> Percentile(sorted, 99), max |-> sorted[Len(sorted)]]

\* They stay 0 where there is nothing to sort.
Zeros == [p50 |-> 0, p90 |-> 0, p99 |-> 0, max |-> 0]

Percentiles ==
  IF spikes = <<>> THEN {Zeros} ELSE {PercentilesOf(s) : s \in Sorted(RecordedLatencies)}

\* Or nowhere.
ReportExtreme ==
  \E p \in {Zeros} \union Percentiles : \E r \in ProbeRange :
    summary' = [p50 |-> p.p50, p90 |-> p.p90, p99 |-> p.p99, max |-> p.max,
                min_lat |-> r.min, max_lat |-> r.max]

ReportRust == summary' \in Percentiles

\* The console shows these numbers.  The exports that follow are left out: where a
\* file cannot be opened the C program goes on without it, and rust's main returns
\* the error and skips what is left.
Report ==
  /\ pc = "probing" /\ ~MoreProbes
  /\ pc' = "reported"
  /\ CASE program = "trefi_probe"        -> ReportTrefi
       [] program = "tailslayer_extreme" -> ReportExtreme
       [] program = "rust"               -> ReportRust
  /\ UNCHANGED <<program, n_probes, manual_threshold, calib, threshold, now, history,
                 spikes, last_spike_cycle>>

Next == Parse \/ Obtain \/ Calibrate \/ AllocateSpikes \/ Probe \/ Report

Spec == Init /\ [][Next]_vars

-------------------------------------------------------------------------------
(***************************************************************************)
(* Properties.                                                             *)
(***************************************************************************)

\* A slow read, as the program that runs defines it.
Slow(read) ==
  IF program = "trefi_probe" THEN read.latency > threshold ELSE read.latency >= threshold

\* The records are the reads of history at the places of f, which go up; they are
\* slow, and a slow read that is none of them came when the buffer was full.
RecordsAt(f) ==
  /\ \A j, k \in DOMAIN spikes : j < k => f[j] < f[k]
  /\ \A k \in DOMAIN spikes : spikes[k] = history[f[k]] /\ Slow(history[f[k]])
  /\ \A h \in DOMAIN history :
       Slow(history[h]) => \/ \E k \in DOMAIN spikes : f[k] = h
                           \/ /\ Len(spikes) = MAX_SPIKES
                              /\ \A k \in DOMAIN spikes : f[k] < h

\* The C programs' records are the first slow reads of the loop, none left out
\* between two of them, each with the start and length it had.
RecordsAreFirstSlowReads ==
  program # "rust" =>
    /\ Len(spikes) <= MAX_SPIKES
    /\ \E f \in [DOMAIN spikes -> DOMAIN history] : RecordsAt(f)

\* End of the read that rust's k-th record is about.
End(k) == history[spikes[k].index + 1].tsc + history[spikes[k].index + 1].latency

\* The sum of rust's first k deltas.
Elapsed[k \in 0..Len(spikes)] ==
  IF k = 0 THEN 0 ELSE Elapsed[k - 1] + spikes[k].delta_prev_cycles

\* From rust's records alone the slow reads can be put back on the time line:
\* the deltas up to a record add up to its distance from the first one.
DeltasAddUp ==
  program = "rust" => \A k \in DOMAIN spikes : Elapsed[k] = End(k) - End(1)

\* tailslayer_extreme's own threshold is above all but the slowest hundredth of
\* the calibration: on a machine that behaves as it did, spikes are rare.
ThresholdAboveBaseline ==
  program = "tailslayer_extreme" /\ calib # <<>> /\ manual_threshold = 0 =>
    \A k \in 1..((CALIB_PROBES * 99) \div 100 + 1) : calib[k] < threshold

\* What is reported, where it was computed, is in order and in agreement: the
\* percentiles ordered, above the threshold and covering every record; the
\* records' extremes between those of all reads; and, while there was room for
\* all slow reads, the slowest read of the loop is the slowest record.
SummaryInOrder ==
  pc = "reported" /\ spikes # <<>> /\ summary # <<>> /\ summary.max # 0 =>
    /\ \A k \in DOMAIN spikes : spikes[k].latency <= summary.max
    /\ \E k \in DOMAIN spikes : spikes[k].latency = summary.max
    /\ program # "trefi_probe" =>
         /\ threshold <= summary.p50 /\ summary.p50 <= summary.p90
         /\ summary.p90 <= summary.p99 /\ summary.p99 <= summary.max
    /\ program = "trefi_probe" => threshold < summary.min /\ summary.min <= summary.max
    /\ program = "tailslayer_extreme" =>
         /\ summary.min_lat <= summary.p50 /\ summary.max <= summary.max_lat
         /\ Len(spikes) < MAX_SPIKES => summary.max = summary.max_lat
===============================================================================
