------------------------------- MODULE SpikeTrain -------------------------------
(***************************************************************************)
(* The periodicity analysis of discovery/trefi_probe.c: from the times of  *)
(* the recorded spikes to a verdict on whether DRAM refresh is visible.    *)
(*                                                                         *)
(* The environment lays down a train of spikes on a time line: a refresh   *)
(* falls due every T cycles and is seen a little late, or is missed by the *)
(* probe; noise puts other spikes in between.  The analysis then runs on   *)
(* the times alone, with the period it expects from its calibration of the *)
(* cycle counter.  The program computes in doubles; here every comparison  *)
(* is multiplied out and exact.                                            *)
(***************************************************************************)
EXTENDS Integers, FiniteSets, SequencesExt

CONSTANTS
  T,            \* tREFI, in cycles
  Short,        \* by how many cycles the calibration can underestimate it
  Late,         \* how late, in cycles, a refresh can be seen
  NoiseAt,      \* distances from a refresh at which noise can spike
  Refreshes,    \* refreshes of the run
  MaxMissed,    \* refreshes missed one after the other
  MaxNoise,     \* noise spikes
  MinSpikes     \* fewer spikes than this are not analysed (10)

ASSUME TrainAssumption ==
  /\ T \in Nat \ {0}
  /\ Late \subseteq Nat /\ Short \subseteq Nat
  /\ \A l \in Late, e \in Short : 100 * (l + 3 * e) <= 15 * (T - e)
  /\ NoiseAt \subseteq 1..(T - 1)
  /\ Refreshes \in Nat \ {0} /\ MaxMissed \in 0..2 /\ MaxNoise \in Nat
  /\ MinSpikes \in Nat \ {0, 1}

VARIABLES
  spikes,      \* times of the recorded spikes, in order
  due,         \* number of the next refresh
  missed,      \* refreshes missed since the last one seen
  noise,       \* noise spikes so far
  expected,    \* expected_trefi_cyc
  verdict      \* "" while the probe runs

vars == <<spikes, due, missed, noise, expected, verdict>>

\* calibrate_tsc_ghz reads the counter between its readings of the clock: fewer
\* cycles are counted than the time is given.
Calibrated == {T - e : e \in Short}

Init ==
  /\ expected \in Calibrated
  /\ spikes = <<>>
  /\ due = 0
  /\ missed = 0
  /\ noise = 0
  /\ verdict = ""

-------------------------------------------------------------------------------
(***************************************************************************)
(* The machine under the probe.                                            *)
(***************************************************************************)

RefreshSeen ==
  /\ verdict = "" /\ due < Refreshes
  /\ \E late \in Late : spikes' = Append(spikes, due * T + late)
  /\ due' = due + 1
  /\ missed' = 0
  /\ UNCHANGED <<noise, expected, verdict>>

\* Only refreshes between two seen ones count as missed.
RefreshMissed ==
  /\ verdict = "" /\ due < Refreshes
  /\ spikes # <<>> /\ missed < MaxMissed
  /\ due' = due + 1
  /\ missed' = missed + 1
  /\ UNCHANGED <<spikes, noise, expected, verdict>>

\* Noise after the refresh that was due last.
NoiseSpike ==
  /\ verdict = "" /\ spikes # <<>> /\ noise < MaxNoise
  /\ \E d \in NoiseAt :
       /\ Last(spikes) < (due - 1) * T + d
       /\ spikes' = Append(spikes, (due - 1) * T + d)
  /\ noise' = noise + 1
  /\ UNCHANGED <<due, missed, expected, verdict>>

-------------------------------------------------------------------------------
(***************************************************************************)
(* The analysis.                                                           *)
(***************************************************************************)

n_intervals == Len(spikes) - 1

\* Interval from the first spike instead of from the one before.
IntervalFromFirst(k) == spikes[k + 1] - spikes[1]
Interval(k) == spikes[k + 1] - spikes[k]

\* As near as 15% of the period to its h-th multiple.
Near(iv, h) ==
  100 * iv >= expected * (100 * h - 15) /\ 100 * iv <= expected * (100 * h + 15)

Harmonics == 1..3

Harmonic(iv) == IF \E h \in Harmonics : Near(iv, h)
                THEN CHOOSE h \in Harmonics : Near(iv, h) ELSE 0

Count(h) == Cardinality({k \in 1..n_intervals : Harmonic(Interval(k)) = h})

HarmonicTotal == Count(1) + Count(2) + Count(3)

\* frac_harmonic > percent / 100
MoreThan(percent) == 100 * HarmonicTotal > percent * n_intervals

TooFew == Len(spikes) < MinSpikes

Verdict ==
  CASE MoreThan(30)                 -> "PERIODIC"
    [] ~MoreThan(30) /\ MoreThan(15) -> "WEAK SIGNAL"
    [] ~MoreThan(15)                -> "NO PERIODIC SIGNAL"

\* The probe ends with all refreshes past; the analysis gives its verdict, or
\* ends early.
Analyse ==
  /\ verdict = "" /\ due = Refreshes
  /\ verdict' = IF TooFew THEN "INSUFFICIENT DATA" ELSE Verdict
  /\ UNCHANGED <<spikes, due, missed, noise, expected>>

hist_bins == 200

\* Half a period to one and a half, the end left out.
InHistogram(iv) == 2 * iv >= expected /\ 2 * iv < 3 * expected

\* A bin as wide as if the range began at 0: bin_hi / hist_bins.
BinTooWide(iv) == ((2 * iv - expected) * hist_bins) \div (3 * expected)
Bin(iv) == ((2 * iv - expected) * hist_bins) \div (2 * expected)

HistCount(b) ==
  Cardinality({k \in 1..n_intervals : InHistogram(Interval(k)) /\ Bin(Interval(k)) = b})

UsedBins == {Bin(Interval(k)) : k \in {j \in 1..n_intervals : InHistogram(Interval(j))}}

\* The first bin with the largest count; bin 0 when all are empty.
peak_bin ==
  IF UsedBins = {} THEN 0
  ELSE CHOOSE b \in UsedBins :
         \A c \in UsedBins : \/ HistCount(c) < HistCount(b)
                             \/ HistCount(c) = HistCount(b) /\ b <= c

Next == RefreshSeen \/ RefreshMissed \/ NoiseSpike \/ Analyse

Spec == Init /\ [][Next]_vars

-------------------------------------------------------------------------------
(***************************************************************************)
(* Properties.                                                             *)
(***************************************************************************)

\* Refreshes are called periodic, however many were missed, up to two in a row.
\* A noise spike spoils at most the one interval it falls into and adds one: the
\* verdict stands while the intervals left whole are more than 30%.
NoiseIsOutvoted ==
  verdict \notin {"", "INSUFFICIENT DATA"}
    /\ 100 * (n_intervals - 2 * noise) > 30 * n_intervals
    => verdict = "PERIODIC"

\* Without noise the histogram gives the refresh period that the machine has,
\* not the one expected: the reported middle of the bin is off by no more than
\* the refreshes were late, and half a bin.
PeakIsPeriod ==
  noise = 0 /\ Count(1) > 0 =>
    LET peak == 2 * hist_bins + 4 * peak_bin + 2     \* 4 hist_bins peak_cyc / expected
        off  == 4 * hist_bins * Max(Late) + 2 * expected
    IN  peak * expected - 4 * hist_bins * T \in -off..off
===============================================================================
