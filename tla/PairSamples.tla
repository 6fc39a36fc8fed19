------------------------------ MODULE PairSamples ------------------------------
(***************************************************************************)
(* Benchmark::pair_samples_n (discovery/benchmark/benchmark.cpp): the      *)
(* samples of the channels, each channel's in the order of its own thread, *)
(* are merged into groups of one sample per channel whose timestamps are   *)
(* less than MAX_PAIR_GAP apart; a group counts as one hedged read, with   *)
(* the lowest latency in the group.                                        *)
(*                                                                         *)
(* One iteration of the while loop is one step.  `groups' is history: the  *)
(* indices the groups were made of.                                        *)
(***************************************************************************)
EXTENDS Naturals, Sequences, FiniteSetsExt

CONSTANTS
  NChannels,       \* n_channels
  NumSamples,      \* num_samples
  MAX_PAIR_GAP,
  Timestamps,      \* possible timestamps
  Latencies        \* possible latencies

ASSUME PairAssumption ==
  /\ NChannels \in Nat \ {0} /\ NumSamples \in Nat
  /\ MAX_PAIR_GAP \in Nat
  /\ Timestamps \subseteq Nat /\ Latencies \subseteq Nat

VARIABLES
  timestamp, latency,   \* all_samples[c][k], never changed
  indices,              \* the next sample of each channel
  out_effective,
  groups,               \* groups[g][c]: sample of channel c in the g-th group
  running

samples == <<timestamp, latency>>
vars == <<samples, indices, out_effective, groups, running>>

Channels == 0..(NChannels - 1)
Samples  == 0..(NumSamples - 1)

\* measurement_thread writes its samples in order, and the counter it stamps
\* them with has moved on at each.
InOrder(ts) == \A j, k \in Samples : j < k => ts[j] < ts[k]

Init ==
  /\ timestamp \in [Channels -> {ts \in [Samples -> Timestamps] : InOrder(ts)}]
  /\ latency \in [Channels -> [Samples -> Latencies]]
  /\ indices = [c \in Channels |-> 0]
  /\ out_effective = <<>>
  /\ groups = <<>>
  /\ running = TRUE

-------------------------------------------------------------------------------
TimestampOf(c) == timestamp[c][indices[c]]
LatencyOf(c)   == latency[c][indices[c]]

\* Some channel has no sample left.
OutOfBounds == \E c \in Channels : indices[c] >= NumSamples

\* (max_ts - min_ts) < MAX_PAIR_GAP
WithinGap == \A c, d \in Channels : TimestampOf(c) < TimestampOf(d) + MAX_PAIR_GAP

\* min_latency declared outside the loop: what an earlier group left.
BestLatencyCarried(l) ==
  /\ l \in {LatencyOf(c) : c \in Channels}
             \union {out_effective[g] : g \in 1..Len(out_effective)}
  /\ \A c \in Channels : l <= LatencyOf(c)
  /\ \A g \in 1..Len(out_effective) : l <= out_effective[g]

\* l is min_latency.
BestLatency(l) ==
  /\ l \in {LatencyOf(c) : c \in Channels}
  /\ \A c \in Channels : l <= LatencyOf(c)

\* The channel that is furthest ahead.
LeadingChannel(c) == \A d \in Channels : TimestampOf(d) <= TimestampOf(c)

\* c is min_idx_channel: the first channel with the lowest timestamp.
LaggingChannel(c) ==
  /\ \A d \in Channels : TimestampOf(c) <= TimestampOf(d)
  /\ \A d \in Channels : d < c => TimestampOf(c) < TimestampOf(d)

\* The window moves forward for the first channel only.
AdvancedFirst == [indices EXCEPT ![0] = @ + 1]
Advanced == [c \in Channels |-> indices[c] + 1]

Pair ==
  /\ running
  /\ ~OutOfBounds
  /\ WithinGap
  /\ \E l \in Latencies : BestLatency(l) /\ out_effective' = Append(out_effective, l)
  /\ groups' = Append(groups, indices)
  /\ indices' = Advanced
  /\ UNCHANGED <<samples, running>>

\* The last sample is never left, lest the index run off the end.
SkippedInBounds(c) ==
  [indices EXCEPT ![c] = IF @ + 1 < NumSamples THEN @ + 1 ELSE @]
Skipped(c) == [indices EXCEPT ![c] = @ + 1]

Skip ==
  /\ running
  /\ ~OutOfBounds
  /\ ~WithinGap
  /\ \E c \in Channels : LaggingChannel(c) /\ indices' = Skipped(c)
  /\ UNCHANGED <<samples, out_effective, groups, running>>

Stop ==
  /\ running
  /\ OutOfBounds
  /\ running' = FALSE
  /\ UNCHANGED <<samples, indices, out_effective, groups>>

Next == Pair \/ Skip \/ Stop

Spec == Init /\ [][Next]_vars

\* The loop runs on: nothing in it blocks.
FairSpec == Spec /\ WF_vars(Next)

-------------------------------------------------------------------------------
(***************************************************************************)
(* Properties.                                                             *)
(***************************************************************************)

TypeOK ==
  /\ timestamp \in [Channels -> [Samples -> Timestamps]]
  /\ latency \in [Channels -> [Samples -> Latencies]]
  /\ indices \in [Channels -> 0..NumSamples]
  /\ out_effective \in Seq(Latencies)
  /\ groups \in Seq([Channels -> Samples])
  /\ running \in BOOLEAN

Simultaneous(g) ==
  \A c, d \in Channels : timestamp[c][g[c]] < timestamp[d][g[d]] + MAX_PAIR_GAP

\* Every result is the latency of one hedged read: that of the fastest channel
\* in a group of reads made less than MAX_PAIR_GAP apart ("Pair those threads
\* and take the minimum"), whatever groups came before it.
ResultsAreHedgedReads ==
  /\ Len(out_effective) = Len(groups)
  /\ \A g \in 1..Len(groups) :
       /\ Simultaneous(groups[g])
       /\ \E c \in Channels : out_effective[g] = latency[c][groups[g][c]]
       /\ \A c \in Channels : out_effective[g] <= latency[c][groups[g][c]]

\* No sample counts twice: from one group to the next, every channel moves on.
SamplesUsedOnce ==
  \A g, h \in 1..Len(groups) : g < h => \A c \in Channels : groups[g][c] < groups[h][c]

\* A sample that is passed over is no loss: no choice of samples that have not
\* been used, one per channel, makes a group with it.
SkippedAreHopeless ==
  [][\A c \in Channels :
       indices'[c] # indices[c] /\ groups' = groups =>
         ~ \E g \in [Channels -> Samples] :
              /\ g[c] = indices[c]
              /\ \A d \in Channels : g[d] >= indices[d]
              /\ Simultaneous(g)]_vars

Possible == {g \in [Channels -> Samples] : Simultaneous(g)}

Disjoint(G) == \A g, h \in G : g # h => \A c \in Channels : g[c] # h[c]

\* When the loop has ended there is no larger set of groups, in any order, that
\* use no sample twice: the greedy merge loses nothing (the share of samples
\* paired, which process_and_write reports, is a fact about the samples).
PairsAsManyAsPossible ==
  ~running => \A G \in kSubset(Len(groups) + 1, Possible) : ~Disjoint(G)

\* The loop ends.
Terminates == <>~running
===============================================================================
