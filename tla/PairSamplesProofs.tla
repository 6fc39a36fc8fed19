--------------------------- MODULE PairSamplesProofs ---------------------------
(***************************************************************************)
(* Proofs about PairSamples: the merge is sound, and never passes over a   *)
(* sample that could still be paired, so that no choice of groups has more *)
(* of them, for any number of channels and samples and any gap.            *)
(***************************************************************************)
EXTENDS PairSamples, Integers, FiniteSetTheorems, TLAPS

\* The samples stay in order.
OrderInv == \A c \in Channels : InOrder(timestamp[c])

\* What a group used lies behind the indices.
UsedInv ==
  \A g \in 1..Len(groups) : \A c \in Channels : groups[g][c] < indices[c]

IInv == TypeOK /\ OrderInv /\ ResultsAreHedgedReads /\ SamplesUsedOnce /\ UsedInv

-------------------------------------------------------------------------------
\* Appending to a sequence adds its last element and keeps the others.
LEMMA Appended ==
  ASSUME NEW S, NEW s \in Seq(S), NEW e \in S
  PROVE  /\ Append(s, e) \in Seq(S)
         /\ Len(Append(s, e)) = Len(s) + 1
         /\ Append(s, e)[Len(s) + 1] = e
         /\ \A k \in 1..Len(s) : Append(s, e)[k] = s[k]
OBVIOUS

\* With every index in bounds the indices are a choice of samples.
LEMMA IndicesInBounds ==
  ASSUME TypeOK, ~OutOfBounds
  PROVE  indices \in [Channels -> Samples]
<1>1. NumSamples \in Nat
  BY PairAssumption DEF PairAssumption
<1>2. ASSUME NEW c \in Channels PROVE indices[c] \in Samples
  <2>1. indices[c] \in 0..NumSamples /\ ~(indices[c] >= NumSamples)
    BY DEF TypeOK, OutOfBounds
  <2> QED
    BY <1>1, <2>1 DEF Samples
<1> QED
  BY <1>2 DEF TypeOK

\* The merge starts in the invariant.
LEMMA InitIInv == Init => IInv
<1> SUFFICES ASSUME Init PROVE IInv
  OBVIOUS
<1>1. 0 \in 0..NumSamples
  BY PairAssumption DEF PairAssumption
<1>2. TypeOK /\ OrderInv
  BY <1>1 DEF Init, TypeOK, OrderInv
<1>3. Len(groups) = 0 /\ Len(out_effective) = 0
  BY DEF Init
<1>4. ResultsAreHedgedReads /\ SamplesUsedOnce /\ UsedInv
  BY <1>3 DEF ResultsAreHedgedReads, SamplesUsedOnce, UsedInv
<1> QED
  BY <1>2, <1>4 DEF IInv

\* A group: its latency is the lowest, and it lies behind the new indices and
\* ahead of every earlier group.
LEMMA PairIInv == IInv /\ Pair => IInv'
<1> SUFFICES ASSUME IInv, Pair PROVE IInv'
  OBVIOUS
<1>0. TypeOK /\ OrderInv /\ ResultsAreHedgedReads /\ SamplesUsedOnce /\ UsedInv
  BY DEF IInv
<1>1. indices \in [Channels -> Samples] /\ NumSamples \in Nat
  BY <1>0, IndicesInBounds, PairAssumption DEF Pair, PairAssumption
<1>2. PICK l \in Latencies : BestLatency(l) /\ out_effective' = Append(out_effective, l)
  BY DEF Pair
<1>3. timestamp' = timestamp /\ latency' = latency /\ running' = running
  BY DEF Pair, samples
<1>4. /\ out_effective' \in Seq(Latencies)
      /\ Len(out_effective') = Len(out_effective) + 1
      /\ out_effective'[Len(out_effective) + 1] = l
      /\ \A k \in 1..Len(out_effective) : out_effective'[k] = out_effective[k]
  BY <1>0, <1>2, Appended DEF TypeOK
<1>5. /\ groups' \in Seq([Channels -> Samples])
      /\ Len(groups') = Len(groups) + 1
      /\ groups'[Len(groups) + 1] = indices
      /\ \A k \in 1..Len(groups) : groups'[k] = groups[k]
  BY <1>0, <1>1, Appended DEF TypeOK, Pair
<1>6. Len(groups) \in Nat /\ Len(out_effective) = Len(groups)
  BY <1>0 DEF TypeOK, ResultsAreHedgedReads
<1>7. \A c \in Channels : indices'[c] = indices[c] + 1 /\ indices[c] \in 0..(NumSamples - 1)
  BY <1>1 DEF Pair, Advanced, Samples
<1>8. TypeOK'
  <2>1. indices' \in [Channels -> 0..NumSamples]
    BY <1>1, <1>7 DEF Pair, Advanced
  <2> QED
    BY <1>0, <1>3, <1>4, <1>5, <2>1 DEF TypeOK
<1>9. OrderInv'
  BY <1>0, <1>3 DEF OrderInv, InOrder
<1>10. ResultsAreHedgedReads'
  <2>1. Len(out_effective') = Len(groups')
    BY <1>4, <1>5, <1>6
  <2>2. ASSUME NEW g \in 1..Len(groups')
        PROVE  /\ Simultaneous(groups[g])'
               /\ \E c \in Channels : out_effective'[g] = latency'[c][groups'[g][c]]
               /\ \A c \in Channels : out_effective'[g] <= latency'[c][groups'[g][c]]
    <3>1. CASE g \in 1..Len(groups)
      <4>1. out_effective'[g] = out_effective[g] /\ groups'[g] = groups[g]
        BY <1>4, <1>5, <1>6, <3>1
      <4> QED
        BY <1>0, <1>3, <3>1, <4>1 DEF ResultsAreHedgedReads, Simultaneous
    <3>2. CASE g = Len(groups) + 1
      <4>1. groups'[g] = indices /\ out_effective'[g] = l
        BY <1>4, <1>5, <1>6, <3>2
      <4>2. \A c, d \in Channels :
              timestamp[c][indices[c]] < timestamp[d][indices[d]] + MAX_PAIR_GAP
        BY DEF Pair, WithinGap, TimestampOf
      <4>3. /\ \E c \in Channels : l = latency[c][indices[c]]
            /\ \A c \in Channels : l <= latency[c][indices[c]]
        BY <1>2 DEF BestLatency, LatencyOf
      <4> QED
        BY <1>3, <4>1, <4>2, <4>3 DEF Simultaneous
    <3> QED
      BY <1>5, <1>6, <3>1, <3>2
  <2> QED
    BY <2>1, <2>2 DEF ResultsAreHedgedReads
<1>11. SamplesUsedOnce'
  <2> SUFFICES ASSUME NEW g \in 1..Len(groups'), NEW h \in 1..Len(groups'), g < h,
                      NEW c \in Channels
               PROVE  groups'[g][c] < groups'[h][c]
    BY DEF SamplesUsedOnce
  <2>1. g \in 1..Len(groups) /\ groups'[g] = groups[g]
    BY <1>5, <1>6
  <2>2. CASE h \in 1..Len(groups)
    BY <1>0, <1>5, <2>1, <2>2 DEF SamplesUsedOnce
  <2>3. CASE h = Len(groups) + 1
    BY <1>0, <1>5, <2>1, <2>3 DEF UsedInv
  <2> QED
    BY <1>5, <1>6, <2>2, <2>3
<1>12. UsedInv'
  <2> SUFFICES ASSUME NEW g \in 1..Len(groups'), NEW c \in Channels
               PROVE  groups'[g][c] < indices'[c]
    BY DEF UsedInv
  <2>1. CASE g \in 1..Len(groups)
    <3>1. groups[g][c] < indices[c] /\ groups'[g] = groups[g]
      BY <1>0, <1>5, <2>1 DEF UsedInv
    <3>2. groups[g] \in [Channels -> Samples]
      BY <1>0, <2>1 DEF TypeOK
    <3>3. groups[g][c] \in Int
      BY <3>2, <1>1 DEF Samples
    <3> QED
      BY <1>7, <3>1, <3>3
  <2>2. CASE g = Len(groups) + 1
    BY <1>5, <1>7, <2>2
  <2> QED
    BY <1>5, <1>6, <2>1, <2>2
<1> QED
  BY <1>8, <1>9, <1>10, <1>11, <1>12 DEF IInv

\* A sample passed over: nothing but one index changes, upwards.
LEMMA SkipIInv == IInv /\ Skip => IInv'
<1> SUFFICES ASSUME IInv, Skip PROVE IInv'
  OBVIOUS
<1>0. TypeOK /\ OrderInv /\ ResultsAreHedgedReads /\ SamplesUsedOnce /\ UsedInv
  BY DEF IInv
<1>1. indices \in [Channels -> Samples] /\ NumSamples \in Nat
  BY <1>0, IndicesInBounds, PairAssumption DEF Skip, PairAssumption
<1>2. PICK c \in Channels : indices' = [indices EXCEPT ![c] = @ + 1]
  BY DEF Skip, Skipped
<1>3. /\ timestamp' = timestamp /\ latency' = latency /\ running' = running
      /\ out_effective' = out_effective /\ groups' = groups
  BY DEF Skip, samples
<1>4. TypeOK'
  <2>1. indices' \in [Channels -> 0..NumSamples]
    BY <1>1, <1>2 DEF Samples
  <2> QED
    BY <1>0, <1>3, <2>1 DEF TypeOK
<1>5. OrderInv' /\ ResultsAreHedgedReads' /\ SamplesUsedOnce'
  BY <1>0, <1>3 DEF OrderInv, InOrder, ResultsAreHedgedReads, Simultaneous, SamplesUsedOnce
<1>6. UsedInv'
  <2> SUFFICES ASSUME NEW g \in 1..Len(groups), NEW d \in Channels
               PROVE  groups[g][d] < indices'[d]
    BY <1>3 DEF UsedInv
  <2>1. groups[g] \in [Channels -> Samples] /\ groups[g][d] < indices[d]
    BY <1>0 DEF TypeOK, UsedInv
  <2>2. groups[g][d] \in Int /\ indices[d] \in Int
    BY <1>1, <2>1 DEF Samples
  <2>3. indices'[d] \in {indices[d], indices[d] + 1}
    BY <1>1, <1>2
  <2> QED
    BY <2>1, <2>2, <2>3
<1> QED
  BY <1>4, <1>5, <1>6 DEF IInv

\* No step of the merge leaves the invariant.
LEMMA StepIInv == IInv /\ [Next]_vars => IInv'
<1> SUFFICES ASSUME IInv, [Next]_vars PROVE IInv'
  OBVIOUS
<1>1. CASE Pair
  BY <1>1, PairIInv
<1>2. CASE Skip
  BY <1>2, SkipIInv
<1>3. CASE Stop
  BY <1>3 DEF Stop, IInv, TypeOK, OrderInv, InOrder, ResultsAreHedgedReads, Simultaneous,
              SamplesUsedOnce, UsedInv, samples
<1>4. CASE UNCHANGED vars
  BY <1>4 DEF vars, IInv, TypeOK, OrderInv, InOrder, ResultsAreHedgedReads, Simultaneous,
              SamplesUsedOnce, UsedInv, samples
<1> QED
  BY <1>1, <1>2, <1>3, <1>4 DEF Next

LEMMA AlwaysIInv == Spec => []IInv
<1> QED
  BY InitIInv, StepIInv, PTL DEF Spec

-------------------------------------------------------------------------------
\* The indices never leave 0..num_samples, whatever the timestamps are.
THEOREM TypeCorrect == Spec => []TypeOK
<1>1. IInv => TypeOK
  BY DEF IInv
<1> QED
  BY <1>1, AlwaysIInv, PTL

\* Every result is the lowest latency of a group of reads less than MAX_PAIR_GAP
\* apart.
THEOREM ResultsHedged == Spec => []ResultsAreHedgedReads
<1>1. IInv => ResultsAreHedgedReads
  BY DEF IInv
<1> QED
  BY <1>1, AlwaysIInv, PTL

\* No sample counts in two groups.
THEOREM UsedOnce == Spec => []SamplesUsedOnce
<1>1. IInv => SamplesUsedOnce
  BY DEF IInv
<1> QED
  BY <1>1, AlwaysIInv, PTL

\* The lagging sample and the one furthest ahead are too far apart, and later
\* samples of the channel ahead are further still.
LEMMA HopelessStep ==
  ASSUME IInv, Next, NEW c \in Channels, indices'[c] # indices[c], groups' = groups,
         NEW g \in [Channels -> Samples], g[c] = indices[c],
         \A d \in Channels : g[d] >= indices[d]
  PROVE  ~Simultaneous(g)
<1>0. TypeOK /\ OrderInv
  BY DEF IInv
<1>1. Skip
  <2>1. ~Stop
    BY DEF Stop
  <2>2. ASSUME Pair PROVE FALSE
    <3>1. indices \in [Channels -> Samples]
      BY <1>0, <2>2, IndicesInBounds DEF Pair
    <3>2. Len(groups') = Len(groups) + 1 /\ Len(groups) \in Nat
      BY <1>0, <2>2, <3>1, Appended DEF TypeOK, Pair
    <3> QED
      BY <3>2
  <2> QED
    BY <2>1, <2>2 DEF Next
<1>2. indices \in [Channels -> Samples] /\ NumSamples \in Nat /\ MAX_PAIR_GAP \in Nat
  BY <1>0, <1>1, IndicesInBounds, PairAssumption DEF Skip, PairAssumption
<1>3. PICK b \in Channels : LaggingChannel(b) /\ indices' = Skipped(b)
  BY <1>1 DEF Skip
<1>4. b = c
  BY <1>2, <1>3 DEF Skipped
<1>5. PICK a, e \in Channels :
        ~(timestamp[a][indices[a]] < timestamp[e][indices[e]] + MAX_PAIR_GAP)
  BY <1>1 DEF Skip, WithinGap, TimestampOf
<1>6. timestamp[c][indices[c]] <= timestamp[e][indices[e]]
  BY <1>3, <1>4 DEF LaggingChannel, TimestampOf
<1>7. \A d \in Channels : \A k \in Samples : timestamp[d][k] \in Nat
  BY <1>0, PairAssumption DEF TypeOK, PairAssumption
<1>8. timestamp[a][indices[a]] <= timestamp[a][g[a]]
  <2>1. g[a] \in Samples /\ indices[a] \in Samples /\ g[a] >= indices[a]
    BY <1>2
  <2>2. CASE g[a] = indices[a]
    BY <1>7, <2>1, <2>2
  <2>3. CASE indices[a] < g[a]
    <3>1. timestamp[a][indices[a]] < timestamp[a][g[a]]
      BY <1>0, <2>1, <2>3 DEF OrderInv, InOrder
    <3> QED
      BY <1>7, <2>1, <3>1
  <2> QED
    BY <1>2, <2>1, <2>2, <2>3 DEF Samples
<1>9. ~(timestamp[a][g[a]] < timestamp[c][g[c]] + MAX_PAIR_GAP)
  <2>1. /\ timestamp[a][indices[a]] \in Nat /\ timestamp[a][g[a]] \in Nat
        /\ timestamp[e][indices[e]] \in Nat /\ timestamp[c][indices[c]] \in Nat
    BY <1>2, <1>7
  <2> QED
    BY <1>2, <1>5, <1>6, <1>8, <2>1
<1> QED
  BY <1>9 DEF Simultaneous

\* A sample that is passed over has no partners left: the greedy merge gives
\* nothing away.
THEOREM NothingGivenAway == Spec => SkippedAreHopeless
<1> DEFINE Hopeless ==
      \A c \in Channels :
        indices'[c] # indices[c] /\ groups' = groups =>
          ~ \E g \in [Channels -> Samples] :
               /\ g[c] = indices[c]
               /\ \A d \in Channels : g[d] >= indices[d]
               /\ Simultaneous(g)
<1>1. IInv /\ [Next]_vars => [Hopeless]_vars
  <2> SUFFICES ASSUME IInv, [Next]_vars, ~UNCHANGED vars PROVE Hopeless
    OBVIOUS
  <2>1. Next
    OBVIOUS
  <2> QED
    BY <2>1, HopelessStep
<1>2. Spec => [][Hopeless]_vars
  BY <1>1, AlwaysIInv, PTL DEF Spec
<1> QED
  BY <1>2 DEF SkippedAreHopeless
-------------------------------------------------------------------------------
\* The members of G that use a sample of c from before its index.
Behind(G, c) == {h \in G : h[c] < indices[c]}

\* Whatever disjoint groups could have been made of the samples that one channel
\* has left behind, the merge has made as many.
KeepsUp(G) ==
  \A c \in Channels :
    IsFiniteSet(Behind(G, c)) /\ Cardinality(Behind(G, c)) <= Len(groups)

CountInv ==
  /\ \A G \in SUBSET Possible : Disjoint(G) => KeepsUp(G)
  /\ ~running => OutOfBounds

\* The possible groups depend on the samples alone.
LEMMA PossibleConstant ==
  ASSUME UNCHANGED samples
  PROVE  Possible' = Possible
BY DEF Possible, Simultaneous, samples

LEMMA InitCountInv == Init => CountInv
<1> SUFFICES ASSUME Init PROVE CountInv
  OBVIOUS
<1>1. ASSUME NEW G \in SUBSET Possible, NEW c \in Channels PROVE Behind(G, c) = {}
  <2>1. \A h \in G : h[c] \in Nat
    BY PairAssumption DEF Possible, Samples, PairAssumption
  <2> QED
    BY <2>1 DEF Init, Behind
<1>2. ASSUME NEW G \in SUBSET Possible PROVE KeepsUp(G)
  <2>1. Len(groups) = 0 /\ 0 <= 0
    BY DEF Init
  <2> QED
    BY <1>1, <2>1, FS_EmptySet DEF KeepsUp
<1> QED
  BY <1>2 DEF Init, CountInv

\* A group adds one; each channel leaves one sample behind, which at most one of
\* any disjoint groups uses.
LEMMA PairCountInv == IInv /\ CountInv /\ Pair => CountInv'
<1> SUFFICES ASSUME IInv, CountInv, Pair PROVE CountInv'
  OBVIOUS
<1>1. indices \in [Channels -> Samples] /\ NumSamples \in Nat
  BY IndicesInBounds, PairAssumption DEF IInv, Pair, PairAssumption
<1>2. Len(groups') = Len(groups) + 1 /\ Len(groups) \in Nat
  BY <1>1, Appended DEF IInv, TypeOK, Pair
<1>3. ASSUME NEW G \in SUBSET Possible, Disjoint(G), NEW c \in Channels
      PROVE  IsFiniteSet(Behind(G, c)') /\ Cardinality(Behind(G, c)') <= Len(groups')
  <2> DEFINE B == Behind(G, c)
  <2>1. IsFiniteSet(B) /\ Cardinality(B) <= Len(groups) /\ Cardinality(B) \in Nat
    BY <1>3, FS_CardinalityType DEF CountInv, KeepsUp
  <2>2. indices'[c] = indices[c] + 1 /\ \A h \in G : h[c] \in Nat
    BY <1>1 DEF Pair, Advanced, Possible, Samples
  <2>3. Behind(G, c)' = B \union {h \in G : h[c] = indices[c]}
    BY <1>1, <2>2 DEF Behind, Samples
  <2>4. CASE {h \in G : h[c] = indices[c]} = {}
    <3>1. Behind(G, c)' = B
      BY <2>3, <2>4
    <3> QED
      BY <1>2, <2>1, <3>1
  <2>5. CASE {h \in G : h[c] = indices[c]} # {}
    <3>1. PICK g \in G : g[c] = indices[c]
      BY <2>5
    <3>2. {h \in G : h[c] = indices[c]} = {g}
      BY <1>3, <3>1 DEF Disjoint
    <3>3. Behind(G, c)' = B \union {g}
      BY <2>3, <3>2
    <3>4. /\ IsFiniteSet(B \union {g})
          /\ Cardinality(B \union {g}) = IF g \in B THEN Cardinality(B) ELSE Cardinality(B) + 1
      BY <2>1, FS_AddElement
    <3> QED
      BY <1>2, <2>1, <3>3, <3>4
  <2> QED
    BY <2>4, <2>5
<1>4. Possible' = Possible /\ running' = running /\ running
  BY PossibleConstant DEF Pair
<1>5. \A G : Disjoint(G)' <=> Disjoint(G)
  BY DEF Disjoint
<1> QED
  BY <1>3, <1>4, <1>5 DEF CountInv, KeepsUp

\* A sample passed over is hopeless, so every possible group that uses it, or an
\* earlier one of its channel, is behind the index of the channel that leads.
LEMMA SkipCountInv == IInv /\ CountInv /\ Skip => CountInv'
<1> SUFFICES ASSUME IInv, CountInv, Skip PROVE CountInv'
  OBVIOUS
<1>0. TypeOK /\ OrderInv
  BY DEF IInv
<1>1. indices \in [Channels -> Samples] /\ NumSamples \in Nat /\ MAX_PAIR_GAP \in Nat
  BY <1>0, IndicesInBounds, PairAssumption DEF Skip, PairAssumption
<1>2. PICK b \in Channels : LaggingChannel(b) /\ indices' = Skipped(b)
  BY DEF Skip
<1>3. PICK a \in Channels, e \in Channels :
        ~(timestamp[a][indices[a]] < timestamp[e][indices[e]] + MAX_PAIR_GAP)
  BY DEF Skip, WithinGap, TimestampOf
<1>4. timestamp[b][indices[b]] <= timestamp[e][indices[e]]
  BY <1>2 DEF LaggingChannel, TimestampOf
<1>5. \A d \in Channels : \A k \in Samples : timestamp[d][k] \in Nat
  BY <1>0, PairAssumption DEF TypeOK, PairAssumption
<1>6. \A d \in Channels : \A j, k \in Samples : j <= k => timestamp[d][j] <= timestamp[d][k]
  BY <1>0, <1>1, <1>5 DEF OrderInv, InOrder, Samples
<1>7. ASSUME NEW h \in Possible, h[b] <= indices[b]
      PROVE  h[a] < indices[a]
  <2>1. h \in [Channels -> Samples] /\ Simultaneous(h)
    BY DEF Possible
  <2>2. h[a] \in Samples /\ h[b] \in Samples /\ \A d \in Channels : indices[d] \in Samples
    BY <1>1, <2>1
  <2>3. timestamp[a][h[a]] < timestamp[b][h[b]] + MAX_PAIR_GAP
    BY <2>1 DEF Simultaneous
  <2>4. timestamp[b][h[b]] <= timestamp[b][indices[b]]
    BY <1>6, <1>7, <2>2
  <2>5. ASSUME indices[a] <= h[a] PROVE FALSE
    <3>1. timestamp[a][indices[a]] <= timestamp[a][h[a]]
      BY <1>6, <2>2, <2>5
    <3> QED
      BY <1>1, <1>3, <1>4, <1>5, <2>2, <2>3, <2>4, <3>1
  <2> QED
    BY <1>1, <2>2, <2>5 DEF Samples
<1>8. ASSUME NEW G \in SUBSET Possible, Disjoint(G), NEW c \in Channels
      PROVE  IsFiniteSet(Behind(G, c)') /\ Cardinality(Behind(G, c)') <= Len(groups)
  <2>1. \A d \in Channels : /\ IsFiniteSet(Behind(G, d))
                            /\ Cardinality(Behind(G, d)) \in Nat
                            /\ Cardinality(Behind(G, d)) <= Len(groups)
    BY <1>8, FS_CardinalityType DEF CountInv, KeepsUp
  <2>2. CASE c # b
    <3>1. Behind(G, c)' = Behind(G, c)
      BY <1>1, <1>2, <2>2 DEF Skipped, Behind
    <3> QED
      BY <2>1, <3>1
  <2>3. CASE c = b
    <3>1. \A h \in G : h[b] \in Nat
      BY <1>1 DEF Possible, Samples
    <3>2. indices'[b] = indices[b] + 1 /\ indices[b] \in Nat
      BY <1>1, <1>2 DEF Skipped, Samples
    <3>3. Behind(G, c)' \in SUBSET Behind(G, a)
      BY <1>7, <2>3, <3>1, <3>2 DEF Behind
    <3>4. IsFiniteSet(Behind(G, c)') /\ Cardinality(Behind(G, c)') <= Cardinality(Behind(G, a))
      BY <2>1, <3>3, FS_Subset
    <3>5. Cardinality(Behind(G, c)') \in Nat /\ Len(groups) \in Nat
      BY <1>0, <3>4, FS_CardinalityType DEF TypeOK
    <3> QED
      BY <2>1, <3>4, <3>5
  <2> QED
    BY <2>2, <2>3
<1>9. Possible' = Possible /\ groups' = groups /\ running' = running /\ running
  BY PossibleConstant DEF Skip
<1>10. \A G : Disjoint(G)' <=> Disjoint(G)
  BY DEF Disjoint
<1> QED
  BY <1>8, <1>9, <1>10 DEF CountInv, KeepsUp

LEMMA AlwaysCountInv == Spec => []CountInv
<1>1. IInv /\ CountInv /\ [Next]_vars => CountInv'
  <2> SUFFICES ASSUME IInv, CountInv, [Next]_vars PROVE CountInv'
    OBVIOUS
  <2>1. CASE Pair
    BY <2>1, PairCountInv
  <2>2. CASE Skip
    BY <2>2, SkipCountInv
  <2>3. CASE Stop
    <3>1. Possible' = Possible
      BY <2>3, PossibleConstant DEF Stop
    <3> QED
      BY <2>3, <3>1 DEF Stop, CountInv, KeepsUp, Behind, Disjoint, OutOfBounds
  <2>4. CASE UNCHANGED vars
    <3>1. Possible' = Possible
      BY <2>4, PossibleConstant DEF vars
    <3> QED
      BY <2>4, <3>1 DEF vars, CountInv, KeepsUp, Behind, Disjoint, OutOfBounds
  <2> QED
    BY <2>1, <2>2, <2>3, <2>4 DEF Next
<1> QED
  BY <1>1, InitCountInv, AlwaysIInv, PTL DEF Spec

\* When the merge has ended, one channel has left all its samples behind: no
\* disjoint groups are more than those the merge made.
THEOREM AsManyAsPossible == Spec => []PairsAsManyAsPossible
<1>1. IInv /\ CountInv => PairsAsManyAsPossible
  <2> SUFFICES ASSUME IInv, CountInv, ~running,
                      NEW G \in kSubset(Len(groups) + 1, Possible), Disjoint(G)
               PROVE  FALSE
    BY DEF PairsAsManyAsPossible
  <2>1. G \in SUBSET Possible /\ Cardinality(G) = Len(groups) + 1
    BY DEF kSubset
  <2>2. PICK c \in Channels : indices[c] >= NumSamples
    BY DEF CountInv, OutOfBounds
  <2>3. indices[c] \in Nat /\ NumSamples \in Nat /\ Len(groups) \in Nat
    BY PairAssumption DEF IInv, TypeOK, PairAssumption
  <2>4. Behind(G, c) = G
    BY <2>1, <2>2, <2>3 DEF Behind, Possible, Samples
  <2>5. Cardinality(G) <= Len(groups)
    BY <2>1, <2>4 DEF CountInv, KeepsUp
  <2> QED
    BY <2>1, <2>3, <2>5
<1> QED
  BY <1>1, AlwaysIInv, AlwaysCountInv, PTL

-------------------------------------------------------------------------------
\* The while loop cannot go round for ever: no index goes back, and every turn but
\* the last takes some channel on, of the num_samples that each has.
THEOREM LoopAdvances ==
  Spec => [][/\ \A c \in Channels : indices'[c] \in {indices[c], indices[c] + 1}
             /\ running' => \E c \in Channels : indices'[c] = indices[c] + 1]_vars
<1> DEFINE Advances ==
      /\ \A c \in Channels : indices'[c] \in {indices[c], indices[c] + 1}
      /\ running' => \E c \in Channels : indices'[c] = indices[c] + 1
<1>1. IInv /\ [Next]_vars => [Advances]_vars
  <2> SUFFICES ASSUME IInv, Next PROVE Advances
    OBVIOUS
  <2>0. indices = [c \in Channels |-> indices[c]]
    BY DEF IInv, TypeOK
  <2>1. CASE Pair
    <3>1. 0 \in Channels
      BY PairAssumption DEF PairAssumption, Channels
    <3> QED
      BY <2>1, <3>1 DEF Pair, Advanced
  <2>2. CASE Skip
    <3>1. PICK b \in Channels : indices' = Skipped(b)
      BY <2>2 DEF Skip
    <3> QED
      BY <2>0, <3>1 DEF Skipped
  <2>3. CASE Stop
    BY <2>3 DEF Stop
  <2> QED
    BY <2>1, <2>2, <2>3 DEF Next
<1> QED
  BY <1>1, AlwaysIInv, PTL DEF Spec
===============================================================================
