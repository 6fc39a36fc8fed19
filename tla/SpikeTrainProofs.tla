---------------------------- MODULE SpikeTrainProofs ----------------------------
(***************************************************************************)
(* Proofs about SpikeTrain: a train of refreshes is called periodic in     *)
(* spite of noise, and without noise the histogram peaks at its period,    *)
(* for any period, lateness, calibration, noise and length of the train.   *)
(***************************************************************************)
EXTENDS SpikeTrain, SequenceTheorems, FiniteSetTheorems, WellFoundedInduction, TLAPS

TypeOK ==
  /\ spikes \in Seq(Int)
  /\ due \in Nat
  /\ missed \in 0..MaxMissed
  /\ noise \in Nat
  /\ expected \in Calibrated

\* The intervals near no multiple of the period.
Spoilt == {k \in 1..n_intervals : ~\E h \in Harmonics : Near(Interval(k), h)}

\* The last spike is that of the last refresh seen.
SeenLast == \E late \in Late : Last(spikes) = (due - 1 - missed) * T + late

\* Each noise spike has spoilt two intervals at most, the last one so far only
\* one if no refresh was seen since.
SpoiltInv ==
  spikes # <<>> =>
    \/ Cardinality(Spoilt) + 1 <= 2 * noise
    \/ Cardinality(Spoilt) <= 2 * noise /\ SeenLast

\* Without noise all intervals are whole.
Whole(k) == \E h \in 1..3, l1, l2 \in Late : Interval(k) = h * T + l2 - l1

WholeInv ==
  noise = 0 => /\ spikes # <<>> => SeenLast
               /\ \A k \in 1..n_intervals : Whole(k)

IInv == TypeOK /\ SpoiltInv /\ WholeInv /\ NoiseIsOutvoted

-------------------------------------------------------------------------------
\* What is assumed of the machine: the period is positive as calibrated, and lateness
\* and three times the calibration's error stay within 15% of it.
LEMMA CalibrationFacts ==
  ASSUME expected \in Calibrated, NEW late \in Late
  PROVE  \E e \in Nat : /\ T = expected + e /\ expected \in Nat \ {0}
                        /\ late \in Nat /\ 100 * (late + 3 * e) <= 15 * expected
<1>1. PICK e \in Short : expected = T - e
  BY DEF Calibrated
<1>2. T \in Nat /\ T > 0 /\ e \in Nat /\ late \in Nat /\ 100 * (late + 3 * e) <= 15 * (T - e)
  BY TrainAssumption DEF TrainAssumption
<1>3. T - e > 0
  BY <1>2
<1> QED
  BY <1>1, <1>2, <1>3

\* From one refresh seen to the next is near a multiple of the period.
LEMMA WholeIsNear ==
  ASSUME expected \in Calibrated, NEW l1 \in Late, NEW l2 \in Late, NEW h \in 1..3
  PROVE  /\ h * T + l2 - l1 \in Int
         /\ Near(h * T + l2 - l1, h)
<1>1. PICK e \in Nat : /\ T = expected + e /\ expected \in Nat \ {0}
                       /\ l1 \in Nat /\ 100 * (l1 + 3 * e) <= 15 * expected
  BY CalibrationFacts
<1>2. l2 \in Nat /\ 100 * (l2 + 3 * e) <= 15 * expected
  <2>1. PICK d \in Nat : /\ T = expected + d /\ l2 \in Nat
                         /\ 100 * (l2 + 3 * d) <= 15 * expected
    BY CalibrationFacts
  <2> QED
    BY <1>1, <2>1
<1>3. h = 1 \/ h = 2 \/ h = 3
  OBVIOUS
<1> QED
  BY <1>1, <1>2, <1>3 DEF Near

\* A recorded spike leaves the intervals before it as they are and ends a new one.
LEMMA AppendedSpike ==
  ASSUME TypeOK, NEW e \in Int, spikes' = Append(spikes, e)
  PROVE  /\ Len(spikes) \in Nat /\ n_intervals = Len(spikes) - 1 /\ n_intervals' = Len(spikes)
         /\ spikes' \in Seq(Int) /\ spikes' # <<>> /\ Last(spikes)' = e
         /\ spikes # <<>> => Last(spikes) \in Int /\ Len(spikes) > 0
         /\ spikes = <<>> => Len(spikes) = 0
         /\ \A k \in 1..n_intervals : Interval(k)' = Interval(k)
         /\ spikes # <<>> => \A k \in Nat : k = Len(spikes) => Interval(k)' = e - Last(spikes)
<1>1. PICK n \in Nat : n = Len(spikes) /\ DOMAIN spikes = 1..n
  BY DEF TypeOK
<1>2. /\ spikes' \in Seq(Int) /\ Len(spikes') = n + 1 /\ spikes'[n + 1] = e
      /\ \A k \in 1..n : spikes'[k] = spikes[k] /\ spikes[k] \in Int
  BY <1>1 DEF TypeOK
<1>3. n_intervals = n - 1 /\ n_intervals' = n
  BY <1>1, <1>2 DEF n_intervals
<1>4. \A k \in 1..(n - 1) : Interval(k)' = Interval(k)
  BY <1>1, <1>2 DEF Interval
<1>5. spikes # <<>> => n \in 1..n /\ Last(spikes) = spikes[n]
  BY <1>1 DEF Last, TypeOK
<1>6. Last(spikes)' = e /\ spikes' # <<>>
  BY <1>1, <1>2 DEF Last
<1>7. spikes # <<>> => Interval(n)' = e - Last(spikes)
  BY <1>1, <1>2, <1>5 DEF Interval
<1>8. spikes = <<>> => n = 0
  BY <1>1
<1> QED
  BY <1>1, <1>2, <1>3, <1>4, <1>5, <1>6, <1>7, <1>8

\* The spoilt intervals are finitely many; a set with one element more has at
\* most one more.
LEMMA SpoiltFinite ==
  TypeOK => IsFiniteSet(Spoilt) /\ Cardinality(Spoilt) \in Nat
<1> SUFFICES ASSUME TypeOK PROVE IsFiniteSet(Spoilt) /\ Cardinality(Spoilt) \in Nat
  OBVIOUS
<1>1. n_intervals \in Int
  BY DEF TypeOK, n_intervals
<1>2. IsFiniteSet(1..n_intervals) /\ Spoilt \in SUBSET (1..n_intervals)
  BY <1>1, FS_Interval DEF Spoilt
<1> QED
  BY <1>2, FS_Subset, FS_CardinalityType

LEMMA OneMore ==
  ASSUME NEW S, IsFiniteSet(S), NEW U, NEW x, U \subseteq S \union {x}
  PROVE  /\ Cardinality(S) \in Nat /\ Cardinality(U) \in Nat
         /\ Cardinality(U) <= Cardinality(S) + 1
         /\ U \subseteq S => Cardinality(U) <= Cardinality(S)
<1>1. IsFiniteSet(S \union {x}) /\ Cardinality(S) \in Nat
      /\ Cardinality(S \union {x}) = IF x \in S THEN Cardinality(S) ELSE Cardinality(S) + 1
  BY FS_AddElement, FS_CardinalityType
<1>2. IsFiniteSet(U) /\ Cardinality(U) \in Nat /\ Cardinality(U) <= Cardinality(S \union {x})
  BY <1>1, FS_Subset, FS_CardinalityType
<1>3. U \subseteq S => Cardinality(U) <= Cardinality(S)
  BY FS_Subset
<1> QED
  BY <1>1, <1>2, <1>3

\* A recorded spike spoils the interval it ends, or none if that is near a multiple.
LEMMA SpoiltByOne ==
  ASSUME TypeOK, UNCHANGED expected, NEW e \in Int, spikes' = Append(spikes, e)
  PROVE  /\ Spoilt' \subseteq Spoilt \union {Len(spikes)}
         /\ spikes = <<>> => Spoilt' = {}
         /\ spikes # <<>> /\ (\E h \in Harmonics : Near(e - Last(spikes), h)) => Spoilt' \subseteq Spoilt
<1>1. PICK n \in Nat : n = Len(spikes)
  BY AppendedSpike
<1>2. n_intervals = n - 1 /\ n_intervals' = n /\ \A k \in 1..(n - 1) : Interval(k)' = Interval(k)
  BY <1>1, AppendedSpike
<1>3. ASSUME NEW k \in Spoilt', k # n PROVE k \in Spoilt
  <2>1. k \in 1..n /\ k \in 1..(n - 1)
    BY <1>1, <1>2, <1>3 DEF Spoilt
  <2>2. Interval(k)' = Interval(k)
    BY <1>2, <2>1
  <2>3. ~\E h \in Harmonics : Near(Interval(k), h)'
    BY <1>3 DEF Spoilt
  <2>4. ~\E h \in Harmonics : Near(Interval(k), h)
    BY <2>2, <2>3 DEF Near
  <2> QED
    BY <1>2, <2>1, <2>4 DEF Spoilt
<1>4. spikes = <<>> => Spoilt' = {}
  <2>1. spikes = <<>> => 1..n_intervals' = {}
    BY <1>1, <1>2, AppendedSpike
  <2> QED
    BY <2>1 DEF Spoilt
<1>5. ASSUME spikes # <<>>, \E h \in Harmonics : Near(e - Last(spikes), h) PROVE n \notin Spoilt'
  <2>1. Interval(n)' = e - Last(spikes)
    BY <1>1, <1>5, AppendedSpike
  <2>2. \E h \in Harmonics : Near(Interval(n), h)'
    BY <1>5, <2>1 DEF Near
  <2> QED
    BY <2>2 DEF Spoilt
<1> QED
  BY <1>1, <1>3, <1>4, <1>5

-------------------------------------------------------------------------------
\* A refresh that is seen ends an interval that is whole, if the last spike was
\* a refresh too; if it was noise, that spike is the interval's excuse.
LEMMA SeenInterval ==
  ASSUME TypeOK, spikes # <<>>, SeenLast, NEW late \in Late
  PROVE  \E h \in 1..3, l1 \in Late : (due * T + late) - Last(spikes) = h * T + late - l1
<1>1. PICK l1 \in Late : Last(spikes) = (due - 1 - missed) * T + l1
  BY DEF SeenLast
<1>2. /\ T \in Nat /\ due \in Nat /\ missed \in Nat /\ missed + 1 \in 1..3
      /\ late \in Nat /\ l1 \in Nat
  BY TrainAssumption DEF TrainAssumption, TypeOK
<1>3. due * T - (due - 1 - missed) * T = (missed + 1) * T
  <2>1. missed = 0 \/ missed = 1 \/ missed = 2
    BY <1>2
  <2> QED
    BY <1>2, <2>1
<1>4. (due - 1 - missed) * T \in Int /\ due * T \in Int /\ (missed + 1) * T \in Int
  BY <1>2
<1>5. (due * T + late) - Last(spikes) = (missed + 1) * T + late - l1
  BY <1>1, <1>2, <1>3, <1>4
<1> QED
  BY <1>2, <1>5

LEMMA RefreshSeenIInv == IInv /\ RefreshSeen => IInv'
<1> SUFFICES ASSUME IInv, RefreshSeen PROVE IInv'
  OBVIOUS
<1>0. TypeOK /\ SpoiltInv /\ WholeInv
  BY DEF IInv
<1>a. PICK late \in Late : spikes' = Append(spikes, due * T + late)
  BY DEF RefreshSeen
<1>1. PICK n, e : n = Len(spikes) /\ e = due * T + late /\ spikes' = Append(spikes, e)
  BY <1>a
<1>2. due' = due + 1 /\ missed' = 0 /\ noise' = noise /\ expected' = expected
  BY DEF RefreshSeen
<1>3. /\ T \in Nat /\ late \in Nat /\ due \in Nat /\ noise \in Nat /\ e \in Int
      /\ 0 \in 0..MaxMissed
  BY <1>0, <1>1, TrainAssumption DEF TrainAssumption, TypeOK
<1>4. /\ n \in Nat /\ n_intervals = n - 1 /\ n_intervals' = n
      /\ spikes' \in Seq(Int) /\ spikes' # <<>> /\ Last(spikes)' = e
      /\ \A k \in 1..n_intervals : Interval(k)' = Interval(k)
      /\ spikes = <<>> => n = 0
      /\ spikes # <<>> => Interval(n)' = e - Last(spikes)
  BY <1>0, <1>1, <1>3, AppendedSpike
<1>5. TypeOK'
  BY <1>0, <1>2, <1>3, <1>4 DEF TypeOK
<1>6. SeenLast'
  <2>1. (due' - 1 - missed') = due
    BY <1>2, <1>3
  <2>2. Last(spikes)' = (due' - 1 - missed') * T + late
    BY <1>1, <1>4, <2>1
  <2> QED
    BY <2>2 DEF SeenLast
<1>7. SpoiltInv'
  <2>1. /\ Spoilt' \subseteq Spoilt \union {n}
        /\ spikes = <<>> => Spoilt' = {}
        /\ spikes # <<>> /\ (\E h \in Harmonics : Near(e - Last(spikes), h)) => Spoilt' \subseteq Spoilt
    BY <1>0, <1>1, <1>2, <1>3, SpoiltByOne
  <2>2. /\ Cardinality(Spoilt) \in Nat /\ Cardinality(Spoilt') \in Nat
        /\ Cardinality(Spoilt') <= Cardinality(Spoilt) + 1
        /\ Spoilt' \subseteq Spoilt => Cardinality(Spoilt') <= Cardinality(Spoilt)
    BY <1>0, <2>1, SpoiltFinite, OneMore
  <2>3. Cardinality(Spoilt') <= 2 * noise
    <3>1. CASE spikes = <<>>
      BY <1>3, <2>1, <3>1, FS_EmptySet
    <3>2. CASE spikes # <<>> /\ Cardinality(Spoilt) + 1 <= 2 * noise
      BY <1>3, <2>2, <3>2
    <3>3. CASE spikes # <<>> /\ Cardinality(Spoilt) <= 2 * noise /\ SeenLast
      <4>1. PICK h \in 1..3, l1 \in Late : (due * T + late) - Last(spikes) = h * T + late - l1
        BY <1>0, <3>3, SeenInterval
      <4>2. Near(e - Last(spikes), h)
        <5>1. e - Last(spikes) = h * T + late - l1
          <6>1. e = due * T + late
            BY <1>1
          <6> QED
            BY <4>1, <6>1, Zenon
        <5>2. expected \in Calibrated
          BY <1>0 DEF TypeOK
        <5>3. Near(h * T + late - l1, h)
          BY <5>2, WholeIsNear
        <5> QED
          BY <5>1, <5>3, Zenon
      <4>3. Spoilt' \subseteq Spoilt
        BY <2>1, <3>3, <4>2 DEF Harmonics
      <4> QED
        BY <1>3, <2>2, <3>3, <4>3
    <3> QED
      BY <1>0, <3>1, <3>2, <3>3 DEF SpoiltInv
  <2> QED
    BY <1>2, <1>6, <2>3 DEF SpoiltInv
<1>8. WholeInv'
  <2>0. SUFFICES ASSUME noise = 0, NEW k \in 1..n PROVE Whole(k)'
    BY <1>2, <1>4, <1>6 DEF WholeInv
  <2>1. CASE k \in 1..n_intervals
    <3>1. Interval(k)' = Interval(k) /\ Whole(k)
      BY <1>0, <1>4, <2>0, <2>1 DEF WholeInv
    <3> QED
      BY <3>1 DEF Whole
  <2>2. CASE k \notin 1..n_intervals
    <3>1. k = n /\ spikes # <<>>
      BY <1>4, <2>2
    <3>2. SeenLast
      BY <1>0, <2>0, <3>1 DEF WholeInv
    <3>3. PICK h \in 1..3, l1 \in Late : (due * T + late) - Last(spikes) = h * T + late - l1
      BY <1>0, <3>1, <3>2, SeenInterval
    <3>4. Interval(k)' = h * T + late - l1
      <4>1. Interval(k)' = e - Last(spikes)
        BY <1>4, <3>1
      <4>2. e = due * T + late
        BY <1>1
      <4> QED
        BY <3>3, <4>1, <4>2, Zenon
    <3> QED
      BY <3>4 DEF Whole
  <2> QED
    BY <2>1, <2>2
<1>9. NoiseIsOutvoted'
  BY DEF RefreshSeen, NoiseIsOutvoted
<1> QED
  BY <1>5, <1>7, <1>8, <1>9 DEF IInv

\* A refresh that is missed is counted.
LEMMA RefreshMissedIInv == IInv /\ RefreshMissed => IInv'
<1> SUFFICES ASSUME IInv, RefreshMissed PROVE IInv'
  OBVIOUS
<1>1. /\ due' = due + 1 /\ missed' = missed + 1 /\ missed < MaxMissed
      /\ spikes' = spikes /\ noise' = noise /\ expected' = expected
  BY DEF RefreshMissed
<1>2. TypeOK /\ SpoiltInv /\ WholeInv /\ due \in Nat /\ missed \in Nat /\ MaxMissed \in Nat
  BY TrainAssumption DEF TrainAssumption, IInv, TypeOK
<1>3. TypeOK'
  BY <1>1, <1>2 DEF TypeOK
<1>4. UNCHANGED Spoilt /\ n_intervals' = n_intervals
  BY <1>1 DEF Spoilt, n_intervals, Interval, Near
<1>5. SeenLast => SeenLast'
  <2>1. due' - 1 - missed' = due - 1 - missed
    BY <1>1, <1>2
  <2> QED
    BY <1>1, <2>1 DEF SeenLast, Last
<1>6. SpoiltInv'
  BY <1>1, <1>2, <1>4, <1>5 DEF SpoiltInv
<1>7. WholeInv'
  BY <1>1, <1>2, <1>4, <1>5 DEF WholeInv, Whole, Interval
<1>8. NoiseIsOutvoted'
  BY DEF RefreshMissed, NoiseIsOutvoted
<1> QED
  BY <1>3, <1>6, <1>7, <1>8 DEF IInv

\* A noise spike may spoil the interval it ends, and one to come.
LEMMA NoiseSpikeIInv == IInv /\ NoiseSpike => IInv'
<1> SUFFICES ASSUME IInv, NoiseSpike PROVE IInv'
  OBVIOUS
<1>0. TypeOK /\ SpoiltInv /\ WholeInv
  BY DEF IInv
<1>a. PICK d \in NoiseAt : spikes' = Append(spikes, (due - 1) * T + d)
  BY DEF NoiseSpike
<1>1. PICK e : e = (due - 1) * T + d /\ spikes' = Append(spikes, e)
  BY <1>a
<1>2. /\ noise' = noise + 1 /\ due' = due /\ missed' = missed /\ expected' = expected
      /\ spikes # <<>>
  BY DEF NoiseSpike
<1>3. T \in Nat /\ d \in Nat /\ due \in Nat /\ noise \in Nat /\ e \in Int
  BY <1>0, <1>1, TrainAssumption DEF TrainAssumption, TypeOK
<1>4. spikes' \in Seq(Int)
  BY <1>0, <1>1, <1>3, AppendedSpike
<1>5. TypeOK'
  BY <1>0, <1>2, <1>3, <1>4 DEF TypeOK
<1>6. SpoiltInv'
  <2>1. Spoilt' \subseteq Spoilt \union {Len(spikes)}
    BY <1>0, <1>1, <1>2, <1>3, SpoiltByOne
  <2>2. /\ Cardinality(Spoilt) \in Nat /\ Cardinality(Spoilt') \in Nat
        /\ Cardinality(Spoilt') <= Cardinality(Spoilt) + 1
    BY <1>0, <2>1, SpoiltFinite, OneMore
  <2>3. Cardinality(Spoilt) <= 2 * noise
    BY <1>0, <1>2, <1>3, <2>2 DEF SpoiltInv
  <2>4. Cardinality(Spoilt') + 1 <= 2 * noise'
    BY <1>2, <1>3, <2>2, <2>3
  <2> QED
    BY <2>4 DEF SpoiltInv
<1>7. WholeInv'
  BY <1>2, <1>3 DEF WholeInv
<1>8. NoiseIsOutvoted'
  BY DEF NoiseSpike, NoiseIsOutvoted
<1> QED
  BY <1>5, <1>6, <1>7, <1>8 DEF IInv

-------------------------------------------------------------------------------
\* Two sets that have no element in common.
LEMMA DisjointUnion ==
  ASSUME NEW A, NEW B, IsFiniteSet(A), IsFiniteSet(B), A \intersect B = {}
  PROVE  /\ IsFiniteSet(A \union B)
         /\ Cardinality(A \union B) = Cardinality(A) + Cardinality(B)
<1>1. Cardinality(A) \in Nat /\ Cardinality(B) \in Nat /\ Cardinality(A \intersect B) = 0
  BY FS_CardinalityType, FS_EmptySet
<1>2. /\ IsFiniteSet(A \union B)
      /\ Cardinality(A \union B) = Cardinality(A) + Cardinality(B) - Cardinality(A \intersect B)
  BY FS_Union
<1> QED
  BY <1>1, <1>2

\* The four parts into which a function to 0..3 divides 1..n.
Fibre(f, v) == {k \in DOMAIN f : f[k] = v}

LEMMA FourParts ==
  ASSUME NEW n \in Nat, NEW f \in [1..n -> 0..3]
  PROVE  /\ \A v \in 0..3 : Cardinality(Fibre(f, v)) \in Nat
         /\ Cardinality(Fibre(f, 1)) + Cardinality(Fibre(f, 2)) + Cardinality(Fibre(f, 3))
              + Cardinality(Fibre(f, 0)) = n
<1>0. PICK A, B, C, D : /\ A = Fibre(f, 1) /\ B = Fibre(f, 2)
                        /\ C = Fibre(f, 3) /\ D = Fibre(f, 0)
  OBVIOUS
<1>1. IsFiniteSet(1..n) /\ Cardinality(1..n) = n
  BY FS_Interval
<1>2. IsFiniteSet(A) /\ IsFiniteSet(B) /\ IsFiniteSet(C) /\ IsFiniteSet(D)
  BY <1>0, <1>1, FS_Subset DEF Fibre
<1>3. /\ Cardinality(A) \in Nat /\ Cardinality(B) \in Nat
      /\ Cardinality(C) \in Nat /\ Cardinality(D) \in Nat
  BY <1>2, FS_CardinalityType
<1>4. PICK AB, ABC : AB = A \union B /\ ABC = AB \union C
  OBVIOUS
<1>5. IsFiniteSet(AB) /\ Cardinality(AB) = Cardinality(A) + Cardinality(B)
  <2>1. A \intersect B = {}
    BY <1>0 DEF Fibre
  <2> QED
    BY <1>2, <1>4, <2>1, DisjointUnion
<1>6. IsFiniteSet(ABC) /\ Cardinality(ABC) = Cardinality(AB) + Cardinality(C)
  <2>1. AB \intersect C = {}
    BY <1>0, <1>4 DEF Fibre
  <2> QED
    BY <1>2, <1>4, <1>5, <2>1, DisjointUnion
<1>7. Cardinality(1..n) = Cardinality(ABC) + Cardinality(D)
  <2>1. ABC \intersect D = {}
    BY <1>0, <1>4 DEF Fibre
  <2>2. \A k \in 1..n : f[k] = 0 \/ f[k] = 1 \/ f[k] = 2 \/ f[k] = 3
    OBVIOUS
  <2>3. ABC \union D = 1..n
    BY <1>0, <1>4, <2>2 DEF Fibre
  <2> QED
    BY <1>2, <1>6, <2>1, <2>3, DisjointUnion
<1>8. Cardinality(A) + Cardinality(B) + Cardinality(C) + Cardinality(D) = n
  BY <1>1, <1>3, <1>5, <1>6, <1>7
<1>9. \A v \in 0..3 : v = 0 \/ v = 1 \/ v = 2 \/ v = 3
  OBVIOUS
<1> QED
  BY <1>0, <1>3, <1>8, <1>9

\* Harmonic finds the multiple that an interval is near, if there is one.
LEMMA HarmonicFinds ==
  ASSUME NEW iv
  PROVE  /\ Harmonic(iv) \in 0..3
         /\ Harmonic(iv) # 0 => Near(iv, Harmonic(iv))
         /\ Harmonic(iv) = 0 <=> ~\E h \in Harmonics : Near(iv, h)
<1>1. CASE \E h \in Harmonics : Near(iv, h)
  <2>1. Harmonic(iv) = CHOOSE h \in Harmonics : Near(iv, h)
    BY <1>1 DEF Harmonic
  <2>2. Harmonic(iv) \in Harmonics /\ Near(iv, Harmonic(iv))
    BY <1>1, <2>1
  <2> QED
    BY <1>1, <2>2 DEF Harmonics
<1>2. CASE ~\E h \in Harmonics : Near(iv, h)
  BY <1>2 DEF Harmonic
<1> QED
  BY <1>1, <1>2

\* What is not spoilt is harmonic.
LEMMA SpoiltOrHarmonic ==
  ASSUME TypeOK, spikes # <<>>
  PROVE  /\ n_intervals \in Nat /\ Cardinality(Spoilt) \in Nat
         /\ HarmonicTotal \in Nat
         /\ HarmonicTotal + Cardinality(Spoilt) = n_intervals
<1>1. PICK n \in Nat : n = n_intervals
  <2>1. Len(spikes) \in Nat /\ Len(spikes) # 0
    BY DEF TypeOK
  <2> QED
    BY <2>1 DEF n_intervals
<1>2. PICK harmonic : harmonic = [k \in 1..n |-> Harmonic(Interval(k))]
  OBVIOUS
<1>3. harmonic \in [1..n -> 0..3] /\ \A k \in 1..n : harmonic[k] = Harmonic(Interval(k))
  BY <1>2, HarmonicFinds
<1>4. /\ \A v \in 0..3 : Cardinality(Fibre(harmonic, v)) \in Nat
      /\ Cardinality(Fibre(harmonic, 1)) + Cardinality(Fibre(harmonic, 2))
           + Cardinality(Fibre(harmonic, 3)) + Cardinality(Fibre(harmonic, 0)) = n
  BY <1>3, FourParts
<1>5. Spoilt = Fibre(harmonic, 0)
  BY <1>1, <1>3, HarmonicFinds DEF Spoilt, Fibre
<1>6. \A v \in 1..3 : Count(v) = Cardinality(Fibre(harmonic, v))
  <2> TAKE v \in 1..3
  <2>1. Fibre(harmonic, v) = {k \in 1..n_intervals : Harmonic(Interval(k)) = v}
    BY <1>1, <1>3 DEF Fibre
  <2> QED
    BY <2>1 DEF Count
<1> QED
  BY <1>1, <1>4, <1>5, <1>6 DEF HarmonicTotal

\* The verdict on a train that was left whole for more than 30% is periodic.
LEMMA AnalyseIInv == IInv /\ Analyse => IInv'
<1> SUFFICES ASSUME IInv, Analyse PROVE IInv'
  OBVIOUS
<1>0. TypeOK /\ SpoiltInv /\ WholeInv
  BY DEF IInv
<1>1. UNCHANGED <<spikes, due, missed, noise, expected>>
  BY DEF Analyse
<1>2. TypeOK' /\ SpoiltInv' /\ WholeInv'
  BY <1>0, <1>1 DEF TypeOK, SpoiltInv, WholeInv, Whole, Spoilt, SeenLast, Last,
                    n_intervals, Interval, Near
<1>3. NoiseIsOutvoted'
  <2>1. SUFFICES ASSUME ~TooFew,
                        100 * (n_intervals - 2 * noise) > 30 * n_intervals
                 PROVE  Verdict = "PERIODIC"
    <3>1. /\ verdict' = IF TooFew THEN "INSUFFICIENT DATA" ELSE Verdict
          /\ n_intervals' = n_intervals /\ noise' = noise
      BY <1>1 DEF Analyse, n_intervals
    <3> QED
      BY <3>1 DEF NoiseIsOutvoted
  <2>2. Len(spikes) >= MinSpikes
    BY <2>1, TrainAssumption DEF TooFew, TrainAssumption, IInv, TypeOK
  <2>3. spikes # <<>>
    <3>1. MinSpikes \in Nat \ {0} /\ Len(<<>>) = 0
      BY TrainAssumption DEF TrainAssumption
    <3> QED
      BY <2>2, <3>1
  <2>4. /\ n_intervals \in Nat /\ Cardinality(Spoilt) \in Nat /\ HarmonicTotal \in Nat
        /\ HarmonicTotal + Cardinality(Spoilt) = n_intervals
    BY <1>0, <2>3, SpoiltOrHarmonic
  <2>5. noise \in Nat
    BY <1>0 DEF TypeOK
  <2>6. Cardinality(Spoilt) <= 2 * noise
    BY <1>0, <2>3, <2>4, <2>5 DEF SpoiltInv
  <2>7. MoreThan(30) /\ MoreThan(15)
    <3>1. 100 * (n_intervals - 2 * noise) > 30 * n_intervals
      BY <2>1
    <3> QED
      BY <2>4, <2>5, <2>6, <3>1 DEF MoreThan
  <2> QED
    BY <2>7 DEF Verdict
<1> QED
  BY <1>2, <1>3 DEF IInv

LEMMA InitIInv == Init => IInv
<1> SUFFICES ASSUME Init PROVE IInv
  OBVIOUS
<1>1. TypeOK
  <2>1. 0 \in 0..MaxMissed
    BY TrainAssumption DEF TrainAssumption
  <2>2. /\ spikes = <<>> /\ due = 0 /\ missed = 0 /\ noise = 0
        /\ expected \in Calibrated
    BY DEF Init
  <2> QED
    BY <2>1, <2>2 DEF TypeOK
<1>2. SpoiltInv /\ NoiseIsOutvoted
  BY DEF Init, SpoiltInv, NoiseIsOutvoted
<1>3. WholeInv
  <2>1. spikes = <<>>
    BY DEF Init
  <2>2. Len(spikes) = 0
    BY <2>1
  <2>3. \A k : k \notin 1..n_intervals
    BY <2>2 DEF n_intervals
  <2> QED
    BY <2>1, <2>3 DEF WholeInv
<1> QED
  BY <1>1, <1>2, <1>3 DEF IInv

LEMMA StepIInv == IInv /\ [Next]_vars => IInv'
<1> SUFFICES ASSUME IInv, [Next]_vars PROVE IInv'
  OBVIOUS
<1>1. CASE Next
  BY <1>1, RefreshSeenIInv, RefreshMissedIInv, NoiseSpikeIInv, AnalyseIInv DEF Next
<1>2. CASE UNCHANGED vars
  <2>1. UNCHANGED <<spikes, due, missed, noise, expected, verdict>>
    BY <1>2 DEF vars
  <2> QED
    BY <2>1 DEF IInv, TypeOK, SpoiltInv, WholeInv, Whole, Spoilt, SeenLast, Last,
                n_intervals, Interval, Near, NoiseIsOutvoted
<1> QED
  BY <1>1, <1>2

LEMMA AlwaysIInv == Spec => []IInv
<1> QED
  BY InitIInv, StepIInv, PTL DEF Spec

\* Every variable keeps its type.
THEOREM TypeCorrect == Spec => []TypeOK
<1>1. IInv => TypeOK
  BY DEF IInv
<1> QED
  BY <1>1, AlwaysIInv, PTL

\* Two intervals for each noise spike are all that noise takes from the verdict.
THEOREM NoiseAlwaysOutvoted == Spec => []NoiseIsOutvoted
<1>1. IInv => NoiseIsOutvoted
  BY DEF IInv
<1> QED
  BY <1>1, AlwaysIInv, PTL

-------------------------------------------------------------------------------
\* A set of numbers that is not empty has a least element.
LEMMA LeastNat ==
  ASSUME NEW S \in SUBSET Nat, S # {}
  PROVE  \E m \in S : \A k \in S : m <= k
<1>1. PICK m \in S : \A k \in S : ~(<<k, m>> \in OpToRel(<, Nat))
  BY NatLessThanWellFounded, WFMin
<1>2. \A k \in S : ~(k < m)
  BY <1>1 DEF OpToRel
<1> QED
  BY <1>2

\* There is a greatest lateness: all are below the period.
LEMMA GreatestLateness ==
  ASSUME expected \in Calibrated, Late # {}
  PROVE  Max(Late) \in Late /\ \A l \in Late : l \in Nat /\ l <= Max(Late)
<1>1. T \in Nat /\ \A l \in Late : l \in Nat /\ T - l \in Nat
  <2> SUFFICES ASSUME NEW l \in Late PROVE l \in Nat /\ T - l \in Nat
    BY TrainAssumption DEF TrainAssumption
  <2>1. PICK e \in Nat : /\ T = expected + e /\ expected \in Nat \ {0}
                         /\ l \in Nat /\ 100 * (l + 3 * e) <= 15 * expected
    BY CalibrationFacts
  <2> QED
    BY <2>1
<1>2. PICK m \in {T - l : l \in Late} : \A k \in {T - l : l \in Late} : m <= k
  <2>1. {T - l : l \in Late} \in SUBSET Nat /\ {T - l : l \in Late} # {}
    BY <1>1
  <2> QED
    BY <2>1, LeastNat
<1>3. PICK greatest \in Late : m = T - greatest
  BY <1>2
<1>4. \A l \in Late : T - greatest <= T - l
  BY <1>2, <1>3
<1>5. \A l \in Late : greatest >= l
  BY <1>1, <1>4
<1>6. Max(Late) \in Late /\ \A l \in Late : Max(Late) >= l
  BY <1>5 DEF Max
<1> QED
  BY <1>1, <1>6

\* What division of a natural number by a positive one leaves.
LEMMA DivMod ==
  ASSUME NEW k \in Nat, NEW d \in Nat \ {0}
  PROVE  /\ k \div d \in Nat
         /\ (k \div d) * d <= k /\ k < (k \div d) * d + d
OBVIOUS

\* Where in the histogram an interval is counted.
LEMMA BinPlace ==
  ASSUME NEW iv \in Int, expected \in Nat \ {0}, InHistogram(iv)
  PROVE  /\ Bin(iv) \in Nat
         /\ Bin(iv) * (2 * expected) <= 200 * (2 * iv - expected)
         /\ 200 * (2 * iv - expected) < Bin(iv) * (2 * expected) + 2 * expected
<1>1. PICK k, d : k = (2 * iv - expected) * 200 /\ d = 2 * expected
  OBVIOUS
<1>2. k \in Nat /\ d \in Nat \ {0} /\ k = 200 * (2 * iv - expected)
  BY <1>1 DEF InHistogram
<1>3. Bin(iv) = k \div d
  BY <1>1 DEF Bin, hist_bins
<1> QED
  BY <1>1, <1>2, <1>3, DivMod

\* Among the bins that are used, one has the largest count, and of several the
\* first has.
LEMMA PeakIsUsed ==
  ASSUME n_intervals \in Nat, UsedBins # {}, UsedBins \subseteq Nat
  PROVE  peak_bin \in UsedBins
<1>1. PICK n \in Nat : n = n_intervals
  OBVIOUS
<1>2. \A b : HistCount(b) \in Nat /\ n - HistCount(b) \in Nat
  <2> TAKE b
  <2>1. PICK S : S = {k \in 1..n_intervals : InHistogram(Interval(k)) /\ Bin(Interval(k)) = b}
    OBVIOUS
  <2>2. IsFiniteSet(1..n) /\ Cardinality(1..n) = n /\ S \in SUBSET (1..n)
    BY <1>1, <2>1, FS_Interval
  <2>3. Cardinality(S) \in Nat /\ Cardinality(S) <= n
    BY <2>2, FS_Subset, FS_CardinalityType
  <2>4. HistCount(b) = Cardinality(S)
    BY <2>1 DEF HistCount
  <2> QED
    BY <2>3, <2>4
<1>3. PICK m \in {n - HistCount(b) : b \in UsedBins} :
        \A k \in {n - HistCount(b) : b \in UsedBins} : m <= k
  <2>1. /\ {n - HistCount(b) : b \in UsedBins} \in SUBSET Nat
        /\ {n - HistCount(b) : b \in UsedBins} # {}
    BY <1>2
  <2> QED
    BY <2>1, LeastNat
<1>4. PICK F : F = {b \in UsedBins : n - HistCount(b) = m}
  OBVIOUS
<1>5. PICK b \in F : \A c \in F : b <= c
  <2>1. F \in SUBSET Nat /\ F # {}
    BY <1>3, <1>4
  <2> QED
    BY <2>1, LeastNat
<1>6. ASSUME NEW c \in UsedBins
      PROVE  \/ HistCount(c) < HistCount(b)
             \/ HistCount(c) = HistCount(b) /\ b <= c
  <2>1. n - HistCount(b) <= n - HistCount(c)
    BY <1>3, <1>4, <1>5
  <2>2. CASE HistCount(c) = HistCount(b)
    <3>1. c \in F
      BY <1>4, <1>5, <2>2
    <3> QED
      BY <1>5, <2>2, <3>1
  <2>3. CASE HistCount(c) # HistCount(b)
    BY <1>2, <2>1, <2>3
  <2> QED
    BY <2>2, <2>3
<1>7. b \in UsedBins
  BY <1>4, <1>5
<1> QED
  BY <1>6, <1>7 DEF peak_bin

\* The middle of the bin of an interval of one period is that period, up to the
\* lateness of its ends and half a bin.
LEMMA BinMiddle ==
  ASSUME NEW E \in Nat \ {0}, NEW P \in Nat, NEW M \in Nat, NEW l1 \in 0..M, NEW l2 \in 0..M,
         NEW b \in Nat,
         b * (2 * E) <= 200 * (2 * (P + l2 - l1) - E),
         200 * (2 * (P + l2 - l1) - E) < b * (2 * E) + 2 * E
  PROVE  (2 * 200 + 4 * b + 2) * E - 4 * 200 * P \in -(4 * 200 * M + 2 * E)..(4 * 200 * M + 2 * E)
<1>1. PICK p \in Nat : p = b * E
  OBVIOUS
<1>2. b * (2 * E) = 2 * p /\ (2 * 200 + 4 * b + 2) * E = 402 * E + 4 * p
  BY <1>1
<1>3. /\ 2 * p <= 200 * (2 * (P + l2 - l1) - E)
      /\ 200 * (2 * (P + l2 - l1) - E) < 2 * p + 2 * E
  BY <1>2
<1> QED
  BY <1>2, <1>3

\* Where there is no noise, an interval in the histogram is one of one period.
LEMMA PeakOfWhole ==
  ASSUME IInv, noise = 0, Count(1) > 0
  PROVE  \E l1, l2 \in Late :
           /\ expected \in Nat \ {0} /\ T \in Nat /\ peak_bin \in Nat
           /\ peak_bin * (2 * expected) <= 200 * (2 * (T + l2 - l1) - expected)
           /\ 200 * (2 * (T + l2 - l1) - expected) < peak_bin * (2 * expected) + 2 * expected
<1>0. TypeOK /\ expected \in Calibrated /\ \A k \in 1..n_intervals : Whole(k)
  BY DEF IInv, TypeOK, WholeInv
<1>1. PICK k0 \in 1..n_intervals : Harmonic(Interval(k0)) = 1
  <2>1. {k \in 1..n_intervals : Harmonic(Interval(k)) = 1} # {}
    BY FS_EmptySet DEF Count
  <2> QED
    BY <2>1
<1>2. n_intervals \in Nat
  <2>1. n_intervals \in Int
    BY <1>0 DEF TypeOK, n_intervals
  <2> QED
    BY <1>1, <2>1
<1>3. \A k \in 1..n_intervals : \E h \in 1..3, l1, l2 \in Late : Interval(k) = h * T + l2 - l1
  BY <1>0 DEF Whole
<1>4. PICK someone \in Late : TRUE
  BY <1>1, <1>3
<1>5. T \in Nat /\ expected \in Nat \ {0}
  <2>1. PICK e \in Nat : T = expected + e /\ expected \in Nat \ {0}
    BY <1>0, CalibrationFacts
  <2> QED
    BY <2>1
\* The multiple is the period itself.
<1>6. ASSUME NEW k \in 1..n_intervals, InHistogram(Interval(k))
      PROVE  /\ Interval(k) \in Int
             /\ \E l1, l2 \in Late : Interval(k) = T + l2 - l1
  <2>1. PICK h \in 1..3, l1 \in Late, l2 \in Late : Interval(k) = h * T + l2 - l1
    BY <1>3
  <2>2. PICK e \in Nat : /\ T = expected + e /\ l1 \in Nat /\ l2 \in Nat
                         /\ 100 * (l1 + 3 * e) <= 15 * expected
    <3>1. \A l \in Late : l \in Nat
      BY TrainAssumption DEF TrainAssumption
    <3>2. \E e \in Nat : T = expected + e /\ 100 * (l1 + 3 * e) <= 15 * expected
      BY <1>0, CalibrationFacts
    <3> QED
      BY <3>1, <3>2
  <2>3. h = 1 \/ h = 2 \/ h = 3
    OBVIOUS
  <2>4. 2 * Interval(k) < 3 * expected
    BY <1>6 DEF InHistogram
  <2>5. h = 1
    BY <1>5, <2>1, <2>2, <2>3, <2>4
  <2>6. Interval(k) = T + l2 - l1 /\ Interval(k) \in Int
    BY <1>5, <2>1, <2>2, <2>5
  <2> QED
    BY <2>6
<1>7. InHistogram(Interval(k0))
  <2>1. Near(Interval(k0), 1)
    BY <1>1, HarmonicFinds
  <2>2. PICK h \in 1..3, l1 \in Late, l2 \in Late : Interval(k0) = h * T + l2 - l1
    BY <1>3
  <2>3. h * T \in Int /\ l1 \in Int /\ l2 \in Int
    BY <1>5, TrainAssumption DEF TrainAssumption
  <2>4. Interval(k0) \in Int
    BY <2>2, <2>3
  <2> QED
    BY <1>5, <2>1, <2>4 DEF Near, InHistogram
<1>8. UsedBins # {} /\ UsedBins \subseteq Nat
  BY <1>1, <1>5, <1>6, <1>7, BinPlace DEF UsedBins
<1>9. PICK k \in 1..n_intervals : InHistogram(Interval(k)) /\ peak_bin = Bin(Interval(k))
  BY <1>2, <1>8, PeakIsUsed DEF UsedBins
<1>10. PICK l1 \in Late, l2 \in Late : Interval(k) = T + l2 - l1 /\ Interval(k) \in Int
  BY <1>6, <1>9
<1>11. /\ Bin(Interval(k)) \in Nat
       /\ Bin(Interval(k)) * (2 * expected) <= 200 * (2 * Interval(k) - expected)
       /\ 200 * (2 * Interval(k) - expected) < Bin(Interval(k)) * (2 * expected) + 2 * expected
  BY <1>5, <1>9, <1>10, BinPlace
<1> QED
  BY <1>5, <1>9, <1>10, <1>11

\* Without noise the peak of the histogram is the machine's refresh period.
THEOREM PeakIsAlwaysPeriod == Spec => []PeakIsPeriod
<1>1. IInv => PeakIsPeriod
  <2> SUFFICES ASSUME IInv, noise = 0, Count(1) > 0
               PROVE  LET peak == 2 * 200 + 4 * peak_bin + 2
                          off  == 4 * 200 * Max(Late) + 2 * expected
                      IN  peak * expected - 4 * 200 * T \in -off..off
    BY DEF PeakIsPeriod, hist_bins
  <2>1. PICK l1 \in Late, l2 \in Late :
          /\ expected \in Nat \ {0} /\ T \in Nat /\ peak_bin \in Nat
          /\ peak_bin * (2 * expected) <= 200 * (2 * (T + l2 - l1) - expected)
          /\ 200 * (2 * (T + l2 - l1) - expected) < peak_bin * (2 * expected) + 2 * expected
    BY PeakOfWhole
  <2>2. Max(Late) \in Nat /\ l1 \in 0..Max(Late) /\ l2 \in 0..Max(Late)
    BY GreatestLateness DEF IInv, TypeOK
  <2> QED
    BY <2>1, <2>2, BinMiddle
<1> QED
  BY <1>1, AlwaysIInv, PTL
===============================================================================
