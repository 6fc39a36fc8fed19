---------------------------- MODULE SpikeProbeProofs ----------------------------
(***************************************************************************)
(* Proofs about SpikeProbe: the records are the first slow reads, deltas   *)
(* add up, the threshold clears the baseline and the report is in order,   *)
(* for any number of reads, any latencies and any capacity of the buffer.  *)
(***************************************************************************)
EXTENDS SpikeProbe, SequenceTheorems, WellFoundedInduction, TLAPS

Reads == [tsc : Nat, latency : Latencies]
RustRecords == [index : Nat, latency : Latencies, delta_prev_cycles : Int]

Preparing == {"parsing", "mapping", "calibrating"}

TypeOK ==
  /\ program \in Programs
  /\ pc \in Preparing \union {"allocating", "probing", "reported", "exited", "crashed"}
  /\ n_probes \in Int
  /\ manual_threshold \in Nat
  /\ threshold \in Nat
  /\ now \in Nat
  /\ history \in Seq(Reads)
  /\ spikes \in Seq(IF program = "rust" THEN RustRecords ELSE Reads)
  /\ last_spike_cycle \in Nat

\* Once there is a calibration it stays, and the threshold that came of it.
CalibInv ==
  /\ pc \in Preparing => calib = <<>>
  /\ calib # <<>> =>
       /\ calib \in Calibrations
       /\ program = "tailslayer_extreme" => threshold = ThresholdExtreme(calib)

\* Nothing is read before the main loop.
EmptyInv ==
  pc \in Preparing \union {"allocating"} =>
    history = <<>> /\ spikes = <<>> /\ last_spike_cycle = 0

\* rust's records are of slow reads, each with the distance to the one before,
\* and the end of the last one is remembered.
RustRecordOK(k) ==
  /\ spikes[k].index + 1 \in DOMAIN history
  /\ spikes[k].latency = history[spikes[k].index + 1].latency
  /\ spikes[k].latency >= threshold
  /\ spikes[k].delta_prev_cycles = IF k = 1 THEN 0 ELSE End(k) - End(k - 1)

RustInv ==
  program = "rust" =>
    /\ \A k \in DOMAIN spikes : RustRecordOK(k)
    /\ spikes = <<>> => last_spike_cycle = 0
    /\ spikes # <<>> => last_spike_cycle = End(Len(spikes))

IInv == TypeOK /\ CalibInv /\ EmptyInv /\ RecordsAreFirstSlowReads /\ RustInv

-------------------------------------------------------------------------------
\* Appending to a sequence adds its last element and keeps the others.
LEMMA Appended ==
  ASSUME NEW S, NEW s \in Seq(S), NEW e \in S
  PROVE  /\ Append(s, e) \in Seq(S)
         /\ Len(s) \in Nat
         /\ Len(Append(s, e)) = Len(s) + 1
         /\ DOMAIN s = 1..Len(s)
         /\ DOMAIN Append(s, e) = 1..(Len(s) + 1)
         /\ Append(s, e)[Len(s) + 1] = e
         /\ \A k \in 1..Len(s) : Append(s, e)[k] = s[k]
OBVIOUS

\* A calibration is a sequence of CALIB_PROBES latencies, and its percentiles
\* are among them.
LEMMA CalibrationIsSeq ==
  ASSUME NEW c \in Calibrations
  PROVE  /\ Len(c) = CALIB_PROBES
         /\ c # <<>>
         /\ Median(c) \in Nat
         /\ Percentile(c, 99) \in Nat
         /\ \A k \in 1..((CALIB_PROBES * 99) \div 100 + 1) : c[k] \in Nat /\ c[k] <= Percentile(c, 99)
<1>1. CALIB_PROBES \in Nat \ {0} /\ \A l \in Latencies : l \in Nat
  BY ProbeAssumption DEF ProbeAssumption
<1>2. c \in [1..CALIB_PROBES -> Latencies] /\ Ascending(c)
  BY DEF Calibrations
<1>3. c \in Seq(Latencies) /\ Len(c) = CALIB_PROBES
  BY <1>1, <1>2
<1>4. /\ CALIB_PROBES \div 2 + 1 \in 1..CALIB_PROBES
      /\ (CALIB_PROBES * 99) \div 100 + 1 \in 1..CALIB_PROBES
  BY <1>1
<1>5. c # <<>>
  BY <1>1, <1>3
<1>6. \A k \in 1..((CALIB_PROBES * 99) \div 100 + 1) : k \in 1..CALIB_PROBES
  BY <1>1
<1> QED
  BY <1>1, <1>2, <1>3, <1>4, <1>5, <1>6 DEF Median, Percentile, Ascending

\* What each program makes of its calibration.
LEMMA ThresholdType ==
  ASSUME NEW c \in Calibrations, manual_threshold \in Nat
  PROVE  /\ ThresholdTrefi(c) \in Nat
         /\ ThresholdExtreme(c) \in Nat
         /\ ThresholdRust(c) \in Nat
<1>1. Median(c) \in Nat /\ Percentile(c, 99) \in Nat /\ Mult \in Nat
  BY CalibrationIsSeq, ProbeAssumption DEF ProbeAssumption
<1>2. Mult * Median(c) \in Nat
  BY <1>1
<1> QED
  BY <1>1, <1>2 DEF ThresholdTrefi, ThresholdExtreme, ThresholdRust

-------------------------------------------------------------------------------
\* What the records say depends on the records, the reads and the threshold only.
LEMMA RecordsKept ==
  ASSUME IInv, UNCHANGED <<program, threshold, history, spikes, last_spike_cycle>>
  PROVE  RecordsAreFirstSlowReads' /\ RustInv'
BY DEF IInv, RecordsAreFirstSlowReads, RecordsAt, Slow, RustInv, RustRecordOK, End

\* Where there is nothing read, nothing is recorded.
LEMMA NoRecords ==
  history = <<>> /\ spikes = <<>> /\ last_spike_cycle = 0 => RecordsAreFirstSlowReads /\ RustInv
<1> SUFFICES ASSUME history = <<>>, spikes = <<>>, last_spike_cycle = 0
             PROVE  RecordsAreFirstSlowReads /\ RustInv
  OBVIOUS
<1>1. RecordsAreFirstSlowReads
  <2>1. Len(spikes) = 0 /\ DOMAIN spikes = {} /\ DOMAIN history = {} /\ MAX_SPIKES \in Nat
    BY ProbeAssumption DEF ProbeAssumption
  <2> DEFINE f == [k \in DOMAIN spikes |-> k]
  <2>2. f \in [DOMAIN spikes -> DOMAIN history]
    BY <2>1
  <2>3. RecordsAt(f)
    BY <2>1 DEF RecordsAt
  <2>4. Len(spikes) <= MAX_SPIKES
    BY <2>1
  <2> HIDE DEF f
  <2> QED
    BY <2>2, <2>3, <2>4 DEF RecordsAreFirstSlowReads
<1>2. RustInv
  BY DEF RustInv
<1> QED
  BY <1>1, <1>2

\* A program starts in the invariant.
LEMMA InitIInv == Init => IInv
<1> SUFFICES ASSUME Init PROVE IInv
  OBVIOUS
<1>1. TypeOK
  BY DEF Init, TypeOK, Preparing
<1>2. CalibInv /\ EmptyInv
  BY DEF Init, CalibInv, EmptyInv
<1> QED
  BY <1>1, <1>2, NoRecords DEF Init, IInv

\* Arguments, allocations and the report leave the records alone.
LEMMA QuietIInv ==
  ASSUME IInv, Parse \/ Obtain \/ AllocateSpikes \/ Report
  PROVE  IInv'
<1>0. TypeOK /\ CalibInv /\ EmptyInv
  BY DEF IInv
<1>1. UNCHANGED <<program, threshold, history, spikes, last_spike_cycle, calib, now>>
  BY DEF Parse, Obtain, AllocateSpikes, Report
<1>2. TypeOK' /\ CalibInv' /\ EmptyInv'
  <2>1. CASE Parse
    <3> DEFINE Numbers == pc = "parsing" /\ n_probes' \in Int /\ manual_threshold' \in Nat
    <3>1. Requested \subseteq Int /\ Manual \subseteq Nat /\ DEFAULT_PROBES \in Nat
      BY ProbeAssumption DEF ProbeAssumption
    <3>2. ParseTrefi => Numbers
      BY <3>1 DEF ParseTrefi
    <3>3. ASSUME ParseExtreme PROVE Numbers
      <4>1. PICK n \in Requested : n_probes' = IF n <= 0 THEN DEFAULT_PROBES ELSE n
        BY <3>3 DEF ParseExtreme
      <4> QED
        BY <3>1, <3>3, <4>1 DEF ParseExtreme
    <3>4. ASSUME ParseRust PROVE Numbers
      <4>1. PICK n \in Requested : n_probes' = IF n < 0 THEN DEFAULT_PROBES ELSE n
        BY <3>4 DEF ParseRust
      <4> QED
        BY <1>0, <3>1, <3>4, <4>1 DEF ParseRust, TypeOK
    <3>5. pc = "parsing" /\ UNCHANGED <<n_probes, manual_threshold>> => Numbers
      BY <1>0 DEF TypeOK
    <3> HIDE DEF Numbers
    <3>6. Numbers /\ pc' \in {"mapping", "exited"}
      BY <2>1, <3>2, <3>3, <3>4, <3>5 DEF Parse
    <3> QED
      BY <1>0, <1>1, <3>6 DEF Numbers, TypeOK, CalibInv, EmptyInv, Preparing
  <2>2. CASE Obtain
    <3>1. /\ \/ pc = "mapping" /\ pc' = "calibrating"
             \/ pc' \in {"exited", "crashed"}
          /\ UNCHANGED <<n_probes, manual_threshold>>
      BY <2>2 DEF Obtain, MapPage, AllocateBuffer, ExtremeFails, TrefiFails, RustFails
    <3> QED
      BY <1>0, <1>1, <3>1 DEF TypeOK, CalibInv, EmptyInv, Preparing, ThresholdExtreme
  <2>3. CASE AllocateSpikes
    BY <1>0, <1>1, <2>3 DEF AllocateSpikes, TypeOK, CalibInv, EmptyInv, Preparing, ThresholdExtreme
  <2>4. CASE Report
    BY <1>0, <1>1, <2>4 DEF Report, TypeOK, CalibInv, EmptyInv, Preparing, ThresholdExtreme
  <2> QED
    BY <2>1, <2>2, <2>3, <2>4
<1> QED
  BY <1>1, <1>2, RecordsKept DEF IInv

\* The threshold is set before anything is read.
LEMMA CalibrateIInv == IInv /\ Calibrate => IInv'
<1> SUFFICES ASSUME IInv, Calibrate PROVE IInv'
  OBVIOUS
<1>0. TypeOK /\ EmptyInv
  BY DEF IInv
<1>1. /\ pc = "calibrating" /\ pc' = "allocating" /\ calib' \in Calibrations
      /\ UNCHANGED <<program, n_probes, manual_threshold, now, history, spikes, last_spike_cycle>>
  BY DEF Calibrate
<1>2. /\ program = "trefi_probe" => threshold' = ThresholdTrefi(calib')
      /\ program = "tailslayer_extreme" => threshold' = ThresholdExtreme(calib')
      /\ program = "rust" => threshold' = ThresholdRust(calib')
  BY DEF Calibrate
<1>3. threshold' \in Nat
  BY <1>0, <1>1, <1>2, ThresholdType DEF TypeOK, Programs
<1>4. TypeOK'
  BY <1>0, <1>1, <1>3 DEF TypeOK
<1>5. CalibInv'
  BY <1>1, <1>2 DEF CalibInv, Preparing, ThresholdExtreme
<1>6. history = <<>> /\ spikes = <<>> /\ last_spike_cycle = 0
  BY <1>0, <1>1 DEF EmptyInv, Preparing
<1>7. EmptyInv' /\ RecordsAreFirstSlowReads' /\ RustInv'
  <2>1. history' = <<>> /\ spikes' = <<>> /\ last_spike_cycle' = 0
    BY <1>1, <1>6
  <2>2. (history = <<>> /\ spikes = <<>> /\ last_spike_cycle = 0)'
          => (RecordsAreFirstSlowReads /\ RustInv)'
    BY NoRecords, PTL
  <2> QED
    BY <2>1, <2>2 DEF EmptyInv
<1> QED
  BY <1>4, <1>5, <1>7 DEF IInv
-------------------------------------------------------------------------------
\* The read of a C program joins the records if it is slow and there is room;
\* otherwise it is not slow, or comes after all of a full buffer.
LEMMA RecordStep ==
  ASSUME TypeOK, RecordsAreFirstSlowReads, program # "rust",
         UNCHANGED <<program, threshold>>,
         NEW r \in Reads, history' = Append(history, r),
         spikes' = IF Slow(r) /\ RoomLeft THEN Append(spikes, r) ELSE spikes
  PROVE  RecordsAreFirstSlowReads'
<1>0. PICK H, n : H = Len(history) /\ n = Len(spikes)
  OBVIOUS
<1>1. /\ history \in Seq(Reads) /\ spikes \in Seq(Reads)
      /\ MAX_SPIKES \in Nat /\ n <= MAX_SPIKES
  BY <1>0, ProbeAssumption DEF TypeOK, ProbeAssumption, RecordsAreFirstSlowReads
<1>2. /\ H \in Nat /\ DOMAIN history = 1..H /\ DOMAIN history' = 1..(H + 1)
      /\ history'[H + 1] = r /\ \A h \in 1..H : history'[h] = history[h]
  BY <1>0, <1>1, Appended
<1>3. PICK f \in [DOMAIN spikes -> DOMAIN history] : RecordsAt(f)
  BY DEF RecordsAreFirstSlowReads
<1>4. n \in Nat /\ DOMAIN spikes = 1..n /\ (RoomLeft <=> n < MAX_SPIKES)
  BY <1>0, <1>1 DEF RoomLeft
<1>5. /\ f \in [1..n -> 1..H]
      /\ \A j, k \in 1..n : j < k => f[j] < f[k]
      /\ \A k \in 1..n : spikes[k] = history[f[k]] /\ Slow(history[f[k]])
      /\ \A h \in 1..H :
           Slow(history[h]) => \/ \E k \in 1..n : f[k] = h
                               \/ n = MAX_SPIKES /\ \A k \in 1..n : f[k] < h
  <2>1. /\ \A j, k \in DOMAIN spikes : j < k => f[j] < f[k]
        /\ \A k \in DOMAIN spikes : spikes[k] = history[f[k]] /\ Slow(history[f[k]])
        /\ \A h \in DOMAIN history :
             Slow(history[h]) => \/ \E k \in DOMAIN spikes : f[k] = h
                                 \/ /\ Len(spikes) = MAX_SPIKES
                                    /\ \A k \in DOMAIN spikes : f[k] < h
    BY <1>3 DEF RecordsAt
  <2> QED
    BY <1>0, <1>2, <1>3, <1>4, <2>1
<1>7. CASE Slow(r) /\ RoomLeft
  <2>0. PICK g : g = [k \in 1..(n + 1) |-> IF k <= n THEN f[k] ELSE H + 1]
    OBVIOUS
  <2>1. /\ DOMAIN spikes' = 1..(n + 1) /\ Len(spikes') = n + 1
        /\ spikes'[n + 1] = r /\ \A k \in 1..n : spikes'[k] = spikes[k]
    BY <1>0, <1>1, <1>7, Appended
  <2>2. n < MAX_SPIKES
    BY <1>4, <1>7
  <2>3. \A k \in 1..(n + 1) : k \in 1..n \/ k = n + 1
    BY <1>4
  <2>4. g \in [1..(n + 1) -> 1..(H + 1)] /\ g[n + 1] = H + 1 /\ \A k \in 1..n : g[k] = f[k]
    BY <1>2, <1>4, <1>5, <2>0
  <2>5. ASSUME NEW j \in 1..(n + 1), NEW k \in 1..(n + 1), j < k PROVE g[j] < g[k]
    <3>1. j \in 1..n /\ g[j] = f[j] /\ f[j] \in 1..H
      BY <1>4, <1>5, <2>4, <2>5
    <3>2. CASE k \in 1..n
      BY <1>5, <2>4, <2>5, <3>1, <3>2
    <3>3. CASE k = n + 1
      BY <1>2, <2>4, <3>1, <3>3
    <3> QED
      BY <2>3, <3>2, <3>3
  <2>6. ASSUME NEW k \in 1..(n + 1) PROVE spikes'[k] = history'[g[k]] /\ Slow(history'[g[k]])
    BY <1>2, <1>5, <1>7, <2>1, <2>3, <2>4
  <2>7. ASSUME NEW h \in 1..(H + 1), Slow(history'[h])
        PROVE  \E k \in 1..(n + 1) : g[k] = h
    <3>1. CASE h = H + 1
      BY <1>4, <2>4, <3>1
    <3>2. CASE h \in 1..H
      <4>1. Slow(history[h])
        BY <1>2, <2>7, <3>2
      <4>2. PICK k \in 1..n : f[k] = h
        BY <1>5, <2>2, <3>2, <4>1, <1>4
      <4> QED
        BY <1>4, <2>4, <4>2
    <3> QED
      BY <1>2, <3>1, <3>2
  <2>8. RecordsAt(g)'
    BY <1>2, <2>1, <2>5, <2>6, <2>7 DEF RecordsAt, Slow
  <2>9. Len(spikes') <= MAX_SPIKES
    BY <1>1, <1>4, <2>1, <2>2
  <2>10. g \in [DOMAIN spikes' -> DOMAIN history']
    BY <1>2, <2>1, <2>4
  <2> QED
    BY <2>8, <2>9, <2>10 DEF RecordsAreFirstSlowReads
<1>8. CASE ~(Slow(r) /\ RoomLeft)
  <2>1. spikes' = spikes
    BY <1>8
  <2>2. f \in [1..n -> 1..(H + 1)] /\ \A k \in 1..n : f[k] < H + 1
    BY <1>2, <1>5
  <2>3. ASSUME NEW k \in 1..n PROVE spikes'[k] = history'[f[k]] /\ Slow(history'[f[k]])
    BY <1>2, <1>5, <2>1
  <2>4. ASSUME NEW h \in 1..(H + 1), Slow(history'[h])
        PROVE  \/ \E k \in 1..n : f[k] = h
               \/ n = MAX_SPIKES /\ \A k \in 1..n : f[k] < h
    <3>1. CASE h = H + 1
      <4>1. ~RoomLeft
        BY <1>2, <1>8, <2>4, <3>1
      <4>2. n = MAX_SPIKES
        BY <1>1, <1>4, <4>1
      <4> QED
        BY <2>2, <3>1, <4>2
    <3>2. CASE h \in 1..H
      <4>1. Slow(history[h])
        BY <1>2, <2>4, <3>2
      <4> QED
        BY <1>5, <3>2, <4>1
    <3> QED
      BY <1>2, <3>1, <3>2
  <2>5. RecordsAt(f)'
    BY <1>0, <1>2, <1>4, <1>5, <2>1, <2>3, <2>4 DEF RecordsAt, Slow
  <2>6. Len(spikes') <= MAX_SPIKES
    BY <1>0, <1>1, <2>1
  <2>7. f \in [DOMAIN spikes' -> DOMAIN history']
    BY <1>2, <1>4, <2>1, <2>2
  <2> QED
    BY <2>5, <2>6, <2>7 DEF RecordsAreFirstSlowReads
<1> QED
  BY <1>7, <1>8

\* A read of rust: its record holds the distance from the last one.
LEMMA RustStep ==
  ASSUME TypeOK, RustInv, program = "rust", UNCHANGED <<program, threshold>>,
         NEW t0 \in Nat, NEW t1 \in Nat, t1 - t0 \in Latencies,
         history' = Append(history, [tsc |-> t0, latency |-> t1 - t0]),
         ProbeRust(t0, t1)
  PROVE  RustInv' /\ last_spike_cycle' \in Nat /\ spikes' \in Seq(RustRecords)
<1>0. PICK H, n, delta, r :
        /\ H = Len(history) /\ n = Len(spikes)
        /\ delta = IF last_spike_cycle = 0 THEN 0 ELSE t1 - last_spike_cycle
        /\ r = [index |-> H, latency |-> t1 - t0, delta_prev_cycles |-> delta]
  OBVIOUS
<1> DEFINE slow == t1 - t0 >= threshold
<1>1. /\ history \in Seq(Reads) /\ spikes \in Seq(RustRecords)
      /\ threshold \in Nat /\ last_spike_cycle \in Nat
      /\ \A l \in Latencies : l \in Nat /\ l > 0
  BY ProbeAssumption DEF TypeOK, ProbeAssumption
<1>2. /\ H \in Nat /\ DOMAIN history = 1..H /\ DOMAIN history' = 1..(H + 1)
      /\ history'[H + 1] = [tsc |-> t0, latency |-> t1 - t0]
      /\ \A h \in 1..H : history'[h] = history[h] /\ history[h] \in Reads
  <2>1. [tsc |-> t0, latency |-> t1 - t0] \in Reads
    BY DEF Reads
  <2> QED
    BY <1>0, <1>1, <2>1, Appended
<1>3. n \in Nat /\ DOMAIN spikes = 1..n /\ \A k \in 1..n : spikes[k] \in RustRecords
  BY <1>0, <1>1
<1>4. r \in RustRecords
  BY <1>0, <1>1, <1>2 DEF RustRecords
<1>5. /\ slow => spikes' = Append(spikes, r) /\ last_spike_cycle' = t1
      /\ ~slow => spikes' = spikes /\ last_spike_cycle' = last_spike_cycle
  BY <1>0 DEF ProbeRust, SpikeCycle
<1>6. \A k \in 1..n : RustRecordOK(k)
  BY <1>3 DEF RustInv
<1>7. /\ n = 0 => last_spike_cycle = 0
      /\ n # 0 => last_spike_cycle = End(n)
  BY <1>0, <1>1, <1>3 DEF RustInv
<1> DEFINE at(k) == spikes[k].index + 1
<1>8. ASSUME NEW k \in 1..n PROVE at(k) \in 1..H
  BY <1>2, <1>6 DEF RustRecordOK
<1>9. ASSUME NEW k \in 1..n PROVE End(k) \in Nat /\ End(k) > 0
  <2>1. history[at(k)] \in Reads
    BY <1>2, <1>8
  <2>2. history[at(k)].tsc \in Nat /\ history[at(k)].latency \in Latencies
    BY <2>1 DEF Reads
  <2>3. history[at(k)].latency \in Nat /\ history[at(k)].latency > 0
    BY <1>1, <2>2
  <2>4. End(k) = history[at(k)].tsc + history[at(k)].latency
    BY DEF End
  <2> QED
    BY <2>2, <2>3, <2>4
\* The records that were there stay in order.
<1>10. ASSUME NEW k \in 1..n, \A j \in 1..n : spikes'[j] = spikes[j]
       PROVE  End(k)' = End(k) /\ RustRecordOK(k)'
  <2>1. \A j \in 1..n : End(j)' = End(j)
    <3> TAKE j \in 1..n
    <3>1. spikes'[j] = spikes[j] /\ history'[at(j)] = history[at(j)]
      BY <1>2, <1>8, <1>10
    <3> QED
      BY <3>1 DEF End
  <2>2. spikes'[k] = spikes[k] /\ history'[at(k)] = history[at(k)] /\ at(k) \in DOMAIN history'
    BY <1>2, <1>8, <1>10
  <2>3. k # 1 => k - 1 \in 1..n
    BY <1>3
  <2>4. k # 1 => End(k - 1)' = End(k - 1)
    BY <2>1, <2>3
  <2>5. /\ spikes[k].latency = history[at(k)].latency
        /\ spikes[k].latency >= threshold
        /\ spikes[k].delta_prev_cycles = IF k = 1 THEN 0 ELSE End(k) - End(k - 1)
    BY <1>6 DEF RustRecordOK
  <2> QED
    BY <2>1, <2>2, <2>4, <2>5 DEF RustRecordOK
<1>11. CASE ~slow
  <2>1. spikes' = spikes /\ last_spike_cycle' = last_spike_cycle
    BY <1>5, <1>11
  <2>2. \A k \in 1..n : End(k)' = End(k) /\ RustRecordOK(k)'
    BY <1>10, <2>1
  <2>3. spikes' # <<>> => n \in 1..n
    BY <1>0, <1>1, <1>3, <2>1
  <2>4. last_spike_cycle' = IF n = 0 THEN 0 ELSE End(n)'
    BY <1>3, <1>7, <2>1, <2>2
  <2>5. RustInv'
    BY <1>0, <1>3, <2>1, <2>2, <2>3, <2>4 DEF RustInv
  <2> QED
    BY <1>1, <2>1, <2>5
<1>12. CASE slow
  <2>1. /\ spikes' \in Seq(RustRecords) /\ DOMAIN spikes' = 1..(n + 1) /\ Len(spikes') = n + 1
        /\ spikes'[n + 1] = r /\ \A k \in 1..n : spikes'[k] = spikes[k]
    <3>1. spikes' = Append(spikes, r) /\ spikes \in Seq(RustRecords)
      BY <1>1, <1>5, <1>12
    <3> QED
      BY <1>0, <1>4, <3>1, Appended
  <2>2. last_spike_cycle' = t1
    BY <1>5, <1>12
  <2>3. \A k \in 1..n : End(k)' = End(k) /\ RustRecordOK(k)'
    BY <1>10, <2>1
  <2>4. /\ spikes'[n + 1].index = H /\ spikes'[n + 1].latency = t1 - t0
        /\ spikes'[n + 1].delta_prev_cycles = delta
    BY <1>0, <2>1
  <2>5. history'[H + 1].tsc = t0 /\ history'[H + 1].latency = t1 - t0
    BY <1>2
  <2>6. End(n + 1)' = t1
    <3>1. End(n + 1)' = history'[H + 1].tsc + history'[H + 1].latency
      BY <2>4 DEF End
    <3>2. t0 + (t1 - t0) = t1
      OBVIOUS
    <3> QED
      BY <2>5, <3>1, <3>2, Zenon
  <2>7. delta = IF n = 0 THEN 0 ELSE End(n + 1)' - End(n)'
    <3>1. CASE n = 0
      BY <1>0, <1>7, <3>1
    <3>2. CASE n # 0
      <4>1. n \in 1..n
        BY <1>3, <3>2
      <4>2. last_spike_cycle = End(n) /\ End(n)' = End(n) /\ End(n) \in Nat /\ End(n) > 0
        BY <1>7, <1>9, <2>3, <3>2, <4>1
      <4> QED
        BY <1>0, <2>6, <3>2, <4>2
    <3> QED
      BY <3>1, <3>2
  <2>8. RustRecordOK(n + 1)'
    <3>1. H + 1 \in DOMAIN history' /\ threshold' = threshold
      BY <1>2
    <3>2. (n + 1 = 1 <=> n = 0) /\ (n + 1) - 1 = n
      BY <1>3
    <3>3. delta = IF n + 1 = 1 THEN 0 ELSE End(n + 1)' - End((n + 1) - 1)'
      BY <2>7, <3>2
    <3> QED
      BY <1>12, <2>4, <2>5, <3>1, <3>3 DEF RustRecordOK
  <2>9. \A k \in 1..(n + 1) : k \in 1..n \/ k = n + 1
    BY <1>3
  <2>10. \A k \in DOMAIN spikes' : RustRecordOK(k)'
    BY <2>1, <2>3, <2>8, <2>9
  <2>11. spikes' # <<>>
    BY <1>3, <2>1
  <2>12. RustInv'
    BY <2>1, <2>2, <2>6, <2>10, <2>11 DEF RustInv
  <2> QED
    BY <2>1, <2>2, <2>12
<1> QED
  BY <1>11, <1>12
\* A read of the main loop.
LEMMA ProbeIInv == IInv /\ Probe => IInv'
<1> SUFFICES ASSUME IInv, Probe PROVE IInv'
  OBVIOUS
<1>0. TypeOK /\ CalibInv /\ EmptyInv /\ RecordsAreFirstSlowReads /\ RustInv
  BY DEF IInv
<1>1. PICK gap \in Gaps, lat \in Latencies :
        LET t0 == now + gap
            t1 == t0 + lat
        IN  ProbeTrefi(t0, t1) \/ ProbeExtreme(t0, t1) \/ ProbeRust(t0, t1)
  BY DEF Probe
<1>2. PICK t0 \in Nat, t1 \in Nat :
        /\ t1 - t0 \in Latencies
        /\ ProbeTrefi(t0, t1) \/ ProbeExtreme(t0, t1) \/ ProbeRust(t0, t1)
  <2>1. gap \in Nat /\ lat \in Nat /\ now \in Nat
    BY <1>0, ProbeAssumption DEF TypeOK, ProbeAssumption
  <2>2. (now + gap) + lat - (now + gap) = lat
    BY <2>1
  <2> QED
    BY <1>1, <2>1, <2>2
<1>3. PICK r : r = [tsc |-> t0, latency |-> t1 - t0]
  OBVIOUS
<1>4. /\ pc = "probing"
      /\ now' = t1
      /\ history' = Append(history, r)
      /\ UNCHANGED <<program, pc, n_probes, manual_threshold, calib, threshold, summary>>
  BY <1>2, <1>3 DEF ProbeTrefi, ProbeExtreme, ProbeRust, Read
<1>5. r \in Reads /\ history' \in Seq(Reads)
  <2>1. r \in Reads
    BY <1>2, <1>3 DEF Reads
  <2> QED
    BY <1>0, <1>4, <2>1, Appended DEF TypeOK
<1>6. CalibInv' /\ EmptyInv'
  BY <1>0, <1>4 DEF CalibInv, EmptyInv, Preparing, ThresholdExtreme
<1>7. CASE ProbeRust(t0, t1)
  <2>1. program = "rust"
    BY <1>7 DEF ProbeRust
  <2>2. RustInv' /\ last_spike_cycle' \in Nat /\ spikes' \in Seq(RustRecords)
    BY <1>0, <1>2, <1>3, <1>4, <1>7, <2>1, RustStep
  <2>3. TypeOK'
    BY <1>0, <1>2, <1>4, <1>5, <2>1, <2>2 DEF TypeOK
  <2>4. RecordsAreFirstSlowReads'
    BY <1>4, <2>1 DEF RecordsAreFirstSlowReads
  <2> QED
    BY <1>6, <2>2, <2>3, <2>4 DEF IInv
<1>8. CASE ProbeTrefi(t0, t1) \/ ProbeExtreme(t0, t1)
  <2>1. program # "rust" /\ last_spike_cycle' = last_spike_cycle
    BY <1>8 DEF ProbeTrefi, ProbeExtreme
  <2>2. r.latency = t1 - t0
    BY <1>3
  <2>3. spikes' = IF Slow(r) /\ RoomLeft THEN Append(spikes, r) ELSE spikes
    <3>1. CASE ProbeTrefi(t0, t1)
      BY <1>3, <2>2, <3>1 DEF ProbeTrefi, Slow, Stamp
    <3>2. CASE ProbeExtreme(t0, t1)
      BY <1>3, <2>2, <3>2 DEF ProbeExtreme, Slow, Stamp
    <3> QED
      BY <1>8, <3>1, <3>2
  <2>4. spikes' \in Seq(Reads)
    BY <1>0, <1>5, <2>1, <2>3, Appended DEF TypeOK
  <2>5. TypeOK'
    BY <1>0, <1>2, <1>4, <1>5, <2>1, <2>4 DEF TypeOK
  <2>6. RecordsAreFirstSlowReads'
    BY <1>0, <1>4, <1>5, <2>1, <2>3, RecordStep
  <2>7. RustInv'
    BY <1>4, <2>1 DEF RustInv
  <2> QED
    BY <1>6, <2>5, <2>6, <2>7 DEF IInv
<1> QED
  BY <1>2, <1>7, <1>8

\* No step leaves the invariant.
LEMMA StepIInv == IInv /\ [Next]_vars => IInv'
<1> SUFFICES ASSUME IInv, [Next]_vars PROVE IInv'
  OBVIOUS
<1>1. CASE Parse \/ Obtain \/ AllocateSpikes \/ Report
  BY <1>1, QuietIInv
<1>2. CASE Calibrate
  BY <1>2, CalibrateIInv
<1>3. CASE Probe
  BY <1>3, ProbeIInv
<1>4. CASE UNCHANGED vars
  <2>1. TypeOK' /\ CalibInv' /\ EmptyInv'
    BY <1>4 DEF vars, IInv, TypeOK, CalibInv, EmptyInv, ThresholdExtreme
  <2>2. RecordsAreFirstSlowReads' /\ RustInv'
    BY <1>4, RecordsKept DEF vars
  <2> QED
    BY <2>1, <2>2 DEF IInv
<1> QED
  BY <1>1, <1>2, <1>3, <1>4 DEF Next

LEMMA AlwaysIInv == Spec => []IInv
<1> QED
  BY InitIInv, StepIInv, PTL DEF Spec

-------------------------------------------------------------------------------
\* Every variable keeps its type; a time, a threshold and a latency are numbers.
THEOREM TypeCorrect == Spec => []TypeOK
<1>1. IInv => TypeOK
  BY DEF IInv
<1> QED
  BY <1>1, AlwaysIInv, PTL

\* The C programs record the slow reads from the first on, without a gap, until
\* the buffer is full.
THEOREM RecordsAreFirst == Spec => []RecordsAreFirstSlowReads
<1>1. IInv => RecordsAreFirstSlowReads
  BY DEF IInv
<1> QED
  BY <1>1, AlwaysIInv, PTL

\* The threshold of tailslayer_extreme is above the 99th percentile, and so above
\* all that comes before it in the sorted calibration.
THEOREM ThresholdAlwaysAbove == Spec => []ThresholdAboveBaseline
<1>1. IInv => ThresholdAboveBaseline
  <2> SUFFICES ASSUME IInv, program = "tailslayer_extreme", calib # <<>>, manual_threshold = 0,
                      NEW k \in 1..((CALIB_PROBES * 99) \div 100 + 1)
               PROVE  calib[k] < threshold
    BY DEF ThresholdAboveBaseline
  <2>1. calib \in Calibrations /\ threshold = ThresholdExtreme(calib)
    BY DEF IInv, CalibInv
  <2>2. /\ calib[k] \in Nat /\ calib[k] <= Percentile(calib, 99)
        /\ Percentile(calib, 99) \in Nat /\ Median(calib) \in Nat
    BY <2>1, CalibrationIsSeq
  <2>3. Mult * Median(calib) \in Nat
    BY <2>2, ProbeAssumption DEF ProbeAssumption
  <2>4. CASE Mult * Median(calib) <= Percentile(calib, 99)
    BY <2>1, <2>2, <2>3, <2>4 DEF ThresholdExtreme
  <2>5. CASE ~(Mult * Median(calib) <= Percentile(calib, 99))
    <3>1. threshold = Mult * Median(calib)
      BY <2>1, <2>5 DEF ThresholdExtreme
    <3> QED
      BY <2>2, <2>3, <2>5, <3>1
  <2> QED
    BY <2>4, <2>5
<1> QED
  BY <1>1, AlwaysIInv, PTL
-------------------------------------------------------------------------------
\* A set of numbers that is not empty has a least element: with it a property of
\* all numbers is proved from the least counterexample.
LEMMA LeastNat ==
  ASSUME NEW S \in SUBSET Nat, S # {}
  PROVE  \E m \in S : \A k \in S : m <= k
<1>1. PICK m \in S : \A k \in S : ~(<<k, m>> \in OpToRel(<, Nat))
  BY NatLessThanWellFounded, WFMin
<1>2. \A k \in S : ~(k < m)
  BY <1>1 DEF OpToRel
<1> QED
  BY <1>2

\* The equation by which Elapsed is defined has a solution, the distances from
\* the first record: each delta leads from one to the next.
LEMMA ElapsedEquation ==
  ASSUME TypeOK, RustInv, program = "rust"
  PROVE  /\ Len(spikes) \in Nat /\ DOMAIN spikes = 1..Len(spikes)
         /\ \A k \in 1..Len(spikes) : End(k) \in Nat
         /\ Len(spikes) # 0 => Elapsed[0] = 0
         /\ \A k \in 1..Len(spikes) : Elapsed[k] = Elapsed[k - 1] + spikes[k].delta_prev_cycles
<1>1. PICK n \in Nat : n = Len(spikes)
  BY DEF TypeOK
<1>2. DOMAIN spikes = 1..n /\ spikes \in Seq(RustRecords) /\ history \in Seq(Reads)
  BY <1>1 DEF TypeOK
<1>3. ASSUME NEW k \in 1..n PROVE RustRecordOK(k) /\ End(k) \in Nat
  <2>1. RustRecordOK(k) /\ spikes[k].index + 1 \in DOMAIN history
    BY <1>2 DEF RustInv, RustRecordOK
  <2>2. history[spikes[k].index + 1] \in Reads
    BY <1>2, <2>1
  <2>3. /\ history[spikes[k].index + 1].tsc \in Nat
        /\ history[spikes[k].index + 1].latency \in Nat
    BY <2>2, ProbeAssumption DEF Reads, ProbeAssumption
  <2> QED
    BY <2>1, <2>3 DEF End
<1> DEFINE Eq(f) == f = [k \in 0..n |-> IF k = 0 THEN 0 ELSE f[k - 1] + spikes[k].delta_prev_cycles]
<1>4. Elapsed = CHOOSE f : Eq(f)
  BY <1>1 DEF Elapsed
<1>5. \E f : Eq(f)
  <2> DEFINE W == [k \in 0..n |-> IF k = 0 THEN 0 ELSE End(k) - End(1)]
  <2>1. ASSUME NEW k \in 0..n
        PROVE  W[k] = IF k = 0 THEN 0 ELSE W[k - 1] + spikes[k].delta_prev_cycles
    <3>1. CASE k = 0
      BY <3>1
    <3>2. CASE k = 1
      <4>1. /\ k \in 1..n /\ spikes[k].delta_prev_cycles = 0 /\ End(1) \in Nat
            /\ 0 \in 0..n /\ k - 1 = 0
        BY <1>1, <1>3, <3>2 DEF RustRecordOK
      <4>2. W[0] = 0 /\ W[k] = 0
        BY <3>2, <4>1
      <4> QED
        BY <3>2, <4>1, <4>2
    <3>3. CASE k > 1
      <4>1. /\ k \in 1..n /\ k - 1 \in 1..n /\ 1 \in 1..n
            /\ k - 1 \in 0..n /\ k - 1 # 0 /\ k # 0 /\ k # 1
        BY <1>1, <3>3
      <4>2. /\ spikes[k].delta_prev_cycles = End(k) - End(k - 1)
            /\ End(k) \in Nat /\ End(k - 1) \in Nat /\ End(1) \in Nat
        BY <1>3, <4>1 DEF RustRecordOK
      <4>3. W[k] = End(k) - End(1) /\ W[k - 1] = End(k - 1) - End(1)
        BY <4>1
      <4> HIDE DEF W
      <4> QED
        BY <4>1, <4>2, <4>3
    <3> QED
      BY <3>1, <3>2, <3>3
  <2>2. W = [k \in 0..n |-> W[k]]
    OBVIOUS
  <2> HIDE DEF W
  <2>3. Eq(W)
    BY <2>1, <2>2
  <2> QED
    BY <2>3
<1>6. Eq(Elapsed)
  BY <1>4, <1>5
<1>7. \A k \in 0..n :
        Elapsed[k] = IF k = 0 THEN 0 ELSE Elapsed[k - 1] + spikes[k].delta_prev_cycles
  BY <1>6
<1>8. 0 \in 0..n /\ \A k \in 1..n : k \in 0..n /\ k # 0
  BY <1>1
<1> QED
  BY <1>1, <1>2, <1>3, <1>7, <1>8

\* The deltas of rust's records add up to the time passed since the first one.
THEOREM DeltasAlwaysAddUp == Spec => []DeltasAddUp
<1>1. IInv => DeltasAddUp
  <2> SUFFICES ASSUME IInv, program = "rust"
               PROVE  \A k \in DOMAIN spikes : Elapsed[k] = End(k) - End(1)
    BY DEF DeltasAddUp
  <2>0. TypeOK /\ RustInv
    BY DEF IInv
  <2>1. PICK n \in Nat : n = Len(spikes)
    BY <2>0 DEF TypeOK
  <2>2. /\ DOMAIN spikes = 1..n
        /\ \A k \in 1..n : End(k) \in Nat
        /\ n # 0 => Elapsed[0] = 0
        /\ \A k \in 1..n : Elapsed[k] = Elapsed[k - 1] + spikes[k].delta_prev_cycles
    BY <2>0, <2>1, ElapsedEquation
  <2>3. \A k \in 1..n :
          spikes[k].delta_prev_cycles = IF k = 1 THEN 0 ELSE End(k) - End(k - 1)
    BY <2>0, <2>2 DEF RustInv, RustRecordOK
  <2> DEFINE Wrong == {k \in 1..n : Elapsed[k] # End(k) - End(1)}
  <2>4. ASSUME Wrong # {} PROVE FALSE
    <3>1. PICK m \in Wrong : \A k \in Wrong : m <= k
      <4>1. Wrong \in SUBSET Nat
        BY <2>1
      <4> QED
        BY <2>4, <4>1, LeastNat
    <3>2. m \in 1..n /\ Elapsed[m] # End(m) - End(1)
      BY <3>1
    <3>3. CASE m = 1
      <4>1. Elapsed[1] = 0 + 0 /\ End(1) \in Nat
        BY <2>2, <2>3, <3>2, <3>3
      <4> QED
        BY <3>2, <3>3, <4>1
    <3>4. CASE m # 1
      <4>1. m - 1 \in 1..n /\ 1 \in 1..n /\ m - 1 < m
        BY <2>1, <3>2, <3>4
      <4>2. m - 1 \notin Wrong
        BY <3>1, <4>1
      <4>3. Elapsed[m - 1] = End(m - 1) - End(1)
        BY <4>1, <4>2
      <4>4. Elapsed[m] = Elapsed[m - 1] + (End(m) - End(m - 1))
        BY <2>2, <2>3, <3>2, <3>4
      <4>5. End(m) \in Nat /\ End(m - 1) \in Nat /\ End(1) \in Nat
        BY <2>2, <3>2, <4>1
      <4> QED
        BY <3>2, <4>3, <4>4, <4>5
    <3> QED
      BY <3>3, <3>4
  <2> QED
    BY <2>2, <2>4
<1> QED
  BY <1>1, AlwaysIInv, PTL

-------------------------------------------------------------------------------
\* A record's latency is a slow one and that of a read of the loop; and with room
\* left in a C program's buffer, every slow read has a record.
LEMMA RecordsOfReads ==
  ASSUME IInv
  PROVE  /\ Len(spikes) \in Nat /\ DOMAIN spikes = 1..Len(spikes)
         /\ threshold \in Nat
         /\ \A h \in DOMAIN history : history[h].latency \in Nat /\ history[h].latency > 0
         /\ \A k \in DOMAIN spikes :
              /\ spikes[k].latency \in Nat /\ threshold <= spikes[k].latency
              /\ program = "trefi_probe" => threshold < spikes[k].latency
              /\ \E h \in DOMAIN history : spikes[k].latency = history[h].latency
         /\ program = "tailslayer_extreme" /\ Len(spikes) < MAX_SPIKES =>
              \A h \in DOMAIN history : threshold <= history[h].latency =>
                \E k \in DOMAIN spikes : spikes[k].latency = history[h].latency
<1>0. TypeOK /\ RecordsAreFirstSlowReads /\ RustInv
  BY DEF IInv
<1>1. Len(spikes) \in Nat /\ DOMAIN spikes = 1..Len(spikes) /\ threshold \in Nat
  BY <1>0 DEF TypeOK
<1>2. \A h \in DOMAIN history : history[h].latency \in Nat /\ history[h].latency > 0
  <2> TAKE h \in DOMAIN history
  <2>1. history[h] \in Reads
    BY <1>0 DEF TypeOK
  <2>2. history[h].latency \in Latencies
    BY <2>1 DEF Reads
  <2>3. \A l \in Latencies : l \in Nat /\ l > 0
    BY ProbeAssumption DEF ProbeAssumption
  <2> QED
    BY <2>2, <2>3, Zenon
<1>3. CASE program = "rust"
  <2>1. ASSUME NEW k \in DOMAIN spikes
        PROVE  /\ spikes[k].index + 1 \in DOMAIN history
               /\ spikes[k].latency = history[spikes[k].index + 1].latency
               /\ spikes[k].latency >= threshold
    BY <1>0, <1>3 DEF RustInv, RustRecordOK
  <2>2. ASSUME NEW k \in DOMAIN spikes
        PROVE  /\ spikes[k].latency \in Nat /\ threshold <= spikes[k].latency
               /\ \E h \in DOMAIN history : spikes[k].latency = history[h].latency
    BY <1>1, <1>2, <2>1
  <2> QED
    BY <1>1, <1>2, <1>3, <2>2
<1>4. CASE program # "rust"
  <2>1. PICK f \in [DOMAIN spikes -> DOMAIN history] : RecordsAt(f)
    BY <1>0, <1>4 DEF RecordsAreFirstSlowReads
  <2>2. ASSUME NEW k \in DOMAIN spikes
        PROVE  f[k] \in DOMAIN history /\ spikes[k] = history[f[k]] /\ Slow(history[f[k]])
    BY <2>1 DEF RecordsAt
  <2>3. ASSUME NEW k \in DOMAIN spikes
        PROVE  /\ spikes[k].latency \in Nat /\ threshold <= spikes[k].latency
               /\ program = "trefi_probe" => threshold < spikes[k].latency
               /\ \E h \in DOMAIN history : spikes[k].latency = history[h].latency
    <3>1. spikes[k].latency = history[f[k]].latency /\ history[f[k]].latency \in Nat
      BY <1>2, <2>2
    <3>2. IF program = "trefi_probe" THEN history[f[k]].latency > threshold
                                     ELSE history[f[k]].latency >= threshold
      BY <2>2 DEF Slow
    <3>3. threshold <= history[f[k]].latency
      BY <1>1, <3>1, <3>2
    <3>4. program = "trefi_probe" => threshold < history[f[k]].latency
      BY <1>1, <3>1, <3>2
    <3> QED
      BY <2>2, <3>1, <3>3, <3>4
  <2>4. ASSUME program = "tailslayer_extreme", Len(spikes) < MAX_SPIKES,
               NEW h \in DOMAIN history, threshold <= history[h].latency
        PROVE  \E k \in DOMAIN spikes : spikes[k].latency = history[h].latency
    <3>1. MAX_SPIKES \in Nat
      BY ProbeAssumption DEF ProbeAssumption
    <3>2. Slow(history[h])
      BY <1>1, <1>2, <2>4 DEF Slow
    <3>3. Len(spikes) # MAX_SPIKES
      <4>1. \A m, n \in Nat : m < n => m # n
        OBVIOUS
      <4> QED
        BY <1>1, <2>4, <3>1, <4>1, Zenon
    <3>4. \A g \in DOMAIN history :
            Slow(history[g]) => \/ \E k \in DOMAIN spikes : f[k] = g
                                \/ /\ Len(spikes) = MAX_SPIKES
                                   /\ \A k \in DOMAIN spikes : f[k] < g
      BY <2>1 DEF RecordsAt
    <3>5. \E k \in DOMAIN spikes : f[k] = h
      BY <3>2, <3>3, <3>4
    <3> QED
      BY <2>2, <3>5
  <2> QED
    BY <1>1, <1>2, <2>3, <2>4
<1> QED
  BY <1>3, <1>4

\* Sorting moves the latencies, and loses none.
LEMMA SortedRecords ==
  ASSUME IInv, NEW t \in Sorted(RecordedLatencies)
  PROVE  /\ Len(t) = Len(spikes) /\ Ascending(t)
         /\ \A k \in 1..Len(spikes) : \E j \in 1..Len(spikes) : t[k] = spikes[j].latency
         /\ \A j \in 1..Len(spikes) : \E k \in 1..Len(spikes) : t[k] = spikes[j].latency
<1>1. PICK n \in Nat : n = Len(spikes) /\ DOMAIN spikes = 1..n
  BY RecordsOfReads
<1>2. PICK s : s = RecordedLatencies
  OBVIOUS
<1>3. DOMAIN s = 1..n /\ \A k \in 1..n : s[k] = spikes[k].latency
  BY <1>1, <1>2 DEF RecordedLatencies
<1>4. t \in Arrangements(s) /\ Ascending(t)
  BY <1>2 DEF Sorted
<1>5. PICK p \in Bijection(1..n, 1..n) : t = [k \in 1..n |-> s[p[k]]]
  BY <1>3, <1>4 DEF Arrangements
<1>6. /\ p \in [1..n -> 1..n]
      /\ \A j \in 1..n : \E k \in 1..n : p[k] = j
  BY <1>5 DEF Bijection, Injection, Surjection
<1>7. \A k \in 1..n : t[k] = spikes[p[k]].latency
  BY <1>3, <1>5, <1>6
<1>8. Len(t) = n
  <2>1. \A k \in 1..n : spikes[k].latency \in Nat
    BY <1>1, RecordsOfReads
  <2>2. t \in [1..n -> Nat]
    BY <1>5, <1>6, <1>7, <2>1
  <2> QED
    BY <1>1, <2>2
<1>9. ASSUME NEW k \in 1..n PROVE \E j \in 1..n : t[k] = spikes[j].latency
  BY <1>6, <1>7
<1>10. ASSUME NEW j \in 1..n PROVE \E k \in 1..n : t[k] = spikes[j].latency
  BY <1>6, <1>7
<1> QED
  BY <1>1, <1>4, <1>8, <1>9, <1>10

\* Where a percentile of n sorted elements stands.
LEMMA PercentilePlaces ==
  ASSUME NEW n \in Nat, n # 0
  PROVE  /\ n \div 2 + 1 \in 1..n /\ (n * 90) \div 100 + 1 \in 1..n
         /\ (n * 99) \div 100 + 1 \in 1..n
         /\ n \div 2 + 1 <= (n * 90) \div 100 + 1
         /\ (n * 90) \div 100 + 1 <= (n * 99) \div 100 + 1
OBVIOUS

\* The percentiles of the records: latencies of some of them, in order, and the
\* last is none's less.
LEMMA PercentilesInOrder ==
  ASSUME IInv, spikes # <<>>, NEW p \in Percentiles
  PROVE  /\ \A k \in DOMAIN spikes : spikes[k].latency <= p.max
         /\ \E k \in DOMAIN spikes : spikes[k].latency = p.max
         /\ \E k \in DOMAIN spikes : spikes[k].latency = p.p50
         /\ threshold <= p.p50 /\ p.p50 <= p.p90 /\ p.p90 <= p.p99 /\ p.p99 <= p.max
<1>1. PICK n \in Nat : n = Len(spikes) /\ DOMAIN spikes = 1..n /\ n # 0
  <2>1. spikes # <<>> => Len(spikes) # 0
    BY DEF IInv, TypeOK
  <2> QED
    BY <2>1, RecordsOfReads
<1>2. PICK t \in Sorted(RecordedLatencies) : p = PercentilesOf(t)
  BY DEF Percentiles
<1>3. /\ Len(t) = n
      /\ \A k \in 1..n : \E j \in 1..n : t[k] = spikes[j].latency
      /\ \A j \in 1..n : \E k \in 1..n : t[k] = spikes[j].latency
      /\ \A k \in 1..n : spikes[k].latency \in Nat /\ threshold <= spikes[k].latency
  BY <1>1, <1>2, RecordsOfReads, SortedRecords
<1>4. \A j, k \in 1..n : j <= k => t[j] <= t[k]
  <2>1. t \in Arrangements(RecordedLatencies) /\ Ascending(t)
    BY <1>2 DEF Sorted
  <2>2. DOMAIN t = DOMAIN RecordedLatencies
    BY <2>1 DEF Arrangements
  <2>3. DOMAIN t = 1..n
    BY <1>1, <2>2 DEF RecordedLatencies
  <2> QED
    BY <2>1, <2>3 DEF Ascending
<1>5. PICK i50, i90, i99 :
        /\ i50 = n \div 2 + 1 /\ i90 = (n * 90) \div 100 + 1 /\ i99 = (n * 99) \div 100 + 1
  OBVIOUS
<1>6. /\ i50 \in 1..n /\ i90 \in 1..n /\ i99 \in 1..n /\ n \in 1..n
      /\ i50 <= i90 /\ i90 <= i99 /\ i99 <= n
  BY <1>1, <1>5, PercentilePlaces
<1>7. p.p50 = t[i50] /\ p.p90 = t[i90] /\ p.p99 = t[i99] /\ p.max = t[n]
  BY <1>2, <1>3, <1>5 DEF PercentilesOf, Median, Percentile
<1>8. \A k \in 1..n : k <= n
  BY <1>1
<1>9. ASSUME NEW j \in 1..n PROVE spikes[j].latency <= t[n]
  BY <1>3, <1>4, <1>6, <1>8
<1>10. threshold <= t[i50]
  BY <1>3, <1>6
<1> QED
  BY <1>1, <1>3, <1>4, <1>6, <1>7, <1>9, <1>10

\* What each program reports has the property.
LEMMA ReportInOrder ==
  ASSUME IInv, Report
  PROVE  SummaryInOrder'
<1>1. UNCHANGED <<program, threshold, history, spikes>>
  BY DEF Report
<1>2. SUFFICES ASSUME spikes # <<>>, summary' # <<>>, summary'.max # 0
      PROVE /\ \A k \in DOMAIN spikes : spikes[k].latency <= summary'.max
            /\ \E k \in DOMAIN spikes : spikes[k].latency = summary'.max
            /\ program # "trefi_probe" =>
                 /\ threshold <= summary'.p50 /\ summary'.p50 <= summary'.p90
                 /\ summary'.p90 <= summary'.p99 /\ summary'.p99 <= summary'.max
            /\ program = "trefi_probe" =>
                 threshold < summary'.min /\ summary'.min <= summary'.max
            /\ program = "tailslayer_extreme" =>
                 /\ summary'.min_lat <= summary'.p50 /\ summary'.max <= summary'.max_lat
                 /\ Len(spikes) < MAX_SPIKES => summary'.max = summary'.max_lat
  BY <1>1 DEF SummaryInOrder
<1>3. CASE program = "trefi_probe"
  <2> DEFINE S == {spikes[k].latency : k \in DOMAIN spikes}
  <2>1. ReportTrefi
    BY <1>3 DEF Report
  <2>2. PICK e \in Extremes(S) : summary' = e
    BY <1>2, <2>1 DEF ReportTrefi, LatencyStats
  <2>3. e.min \in S /\ e.max \in S /\ \A l \in S : e.min <= l /\ l <= e.max
    BY DEF Extremes
  <2>4. PICK j \in DOMAIN spikes, k \in DOMAIN spikes :
          e.min = spikes[j].latency /\ e.max = spikes[k].latency
    BY <2>3
  <2>5. \A i \in DOMAIN spikes : spikes[i].latency <= e.max
    BY <2>3
  <2>6. threshold < spikes[j].latency /\ e.min <= e.max
    BY <1>3, <2>3, <2>4, RecordsOfReads
  <2> QED
    BY <1>3, <2>2, <2>4, <2>5, <2>6
<1>4. CASE program = "rust"
  <2>1. summary' \in Percentiles
    BY <1>4 DEF Report, ReportRust
  <2> QED
    BY <1>2, <1>4, <2>1, PercentilesInOrder
<1>5. CASE program = "tailslayer_extreme"
  <2>1. PICK p \in {Zeros} \union Percentiles, r \in ProbeRange :
          summary' = [p50 |-> p.p50, p90 |-> p.p90, p99 |-> p.p99, max |-> p.max,
                      min_lat |-> r.min, max_lat |-> r.max]
    BY <1>5 DEF Report, ReportExtreme
  <2>2. /\ summary'.p50 = p.p50 /\ summary'.p90 = p.p90 /\ summary'.p99 = p.p99
        /\ summary'.max = p.max /\ summary'.min_lat = r.min /\ summary'.max_lat = r.max
    BY <2>1
  <2>3. p \in Percentiles
    BY <1>2, <2>2 DEF Zeros
  <2>4. /\ \A k \in DOMAIN spikes : spikes[k].latency <= p.max
        /\ \E k \in DOMAIN spikes : spikes[k].latency = p.max
        /\ \E k \in DOMAIN spikes : spikes[k].latency = p.p50
        /\ threshold <= p.p50 /\ p.p50 <= p.p90 /\ p.p90 <= p.p99 /\ p.p99 <= p.max
    BY <1>2, <2>3, PercentilesInOrder
  <2>5. /\ \E h \in DOMAIN history : r.max = history[h].latency
        /\ \A h \in DOMAIN history : r.min <= history[h].latency /\ history[h].latency <= r.max
    BY DEF ProbeRange, Extremes
  <2>6. r.min <= p.p50 /\ p.max <= r.max
    BY <2>4, <2>5, RecordsOfReads
  <2>7. ASSUME Len(spikes) < MAX_SPIKES PROVE p.max = r.max
    <3>1. PICK h \in DOMAIN history : r.max = history[h].latency
      BY <2>5
    <3>2. history[h].latency \in Nat /\ p.max \in Nat /\ threshold \in Nat
      BY <2>4, RecordsOfReads
    <3>3. threshold <= history[h].latency
      BY <2>4, <2>6, <3>1, <3>2, RecordsOfReads
    <3>4. \E k \in DOMAIN spikes : spikes[k].latency = history[h].latency
      BY <1>5, <2>7, <3>3, RecordsOfReads
    <3>5. r.max <= p.max
      BY <2>4, <3>1, <3>4
    <3> QED
      BY <2>6, <3>1, <3>2, <3>5
  <2> QED
    BY <1>5, <2>2, <2>4, <2>6, <2>7
<1> QED
  <2>1. program \in Programs
    BY DEF IInv, TypeOK
  <2> QED
    BY <1>3, <1>4, <1>5, <2>1 DEF Programs

\* What the programs report is in order and agrees with the records, and with all
\* reads where no record was left out.
THEOREM ReportAlwaysInOrder == Spec => []SummaryInOrder
<1>1. Init => SummaryInOrder
  BY DEF Init, SummaryInOrder
<1>2. IInv /\ SummaryInOrder /\ [Next]_vars => SummaryInOrder'
  <2> SUFFICES ASSUME IInv, SummaryInOrder, [Next]_vars PROVE SummaryInOrder'
    OBVIOUS
  <2>1. CASE Report
    BY <2>1, ReportInOrder
  <2>2. CASE Parse \/ Obtain \/ Calibrate \/ AllocateSpikes \/ Probe
    <3>1. pc' # "reported"
      <4>1. CASE Parse
        BY <4>1 DEF Parse
      <4>2. CASE Obtain
        BY <4>2 DEF Obtain, MapPage, AllocateBuffer, ExtremeFails, TrefiFails, RustFails
      <4>3. CASE Calibrate \/ AllocateSpikes
        BY <4>3 DEF Calibrate, AllocateSpikes
      <4>4. CASE Probe
        BY <4>4 DEF Probe, ProbeTrefi, ProbeExtreme, ProbeRust, Read
      <4> QED
        BY <2>2, <4>1, <4>2, <4>3, <4>4
    <3> QED
      BY <3>1 DEF SummaryInOrder
  <2>3. CASE UNCHANGED vars
    BY <2>3 DEF vars, SummaryInOrder
  <2> QED
    BY <2>1, <2>2, <2>3 DEF Next
<1> QED
  BY <1>1, <1>2, AlwaysIInv, PTL DEF Spec
===============================================================================
