-------------------------- MODULE BenchmarkArmProofs --------------------------
(***************************************************************************)
(* Proofs about BenchmarkArm: signals, buffers, contexts and threads keep  *)
(* to their arm, for any number of channels, stress threads and samples;   *)
(* and about FifoArm, for any cores and any machine: scheduled as it may   *)
(* be, the program is still BenchmarkArm, and with main alone on its core  *)
(* a stress arm gets to its results only if the stress threads are all     *)
(* apart.                                                                  *)
(***************************************************************************)
EXTENDS FifoArm, Integers, SequenceTheorems, TLAPS

\* A thread that the measurement loop has started and nobody has joined.
Started == {"pinning", "barrier", "warmup", "sampling", "done"}
Stressing == {"pinning", "waiting", "stressing"}

\* Loop counters stay within their loops.
CounterInv ==
  /\ main \in {"allocate", "spawn", "join"} => i \in 0..ArmSize
  /\ main \in {"stress", "unstress"} => i \in 0..NStress /\ WithStress(arm)

\* The flags are those of the arm.
FlagInv ==
  /\ main \in {"choose", "allocate", "stress", "spawn"} => ~m_measure_signal
  /\ main \in {"allocate", "stress"} => ~go /\ ~stop
  /\ main \in {"spawn", "join"} => (go <=> WithStress(arm)) /\ ~stop

\* How far the measurement threads can be, as main goes through the arm.
MeasureInv ==
  /\ main \in {"allocate", "stress", "finished"} =>
       \A c \in Channels : mthread[c] = "absent"
  /\ main = "choose" => \A c \in Channels : mthread[c] \in {"absent", "joined"}
  /\ main = "spawn" => \A c \in Channels :
       /\ c < i => mthread[c] \in {"pinning", "barrier"}
       /\ i <= c => mthread[c] = "absent"
  /\ main = "join" => \A c \in Channels :
       /\ c < i => mthread[c] = "joined"
       /\ i <= c /\ c < ArmSize => mthread[c] \in Started
       /\ ArmSize <= c => mthread[c] = "absent"
  /\ main \in {"unstress", "process", "free", "return"} => \A c \in Channels :
       /\ c < ArmSize => mthread[c] = "joined"
       /\ ArmSize <= c => mthread[c] = "absent"
  /\ main = "threw" => \A c \in Channels : mthread[c] \in {"absent", "pinning", "barrier"}

\* And the stress threads.
StressInv ==
  /\ main = "allocate" => \A s \in Stressors : sthread[s] = "absent"
  /\ main = "choose" => \A s \in Stressors : sthread[s] \in {"absent", "joined"}
  /\ main = "stress" => \A s \in Stressors :
       /\ s < i => sthread[s] \in Stressing
       /\ i <= s => sthread[s] = "absent"
  /\ main \in {"spawn", "join"} => \A s \in Stressors :
       sthread[s] \in IF WithStress(arm) THEN Stressing ELSE {"absent"}
  /\ main = "unstress" => \A s \in Stressors : s < i => sthread[s] = "joined"
  /\ main \in {"process", "free", "return"} => \A s \in Stressors :
       sthread[s] = IF WithStress(arm) THEN "joined" ELSE "absent"

\* A thread's progress tells what it has written.
WrittenInv ==
  \A c \in Channels :
    /\ mthread[c] \in {"absent", "pinning", "barrier", "warmup"} => written[c] = 0
    /\ mthread[c] \in {"done", "joined"} => written[c] = NSamples

\* Samples are in live buffers, and no buffer of the arm is a freed one.
BufferInv ==
  /\ main \in {"allocate", "stress", "spawn", "join", "unstress", "process"} =>
       \A c \in Channels : written[c] > 0 => buffer[c] = "live"
  /\ main = "allocate" => \A c \in Channels : c < i => buffer[c] # "freed"
  /\ main \in {"stress", "spawn", "join", "unstress", "process"} =>
       \A c \in ArmChannels : buffer[c] # "freed"

\* No context has moved.
ContextInv ==
  /\ moved = 0
  /\ \A s \in Stressors : context[s] = 0
  /\ main = "stress" => room = NStress

\* The inductive invariant.
IInv ==
  /\ TypeOK /\ CounterInv /\ FlagInv /\ MeasureInv /\ StressInv /\ WrittenInv
  /\ BufferInv /\ ContextInv /\ NoiseIsTheArms /\ ThreadsEndWithTheirArm

-------------------------------------------------------------------------------
\* An arm measures at least one channel.
LEMMA ArmSizeBound ==
  ArmSize \in 1..NChannels /\ NChannels \in Nat /\ ArmChannels \subseteq Channels
<1> QED
  BY BenchAssumption DEF BenchAssumption, ArmSize, ArmChannels, Channels

\* The benchmark starts in the invariant.
LEMMA InitIInv == Init => IInv
<1> SUFFICES ASSUME Init PROVE IInv
  OBVIOUS
<1>1. TypeOK
  <2>1. do \in SUBSET Arms /\ arm \in {0} \union do
    BY DEF Init
  <2>2. /\ main = "choose" /\ i \in Nat /\ room \in Nat /\ moved \in Nat
        /\ m_measure_signal \in BOOLEAN /\ go \in BOOLEAN /\ stop \in BOOLEAN
    BY DEF Init
  <2>3. /\ buffer \in [Channels -> {"null", "live", "freed"}]
        /\ written \in [Channels -> 0..NSamples]
    BY BenchAssumption DEF Init, BenchAssumption
  <2>4. /\ mthread \in [Channels -> MeasurementStates]
        /\ sthread \in [Stressors -> StressStates]
        /\ context \in [Stressors -> Nat]
    BY DEF Init, MeasurementStates, StressStates
  <2> QED
    BY <2>1, <2>2, <2>3, <2>4 DEF TypeOK
<1>2. CounterInv /\ FlagInv /\ MeasureInv /\ StressInv
  BY DEF Init, CounterInv, FlagInv, MeasureInv, StressInv
<1>3. WrittenInv /\ BufferInv /\ ContextInv
  BY DEF Init, WrittenInv, BufferInv, ContextInv
<1>4. NoiseIsTheArms /\ ThreadsEndWithTheirArm
  BY DEF Init, NoiseIsTheArms, ThreadsEndWithTheirArm
<1> QED
  BY <1>1, <1>2, <1>3, <1>4 DEF IInv

-------------------------------------------------------------------------------
\* The next arm begins with no thread of the last one.
LEMMA ChooseArmStep == ASSUME IInv, ChooseArm PROVE IInv'
<1>1. MeasureInv' /\ StressInv' /\ WrittenInv' /\ BufferInv' /\ ContextInv'
      /\ NoiseIsTheArms' /\ ThreadsEndWithTheirArm'
  BY DEF IInv, ChooseArm, Channels, MeasureInv, StressInv, WrittenInv, BufferInv,
      ContextInv, NoiseIsTheArms, ThreadsEndWithTheirArm
<1>2. CounterInv' /\ FlagInv'
  BY ArmSizeBound DEF IInv, ChooseArm, CounterInv, FlagInv, ArmSize
<1>3. TypeOK'
  <2>1. do' \in SUBSET Arms /\ arm' \in {0} \union do'
    BY DEF IInv, ChooseArm, TypeOK
  <2>2. /\ main' \in {"allocate", "finished"}
        /\ i' \in Nat /\ room' \in Nat /\ moved' \in Nat
        /\ m_measure_signal' \in BOOLEAN /\ go' \in BOOLEAN /\ stop' \in BOOLEAN
    BY DEF IInv, ChooseArm, TypeOK
  <2>3. /\ buffer' \in [Channels -> {"null", "live", "freed"}]
        /\ written' \in [Channels -> 0..NSamples]
    BY BenchAssumption DEF IInv, ChooseArm, TypeOK, BenchAssumption
  <2>4. /\ mthread' \in [Channels -> MeasurementStates]
        /\ sthread' \in [Stressors -> StressStates]
        /\ context' \in [Stressors -> Nat]
    BY DEF IInv, ChooseArm, TypeOK, MeasurementStates, StressStates
  <2> QED
    BY <2>1, <2>2, <2>3, <2>4 DEF TypeOK
<1> QED
  BY <1>1, <1>2, <1>3 DEF IInv

\* A null buffer is let through; a freed one is replaced.
LEMMA AllocateSamplesStep == ASSUME IInv, AllocateSamples PROVE IInv'
<1>1. MeasureInv' /\ StressInv' /\ WrittenInv' /\ ContextInv' /\ NoiseIsTheArms'
      /\ ThreadsEndWithTheirArm'
  BY DEF IInv, AllocateSamples, InLoop, threads, group, MeasureInv, StressInv,
      WrittenInv, ContextInv, NoiseIsTheArms, ThreadsEndWithTheirArm, FlagInv
<1>2. TypeOK' /\ CounterInv' /\ FlagInv'
  BY ArmSizeBound
  DEF IInv, AllocateSamples, InLoop, group, threads, ArmSize, TypeOK, CounterInv,
      FlagInv, Channels
<1>3. BufferInv'
  BY DEF IInv, AllocateSamples, InLoop, BufferInv, Channels, WrittenInv, MeasureInv,
      TypeOK
<1> QED
  BY <1>1, <1>2, <1>3 DEF IInv

\* Room for all contexts is made before the first of them.
LEMMA StartStressStep == ASSUME IInv, StartStress PROVE IInv'
<1>1. MeasureInv' /\ WrittenInv' /\ ContextInv' /\ NoiseIsTheArms'
      /\ ThreadsEndWithTheirArm'
  BY DEF IInv, StartStress, LoopEnds, threads, Reserved, MeasureInv, WrittenInv,
      ContextInv, NoiseIsTheArms, ThreadsEndWithTheirArm, Channels
<1>2. TypeOK' /\ StressInv' /\ BufferInv'
  BY ArmSizeBound, BenchAssumption
  DEF IInv, StartStress, LoopEnds, threads, ArmSize, Reserved, TypeOK, StressInv,
      BufferInv, Stressors, ArmChannels, BenchAssumption
<1>3. CounterInv' /\ FlagInv'
  BY BenchAssumption
  DEF IInv, StartStress, ArmSize, LoopEnds, CounterInv, FlagInv, BenchAssumption
<1> QED
  BY <1>1, <1>2, <1>3 DEF IInv

\* There is room, so that no context moves.
LEMMA SpawnStressStep == ASSUME IInv, SpawnStress PROVE IInv'
<1>1. MeasureInv' /\ WrittenInv' /\ BufferInv' /\ NoiseIsTheArms'
      /\ ThreadsEndWithTheirArm'
  BY DEF IInv, SpawnStress, InLoop, MeasureInv, WrittenInv, BufferInv,
      NoiseIsTheArms, ThreadsEndWithTheirArm, ArmChannels, ArmSize
<1>2. CounterInv' /\ FlagInv' /\ ContextInv'
  BY BenchAssumption
  DEF IInv, SpawnStress, InLoop, CounterInv, FlagInv, ContextInv, BenchAssumption
<1>3. TypeOK' /\ StressInv'
  BY BenchAssumption
  DEF IInv, SpawnStress, InLoop, TypeOK, StressInv, Stressing, Stressors,
      BenchAssumption, StressStates
<1> QED
  BY <1>1, <1>2, <1>3 DEF IInv

\* From here to the join the stress threads are called to work.
LEMMA GoStressStep == ASSUME IInv, GoStress PROVE IInv'
<1>1. TypeOK' /\ MeasureInv' /\ WrittenInv' /\ ContextInv' /\ NoiseIsTheArms'
      /\ ThreadsEndWithTheirArm'
  BY DEF IInv, GoStress, LoopEnds, threads, GoRaised, TypeOK, MeasureInv,
      WrittenInv, ContextInv, NoiseIsTheArms, ThreadsEndWithTheirArm, Channels
<1>2. BufferInv'
  BY DEF IInv, GoStress, LoopEnds, BufferInv, ArmChannels, ArmSize
<1>3. CounterInv' /\ FlagInv' /\ StressInv'
  BY ArmSizeBound
  DEF IInv, GoStress, LoopEnds, threads, GoRaised, CounterInv, FlagInv, StressInv,
      Stressors, ArmSize
<1> QED
  BY <1>1, <1>2, <1>3 DEF IInv

\* A new measurement thread finds the signal down.
LEMMA SpawnMeasurementStep == ASSUME IInv, SpawnMeasurement PROVE IInv'
<1>1. MeasureInv' /\ StressInv' /\ WrittenInv' /\ ContextInv' /\ NoiseIsTheArms'
      /\ ThreadsEndWithTheirArm'
  BY DEF IInv, SpawnMeasurement, InLoop, group, MeasureInv, StressInv, WrittenInv,
      ContextInv, NoiseIsTheArms, ThreadsEndWithTheirArm, Channels, TypeOK
<1>2. BufferInv'
  BY DEF IInv, SpawnMeasurement, ArmSize, InLoop, BufferInv, ArmChannels
<1>3. TypeOK' /\ CounterInv' /\ FlagInv'
  BY ArmSizeBound
  DEF IInv, SpawnMeasurement, InLoop, group, ArmSize, TypeOK, CounterInv, FlagInv,
      Channels, MeasurementStates
<1> QED
  BY <1>1, <1>2, <1>3 DEF IInv

\* Before the signal no thread is beyond the barrier.
LEMMA SpawnThrowsStep == ASSUME IInv, SpawnThrows PROVE IInv'
<1>1. CounterInv' /\ FlagInv' /\ StressInv' /\ WrittenInv' /\ BufferInv'
      /\ ContextInv' /\ NoiseIsTheArms' /\ ThreadsEndWithTheirArm'
  BY DEF IInv, SpawnThrows, threads, group, CounterInv, FlagInv, StressInv,
      WrittenInv, BufferInv, ContextInv, NoiseIsTheArms, ThreadsEndWithTheirArm
<1>2. TypeOK'
  BY DEF IInv, SpawnThrows, group, threads, TypeOK, Dead
<1>3. MeasureInv'
  BY DEF IInv, SpawnThrows, InLoop, threads, MeasureInv, Channels, CounterInv
<1> QED
  BY <1>1, <1>2, <1>3 DEF IInv

\* All measurement threads of the arm exist.
LEMMA SignalStep == ASSUME IInv, Signal PROVE IInv'
<1>1. TypeOK' /\ StressInv' /\ WrittenInv' /\ ContextInv' /\ NoiseIsTheArms'
      /\ ThreadsEndWithTheirArm'
  BY DEF IInv, Signal, LoopEnds, threads, group, TypeOK, StressInv, WrittenInv,
      ContextInv, NoiseIsTheArms, ThreadsEndWithTheirArm
<1>2. CounterInv' /\ FlagInv' /\ BufferInv'
  BY DEF IInv, Signal, ArmSize, LoopEnds, group, CounterInv, FlagInv, BufferInv,
      ArmChannels
<1>3. MeasureInv'
  BY DEF IInv, Signal, ArmSize, LoopEnds, threads, MeasureInv, Channels, Started
<1> QED
  BY <1>1, <1>2, <1>3 DEF IInv

\* A joined thread has written all its samples.
LEMMA JoinStep == ASSUME IInv, Join PROVE IInv'
<1>1. StressInv' /\ WrittenInv' /\ ContextInv' /\ NoiseIsTheArms'
      /\ ThreadsEndWithTheirArm'
  BY DEF IInv, Join, InLoop, group, StressInv, WrittenInv, ContextInv,
      NoiseIsTheArms, ThreadsEndWithTheirArm
<1>2. TypeOK' /\ MeasureInv' /\ BufferInv'
  BY ArmSizeBound
  DEF IInv, Join, ArmSize, InLoop, group, TypeOK, MeasureInv, BufferInv, Channels,
      ArmChannels, MeasurementStates
<1>3. CounterInv' /\ FlagInv'
  BY ArmSizeBound DEF IInv, Join, ArmSize, InLoop, group, CounterInv, FlagInv
<1> QED
  BY <1>1, <1>2, <1>3 DEF IInv

\* No thread samples any more.
LEMMA StopStressStep == ASSUME IInv, StopStress PROVE IInv'
<1>1. TypeOK' /\ WrittenInv' /\ ContextInv' /\ ThreadsEndWithTheirArm'
  BY DEF IInv, StopStress, LoopEnds, threads, StopRaised, TypeOK, WrittenInv,
      ContextInv, ThreadsEndWithTheirArm
<1>2. CounterInv' /\ FlagInv' /\ StressInv' /\ BufferInv'
  BY BenchAssumption
  DEF IInv, StopStress, LoopEnds, threads, ArmSize, CounterInv, FlagInv, StressInv,
      BufferInv, BenchAssumption, Stressors, ArmChannels
<1>3. MeasureInv'
  BY DEF IInv, StopStress, JoinedCount, ArmSize, LoopEnds, threads, MeasureInv
<1>4. NoiseIsTheArms'
  <2>1. main' \in {"unstress", "process"} /\ main = "join" /\ i = ArmSize
    BY DEF StopStress, LoopEnds, JoinedCount
  <2>2. \A d \in Channels : mthread[d] # "sampling"
    BY <2>1, ArmSizeBound DEF IInv, MeasureInv, Channels
  <2> QED
    BY <2>2 DEF StopStress, NoiseIsTheArms, threads
<1> QED
  BY <1>1, <1>2, <1>3, <1>4 DEF IInv

\* The stress threads are joined one by one.
LEMMA JoinStressStep == ASSUME IInv, JoinStress PROVE IInv'
<1>1. MeasureInv' /\ WrittenInv' /\ ContextInv' /\ NoiseIsTheArms'
      /\ ThreadsEndWithTheirArm'
  BY DEF IInv, JoinStress, InLoop, group, MeasureInv, WrittenInv, ContextInv,
      NoiseIsTheArms, ThreadsEndWithTheirArm, ArmSize
<1>2. StressInv' /\ BufferInv'
  BY DEF IInv, JoinStress, InLoop, StressInv, BufferInv, Stressors, TypeOK,
      ArmChannels, ArmSize
<1>3. CounterInv' /\ FlagInv'
  BY BenchAssumption
  DEF IInv, JoinStress, InLoop, StressJoined, CounterInv, FlagInv, BenchAssumption
<1>4. TypeOK'
  BY BenchAssumption
  DEF IInv, JoinStress, InLoop, StressJoined, group, TypeOK, BenchAssumption,
      StressStates, Stressors
<1> QED
  BY <1>1, <1>2, <1>3, <1>4 DEF IInv

\* All of them are joined.
LEMMA StressJoinedAllStep == ASSUME IInv, StressJoinedAll PROVE IInv'
<1>1. TypeOK' /\ CounterInv' /\ FlagInv' /\ WrittenInv' /\ ContextInv'
      /\ NoiseIsTheArms' /\ ThreadsEndWithTheirArm'
  BY DEF IInv, StressJoinedAll, LoopEnds, threads, group, TypeOK, CounterInv,
      FlagInv, WrittenInv, ContextInv, NoiseIsTheArms, ThreadsEndWithTheirArm
<1>2. MeasureInv' /\ BufferInv'
  BY DEF IInv, StressJoinedAll, LoopEnds, threads, MeasureInv, BufferInv, ArmSize,
      ArmChannels
<1>3. StressInv'
  BY DEF IInv, StressJoinedAll, LoopEnds, StressJoined, threads, StressInv,
      Stressors, CounterInv
<1> QED
  BY <1>1, <1>2, <1>3 DEF IInv

\* A buffer that is not live is a null one.
LEMMA ProcessAndWriteStep == ASSUME IInv, ProcessAndWrite PROVE IInv'
<1>1. CounterInv' /\ FlagInv' /\ MeasureInv' /\ StressInv' /\ WrittenInv'
      /\ BufferInv' /\ ContextInv'
  BY DEF IInv, ProcessAndWrite, threads, group, ArmSize, CounterInv, FlagInv,
      MeasureInv, StressInv, WrittenInv, BufferInv, ContextInv
<1>2. TypeOK' /\ NoiseIsTheArms'
  BY DEF IInv, ProcessAndWrite, group, threads, TypeOK, NoiseIsTheArms, Dead
<1>3. ThreadsEndWithTheirArm'
  BY ArmSizeBound
  DEF IInv, ProcessAndWrite, ArmChannels, ArmSize, ThreadsEndWithTheirArm,
      BufferInv, TypeOK
<1> QED
  BY <1>1, <1>2, <1>3 DEF IInv

\* All threads of the arm are joined.
LEMMA FreeSamplesStep == ASSUME IInv, FreeSamples PROVE IInv'
<1>1. TypeOK' /\ CounterInv' /\ FlagInv' /\ StressInv' /\ WrittenInv'
      /\ BufferInv' /\ ContextInv' /\ ThreadsEndWithTheirArm'
  BY DEF IInv, FreeSamples, threads, group, TypeOK, CounterInv, FlagInv, StressInv,
      WrittenInv, BufferInv, ContextInv, ThreadsEndWithTheirArm
<1>2. MeasureInv' /\ NoiseIsTheArms'
  BY DEF IInv, FreeSamples, ArmSize, threads, group, MeasureInv, NoiseIsTheArms
<1> QED
  BY <1>1, <1>2 DEF IInv

\* There is nothing joinable left.
LEMMA ReturnAndResetStep == ASSUME IInv, ReturnAndReset PROVE IInv'
<1>1. CounterInv' /\ FlagInv' /\ StressInv' /\ WrittenInv' /\ BufferInv'
      /\ ContextInv'
  BY DEF IInv, ReturnAndReset, threads, group, SignalAfterReset, CounterInv,
      FlagInv, StressInv, WrittenInv, BufferInv, ContextInv
<1>2. TypeOK' /\ MeasureInv' /\ NoiseIsTheArms'
  BY DEF IInv, ReturnAndReset, Joinable, threads, group, SignalAfterReset, TypeOK,
      MeasureInv, NoiseIsTheArms, Dead
<1>3. ThreadsEndWithTheirArm'
  BY ArmSizeBound
  DEF IInv, ReturnAndReset, Channels, Joinable, ThreadsEndWithTheirArm, MeasureInv,
      StressInv
<1> QED
  BY <1>1, <1>2, <1>3 DEF IInv

\* A thread pins itself before or after the signal.
LEMMA PinMeasurementStep == ASSUME IInv, NEW c \in Channels, PinMeasurement(c) PROVE IInv'
<1>1. TypeOK' /\ StressInv' /\ WrittenInv' /\ ContextInv' /\ NoiseIsTheArms'
      /\ ThreadsEndWithTheirArm'
  BY DEF IInv, PinMeasurement, MStep, group, TypeOK, StressInv, WrittenInv,
      ContextInv, NoiseIsTheArms, ThreadsEndWithTheirArm, MeasurementStates
<1>2. CounterInv' /\ FlagInv' /\ MeasureInv' /\ BufferInv'
  BY DEF IInv, PinMeasurement, MStep, group, CounterInv, FlagInv, MeasureInv,
      BufferInv, ArmSize, Started, ArmChannels
<1> QED
  BY <1>1, <1>2 DEF IInv

\* The signal is up only after all threads were started.
LEMMA PassBarrierStep == ASSUME IInv, NEW c \in Channels, PassBarrier(c) PROVE IInv'
<1>1. TypeOK' /\ StressInv' /\ WrittenInv' /\ ContextInv' /\ NoiseIsTheArms'
      /\ ThreadsEndWithTheirArm'
  BY DEF IInv, PassBarrier, MStep, group, TypeOK, StressInv, WrittenInv, ContextInv,
      NoiseIsTheArms, ThreadsEndWithTheirArm, MeasurementStates
<1>2. CounterInv' /\ FlagInv' /\ BufferInv'
  BY DEF IInv, PassBarrier, MStep, group, CounterInv, FlagInv, BufferInv,
      ArmChannels, ArmSize
<1>3. MeasureInv'
  <2>0. main \notin {"choose", "allocate", "stress", "spawn"} \union Dead
    BY DEF IInv, PassBarrier, MStep, FlagInv
  <2>1. main = "join" /\ main' = main /\ i' = i /\ ArmSize' = ArmSize
    <3>1. main' = main /\ i' = i /\ ArmSize' = ArmSize
      BY DEF PassBarrier, MStep, ArmSize
    <3>2. main \notin {"unstress", "process", "free", "return", "finished"}
      BY ArmSizeBound DEF IInv, PassBarrier, MStep, MeasureInv, Channels
    <3> QED
      BY <2>0, <3>1, <3>2 DEF IInv, TypeOK
  <2>2. i \in Int /\ ArmSize \in Int /\ c \in Int
    BY <2>1, ArmSizeBound DEF IInv, CounterInv, Channels
  <2>3. i <= c /\ c < ArmSize
    BY <2>1, <2>2 DEF IInv, PassBarrier, MStep, MeasureInv
  <2>4. /\ mthread' = [mthread EXCEPT ![c] = "warmup"]
        /\ mthread \in [Channels -> MeasurementStates]
    BY DEF IInv, PassBarrier, MStep, TypeOK
  <2> QED
    BY <2>1, <2>2, <2>3, <2>4 DEF IInv, MeasureInv, Started, Channels
<1> QED
  BY <1>1, <1>2, <1>3 DEF IInv

\* Warming up writes nothing.
LEMMA WarmupStep == ASSUME IInv, NEW c \in Channels, Warmup(c) PROVE IInv'
<1>1. TypeOK' /\ StressInv' /\ WrittenInv' /\ ContextInv' /\ ThreadsEndWithTheirArm'
  BY DEF IInv, Warmup, MStep, group, TypeOK, StressInv, WrittenInv, ContextInv,
      ThreadsEndWithTheirArm, MeasurementStates
<1>2. CounterInv' /\ FlagInv' /\ MeasureInv' /\ BufferInv'
  BY DEF IInv, Warmup, MStep, group, CounterInv, FlagInv, MeasureInv, BufferInv,
      ArmSize, Started, ArmChannels
<1>3. NoiseIsTheArms'
  BY ArmSizeBound
  DEF IInv, Warmup, MStep, group, NoiseIsTheArms, Channels, FlagInv, MeasureInv,
      StressInv, TypeOK
<1> QED
  BY <1>1, <1>2, <1>3 DEF IInv

\* A sample goes to a live buffer, or the process ends for want of one.
LEMMA SampleStep == ASSUME IInv, NEW c \in Channels, Sample(c) PROVE IInv'
<1>1. MeasureInv' /\ StressInv' /\ WrittenInv' /\ ContextInv' /\ NoiseIsTheArms'
  BY DEF IInv, Sample, MStep, group, MeasureInv, StressInv, WrittenInv, ContextInv,
      NoiseIsTheArms, ArmSize, TypeOK
<1>2. CounterInv' /\ FlagInv' /\ BufferInv'
  BY DEF IInv, Sample, MStep, group, CounterInv, FlagInv, BufferInv, ArmSize,
      ArmChannels, TypeOK
<1>3. TypeOK'
  <2>1. written' \in [Channels -> 0..NSamples]
    BY BenchAssumption DEF IInv, Sample, MStep, MoreSamples, TypeOK, BenchAssumption
  <2>2. main' \in {main, "crashed"}
    BY DEF Sample
  <2>3. mthread' \in [Channels -> MeasurementStates]
    BY DEF IInv, Sample, MStep, TypeOK, MeasurementStates
  <2> QED
    BY <2>1, <2>2, <2>3 DEF IInv, Sample, MStep, TypeOK, Dead, group
<1>4. ThreadsEndWithTheirArm'
  <2>1. CASE buffer[c] = "live"
    BY <2>1 DEF IInv, Sample, MStep, ThreadsEndWithTheirArm, ArmChannels, ArmSize
  <2>2. CASE buffer[c] # "live"
    <3>1. main' = "crashed" /\ buffer' = buffer /\ ArmChannels' = ArmChannels
      BY <2>2 DEF Sample, MStep, ArmChannels, ArmSize
    <3>2. main = "join" /\ c \in ArmChannels
      <4>1. main \notin {"unstress", "process", "free", "return"}
        BY ArmSizeBound DEF IInv, Sample, MStep, MeasureInv, Channels
      <4>2. main = "spawn" => i \in Int
        BY ArmSizeBound DEF IInv, CounterInv
      <4>3. main \notin {"choose", "allocate", "stress", "spawn", "finished"}
        BY <4>2 DEF IInv, Sample, MStep, MeasureInv, Channels
      <4>4. main = "join"
        BY <4>1, <4>3 DEF IInv, Sample, MStep, TypeOK
      <4> QED
        BY <4>4, ArmSizeBound
        DEF IInv, Sample, MStep, MeasureInv, ArmChannels, Channels
    <3>3. buffer[c] = "null"
      BY <2>2, <3>2 DEF IInv, BufferInv, TypeOK
    <3> QED
      BY <3>1, <3>2, <3>3 DEF ThreadsEndWithTheirArm
  <2> QED
    BY <2>1, <2>2
<1> QED
  BY <1>1, <1>2, <1>3, <1>4 DEF IInv

\* The thread ends with its buffer full.
LEMMA EndMeasurementStep == ASSUME IInv, NEW c \in Channels, EndMeasurement(c) PROVE IInv'
<1>1. TypeOK' /\ StressInv' /\ WrittenInv' /\ ContextInv' /\ NoiseIsTheArms'
      /\ ThreadsEndWithTheirArm'
  BY DEF IInv, EndMeasurement, MStep, group, TypeOK, StressInv, WrittenInv,
      ContextInv, NoiseIsTheArms, ThreadsEndWithTheirArm, MeasurementStates
<1>2. CounterInv' /\ FlagInv' /\ MeasureInv' /\ BufferInv'
  BY DEF IInv, EndMeasurement, MStep, group, CounterInv, FlagInv, MeasureInv,
      BufferInv, ArmSize, Started, ArmChannels
<1> QED
  BY <1>1, <1>2 DEF IInv

\* A stress thread pins itself.
LEMMA PinStressStep == ASSUME IInv, NEW s \in Stressors, PinStress(s) PROVE IInv'
<1>1. MeasureInv' /\ StressInv' /\ WrittenInv' /\ ContextInv' /\ NoiseIsTheArms'
  BY DEF IInv, PinStress, SStep, group, MeasureInv, StressInv, WrittenInv,
      ContextInv, NoiseIsTheArms, ArmSize, Stressing
<1>2. TypeOK' /\ CounterInv' /\ FlagInv' /\ BufferInv' /\ ThreadsEndWithTheirArm'
  BY DEF IInv, PinStress, SStep, group, TypeOK, CounterInv, FlagInv, BufferInv,
      ThreadsEndWithTheirArm, StressStates, ArmChannels, ArmSize
<1> QED
  BY <1>1, <1>2 DEF IInv

\* It begins when it is called.
LEMMA BeginStressStep == ASSUME IInv, NEW s \in Stressors, BeginStress(s) PROVE IInv'
<1>1. MeasureInv' /\ StressInv' /\ WrittenInv' /\ ContextInv' /\ NoiseIsTheArms'
  BY DEF IInv, BeginStress, SStep, group, MeasureInv, StressInv, WrittenInv,
      ContextInv, NoiseIsTheArms, ArmSize, Stressing
<1>2. TypeOK' /\ CounterInv' /\ FlagInv' /\ BufferInv' /\ ThreadsEndWithTheirArm'
  BY DEF IInv, BeginStress, SStep, group, TypeOK, CounterInv, FlagInv, BufferInv,
      ThreadsEndWithTheirArm, StressStates, ArmChannels, ArmSize
<1> QED
  BY <1>1, <1>2 DEF IInv

\* It ends only when it is told to, that is, after the measurement.
LEMMA EndStressStep == ASSUME IInv, NEW s \in Stressors, EndStress(s) PROVE IInv'
<1>1. CounterInv' /\ FlagInv' /\ MeasureInv' /\ WrittenInv' /\ ContextInv'
      /\ NoiseIsTheArms'
  BY DEF IInv, EndStress, SStep, group, CounterInv, FlagInv, MeasureInv, WrittenInv,
      ContextInv, NoiseIsTheArms, ArmSize
<1>2. TypeOK' /\ BufferInv' /\ ThreadsEndWithTheirArm'
  BY DEF IInv, EndStress, SStep, group, TypeOK, BufferInv, ThreadsEndWithTheirArm,
      StressStates, ArmChannels, ArmSize
<1>3. StressInv'
  <2>1. main \notin {"allocate", "choose", "stress", "spawn", "join", "process",
                     "free", "return"}
    BY DEF IInv, EndStress, SStep, FlagInv, StressInv, Stressing
  <2>2. /\ sthread' = [sthread EXCEPT ![s] = "done"]
        /\ sthread \in [Stressors -> StressStates]
    BY DEF IInv, EndStress, SStep, TypeOK
  <2>3. main = "unstress" => ~(s < i)
    BY DEF IInv, EndStress, SStep, StressInv
  <2>4. main' = main /\ i' = i
    BY DEF EndStress, SStep
  <2> QED
    BY <2>1, <2>2, <2>3, <2>4 DEF IInv, StressInv
<1> QED
  BY <1>1, <1>2, <1>3 DEF IInv

\* No step of any thread leaves the invariant.
LEMMA StepIInv == IInv /\ [Next]_vars => IInv'
<1> SUFFICES ASSUME IInv, [Next]_vars PROVE IInv'
  OBVIOUS
<1>1. CASE Main
  BY <1>1, ChooseArmStep, AllocateSamplesStep, StartStressStep, SpawnStressStep,
     GoStressStep, SpawnMeasurementStep, SpawnThrowsStep, SignalStep, JoinStep,
     StopStressStep, JoinStressStep, StressJoinedAllStep, ProcessAndWriteStep,
     FreeSamplesStep, ReturnAndResetStep
  DEF Main
<1>2. ASSUME NEW c \in Channels, Measurement(c) PROVE IInv'
  BY <1>2, PinMeasurementStep, PassBarrierStep, WarmupStep, SampleStep,
     EndMeasurementStep
  DEF Measurement
<1>3. ASSUME NEW s \in Stressors, Stress(s) PROVE IInv'
  BY <1>3, PinStressStep, BeginStressStep, EndStressStep DEF Stress
<1>4. CASE UNCHANGED vars
  BY <1>4
  DEF vars, group, threads, IInv, TypeOK, CounterInv, FlagInv, MeasureInv,
      StressInv, WrittenInv, BufferInv, ContextInv, NoiseIsTheArms,
      ThreadsEndWithTheirArm, ArmSize, ArmChannels
<1> QED
  BY <1>1, <1>2, <1>3, <1>4 DEF Next

\* The invariant holds in every reachable state.
LEMMA AlwaysIInv == Spec => []IInv
<1> QED
  BY InitIInv, StepIInv, PTL DEF Spec

-------------------------------------------------------------------------------
\* The variables keep their types in every arm.
THEOREM TypeCorrect == Spec => []TypeOK
<1>1. IInv => TypeOK
  BY DEF IInv
<1> QED
  BY <1>1, AlwaysIInv, PTL

\* No measurement begins on the signal of an earlier arm, or before all threads
\* of its own arm exist.
THEOREM StartsOnOwnSignal == Spec => []StartsOnItsOwnSignal
<1>1. ASSUME IInv PROVE StartsOnItsOwnSignal
  <2> SUFFICES ASSUME NEW c \in Channels, PastBarrier(c)
               PROVE  main \in {"join"} \union Dead
    BY DEF StartsOnItsOwnSignal
  <2>1. main \notin {"choose", "allocate", "stress", "finished"}
    BY <1>1 DEF IInv, MeasureInv, PastBarrier
  <2>2. main # "spawn"
    BY <1>1, ArmSizeBound DEF IInv, MeasureInv, CounterInv, PastBarrier, Channels
  <2>3. main \notin {"unstress", "process", "free", "return"}
    BY <1>1, ArmSizeBound DEF IInv, MeasureInv, PastBarrier, Channels
  <2> QED
    BY <1>1, <2>1, <2>2, <2>3 DEF IInv, TypeOK
<1> QED
  BY <1>1, AlwaysIInv, PTL

\* Every buffer is complete, and still there, when it is processed.
THEOREM ProcessesComplete == Spec => []ProcessedIsComplete
<1>1. ASSUME IInv PROVE ProcessedIsComplete
  <2> SUFFICES ASSUME main = "process", NEW c \in ArmChannels
               PROVE  written[c] = NSamples /\ (NSamples > 0 => buffer[c] = "live")
    BY DEF ProcessedIsComplete
  <2>1. c \in Channels
    BY ArmSizeBound
  <2>2. mthread[c] = "joined"
    BY <1>1, <2>1, ArmSizeBound DEF IInv, MeasureInv, ArmChannels
  <2> QED
    BY <1>1, <2>1, <2>2 DEF IInv, WrittenInv, BufferInv
<1> QED
  BY <1>1, AlwaysIInv, PTL

\* No stress thread is left with a pointer to a context that has moved.
THEOREM ContextsNeverMove == Spec => []ContextsStay
<1>1. IInv => ContextsStay
  BY DEF IInv, ContextInv, ContextsStay
<1> QED
  BY <1>1, AlwaysIInv, PTL

\* No thread outlives its arm.
THEOREM ThreadsEnd == Spec => []ThreadsEndWithTheirArm
<1>1. IInv => ThreadsEndWithTheirArm
  BY DEF IInv
<1> QED
  BY <1>1, AlwaysIInv, PTL

\* Samples are taken under the conditions that name the arm.
THEOREM NoiseIsCorrect == Spec => []NoiseIsTheArms
<1>1. IInv => NoiseIsTheArms
  BY DEF IInv
<1> QED
  BY <1>1, AlwaysIInv, PTL

-------------------------------------------------------------------------------
(***************************************************************************)
(* On cores: what BenchmarkArm's threads do when a scheduler runs them.    *)
(***************************************************************************)

\* Nothing about the scheduler is disturbed by a step that leaves it alone, and
\* every step of a thread is the one that BenchmarkArm allows it.
LEMMA StepIsNext == [FifoNext]_fifo_vars => [Next]_vars
<1> SUFFICES ASSUME [FifoNext]_fifo_vars PROVE [Next]_vars
  OBVIOUS
<1>1. CASE MainOnCore
  BY <1>1 DEF MainOnCore, MainStep, MainKeepsCore, Next, Main
<1>2. CASE MainBlocks \/ MainWakes \/ Balance
  BY <1>2 DEF MainBlocks, MainWakes, Balance
<1>3. ASSUME NEW c \in Channels, MeasurementOnCore(c) PROVE Next
  BY <1>3 DEF MeasurementOnCore, Next, Measurement
<1>4. ASSUME NEW s \in Stressors, StressOnCore(s) PROVE Next
  BY <1>4 DEF StressOnCore, Next, Stress
<1>5. CASE UNCHANGED fifo_vars
  BY <1>5 DEF fifo_vars
<1> QED
  BY <1>1, <1>2, <1>3, <1>4, <1>5 DEF FifoNext

\* The benchmark on its cores implements the benchmark.
THEOREM FifoImplementsArm == FifoSpec => Spec
<1>1. FifoInit => Init
  BY DEF FifoInit
<1> QED
  BY <1>1, StepIsNext, PTL DEF FifoSpec, Spec

-------------------------------------------------------------------------------
(***************************************************************************)
(* Queues of threads: who is in one, and who stands before whom.           *)
(***************************************************************************)

Threads == {MainThread} \union {MThread(c) : c \in Channels}
                        \union {SThread(s) : s \in Stressors}
Queues == [Cores -> Seq(Threads)]

In(q, c, t) == \E k \in 1..Len(q[c]) : q[c][k] = t

\* Every u in the queue of c stands before every v.
Ahead(q, c, u, v) ==
  \A j, k \in 1..Len(q[c]) : q[c][j] = u /\ q[c][k] = v => j < k

Once(q, c, t) == \A j, k \in 1..Len(q[c]) : q[c][j] = t /\ q[c][k] = t => j = k

\* Queuing t on core c changes nothing for those who are queued.
LEMMA BehindQueue ==
  ASSUME NEW q \in Queues, NEW t \in Threads, NEW c \in Cores
  PROVE  /\ Behind(q, t, c) \in Queues
         /\ \A d \in Cores : d # c => Behind(q, t, c)[d] = q[d]
         /\ Len(Behind(q, t, c)[c]) = Len(q[c]) + 1
         /\ \A k \in 1..Len(q[c]) : Behind(q, t, c)[c][k] = q[c][k]
         /\ Behind(q, t, c)[c][Len(q[c]) + 1] = t
         /\ Len(q[c]) \in Nat
<1>1. q[c] \in Seq(Threads)
  BY DEF Queues
<1>2. Behind(q, t, c) = [q EXCEPT ![c] = Append(q[c], t)]
  BY DEF Behind
<1>3. /\ Append(q[c], t) \in Seq(Threads)
      /\ Len(Append(q[c], t)) = Len(q[c]) + 1
      /\ \A k \in 1..Len(q[c]) : Append(q[c], t)[k] = q[c][k]
      /\ Append(q[c], t)[Len(q[c]) + 1] = t
  BY <1>1, AppendProperties
<1>4. Behind(q, t, c)[c] = Append(q[c], t)
  BY <1>2 DEF Queues
<1>5. Behind(q, t, c) \in Queues /\ \A d \in Cores : d # c => Behind(q, t, c)[d] = q[d]
  BY <1>2, <1>3 DEF Queues
<1> QED
  BY <1>1, <1>3, <1>4, <1>5

LEMMA BehindIn ==
  ASSUME NEW q \in Queues, NEW t \in Threads, NEW c \in Cores, NEW d \in Cores, NEW u
  PROVE  In(Behind(q, t, c), d, u) <=> In(q, d, u) \/ (d = c /\ u = t)
<1>1. CASE d # c
  BY <1>1, BehindQueue DEF In
<1>2. CASE d = c
  <2> DEFINE b == Behind(q, t, c)[c]
  <2>1. /\ Len(b) = Len(q[c]) + 1 /\ Len(q[c]) \in Nat /\ b[Len(q[c]) + 1] = t
        /\ \A k \in 1..Len(q[c]) : b[k] = q[c][k]
    BY BehindQueue
  <2> HIDE DEF b
  <2>2. (\E k \in 1..Len(b) : b[k] = u) <=> (\E k \in 1..Len(q[c]) : q[c][k] = u) \/ u = t
    BY <2>1
  <2> QED
    BY <1>2, <2>2 DEF In, b
<1> QED
  BY <1>1, <1>2

\* Only u itself, queued anew, could stand behind v.
LEMMA BehindAhead ==
  ASSUME NEW q \in Queues, NEW t \in Threads, NEW c \in Cores, NEW d \in Cores,
         NEW u, NEW v, u # v, Ahead(q, d, u, v), u # t \/ ~In(q, d, v) \/ d # c
  PROVE  Ahead(Behind(q, t, c), d, u, v)
<1>1. CASE d # c
  BY <1>1, BehindQueue DEF Ahead
<1>2. CASE d = c
  <2> DEFINE b == Behind(q, t, c)[c]
  <2>1. /\ Len(b) = Len(q[c]) + 1 /\ Len(q[c]) \in Nat /\ b[Len(q[c]) + 1] = t
        /\ \A k \in 1..Len(q[c]) : b[k] = q[c][k]
    BY BehindQueue
  <2> HIDE DEF b
  <2>2. ASSUME NEW j \in 1..Len(b), NEW k \in 1..Len(b), b[j] = u, b[k] = v
        PROVE  j < k
    <3>1. CASE k = Len(q[c]) + 1
      BY <2>1, <2>2, <3>1
    <3>2. CASE k # Len(q[c]) + 1
      <4>1. k \in 1..Len(q[c]) /\ q[c][k] = v
        BY <2>1, <2>2, <3>2
      <4>2. u # t
        BY <1>2, <4>1 DEF In
      <4>3. j \in 1..Len(q[c]) /\ q[c][j] = u
        BY <2>1, <2>2, <4>2
      <4> QED
        BY <1>2, <4>1, <4>3 DEF Ahead
    <3> QED
      BY <3>1, <3>2
  <2> QED
    BY <1>2, <2>2 DEF Ahead, b
<1> QED
  BY <1>1, <1>2

LEMMA BehindOnce ==
  ASSUME NEW q \in Queues, NEW t \in Threads, NEW c \in Cores, NEW d \in Cores, NEW u,
         Once(q, d, u), u # t \/ ~In(q, d, u)
  PROVE  Once(Behind(q, t, c), d, u)
<1>1. CASE d # c
  BY <1>1, BehindQueue DEF Once
<1>2. CASE d = c
  <2> DEFINE b == Behind(q, t, c)[c]
  <2>1. /\ Len(b) = Len(q[c]) + 1 /\ Len(q[c]) \in Nat /\ b[Len(q[c]) + 1] = t
        /\ \A k \in 1..Len(q[c]) : b[k] = q[c][k]
    BY BehindQueue
  <2> HIDE DEF b
  <2>2. ASSUME NEW j \in 1..Len(b), NEW k \in 1..Len(b), b[j] = u, b[k] = u
        PROVE  j = k
    BY <1>2, <2>1, <2>2 DEF Once, In
  <2> QED
    BY <1>2, <2>2 DEF Once, b
<1> QED
  BY <1>1, <1>2

\* The running thread of a core runs on.
LEMMA BehindRuns ==
  ASSUME NEW t \in Threads, NEW c \in Cores, NEW d \in Cores, NEW u,
         queue \in Queues, RunsOn(u, d), queue' = Behind(queue, t, c)
  PROVE  RunsOn(u, d)'
<1>1. CASE d # c
  BY <1>1, BehindQueue DEF RunsOn
<1>2. CASE d = c
  <2>1. queue[d] \in Seq(Threads) /\ queue'[d] = Append(queue[d], t)
    BY <1>2 DEF Behind, Queues
  <2>2. Head(queue'[d]) = Head(queue[d]) /\ queue'[d] # <<>>
    BY <2>1, HeadTailAppend, AppendProperties DEF RunsOn
  <2> QED
    BY <2>2 DEF RunsOn
<1> QED
  BY <1>1, <1>2

\* What is left of the queues when t, wherever it runs, has gone.
LEMMA WithoutQueue ==
  ASSUME NEW t \in Threads, queue \in Queues
  PROVE  /\ WithoutRunning(t) \in Queues
         /\ \A d \in Cores : ~RunsOn(t, d) => WithoutRunning(t)[d] = queue[d]
         /\ \A d \in Cores : RunsOn(t, d) =>
              /\ Len(queue[d]) \in Nat \ {0} /\ queue[d][1] = t
              /\ Len(WithoutRunning(t)[d]) = Len(queue[d]) - 1
              /\ \A k \in 1..Len(WithoutRunning(t)[d]) :
                   WithoutRunning(t)[d][k] = queue[d][k + 1]
<1>1. ASSUME NEW d \in Cores PROVE WithoutRunning(t)[d] = IF RunsOn(t, d) THEN Tail(queue[d]) ELSE queue[d]
  BY DEF WithoutRunning
<1>2. ASSUME NEW d \in Cores, RunsOn(t, d)
      PROVE  /\ Len(queue[d]) \in Nat \ {0} /\ queue[d][1] = t
             /\ Tail(queue[d]) \in Seq(Threads)
             /\ Len(Tail(queue[d])) = Len(queue[d]) - 1
             /\ \A k \in 1..Len(Tail(queue[d])) : Tail(queue[d])[k] = queue[d][k + 1]
  <2>1. queue[d] \in Seq(Threads) /\ queue[d] # <<>> /\ Head(queue[d]) = t
    BY <1>2 DEF Queues, RunsOn
  <2>2. Len(queue[d]) \in Nat \ {0} /\ queue[d][1] = t
    BY <2>1, EmptySeq
  <2> QED
    BY <2>1, <2>2, HeadTailProperties
<1>3. ASSUME NEW d \in Cores PROVE WithoutRunning(t)[d] \in Seq(Threads)
  BY <1>1, <1>2 DEF Queues
<1>4. WithoutRunning(t) \in Queues
  BY <1>3 DEF WithoutRunning, Queues
<1> QED
  BY <1>1, <1>2, <1>4

\* A running thread is queued, and nobody who should be ahead of it is.
LEMMA RunningIsFirst ==
  ASSUME NEW t \in Threads, NEW c \in Cores, queue \in Queues, RunsOn(t, c)
  PROVE  /\ In(queue, c, t)
         /\ \A u : Ahead(queue, c, u, t) => ~In(queue, c, u)
<1>1. Len(queue[c]) \in Nat \ {0} /\ queue[c][1] = t
  BY WithoutQueue
<1> QED
  BY <1>1 DEF In, Ahead

\* The others stay, in their order; the thread itself is gone if it was queued once.
LEMMA WithoutIn ==
  ASSUME NEW t \in Threads, NEW d \in Cores, NEW u, queue \in Queues
  PROVE  /\ In(WithoutRunning(t), d, u) => In(queue, d, u)
         /\ u # t /\ In(queue, d, u) => In(WithoutRunning(t), d, u)
         /\ RunsOn(t, d) /\ Once(queue, d, t) => ~In(WithoutRunning(t), d, t)
<1>1. CASE ~RunsOn(t, d)
  BY <1>1, WithoutQueue DEF In
<1>2. CASE RunsOn(t, d)
  <2> DEFINE w == WithoutRunning(t)[d]
  <2>1. /\ Len(queue[d]) \in Nat \ {0} /\ queue[d][1] = t /\ Len(w) = Len(queue[d]) - 1
        /\ \A k \in 1..Len(w) : w[k] = queue[d][k + 1]
    BY <1>2, WithoutQueue
  <2> HIDE DEF w
  <2>2. ASSUME NEW k \in 1..Len(w) PROVE k + 1 \in 1..Len(queue[d]) /\ w[k] = queue[d][k + 1]
    BY <2>1
  <2>3. ASSUME NEW k \in 1..Len(queue[d]), queue[d][k] # t
        PROVE  k - 1 \in 1..Len(w) /\ w[k - 1] = queue[d][k]
    BY <2>1, <2>3
  <2>4. ASSUME Once(queue, d, t) PROVE \A k \in 1..Len(w) : w[k] # t
    BY <2>1, <2>4 DEF Once
  <2> QED
    BY <2>2, <2>3, <2>4 DEF In, w
<1> QED
  BY <1>1, <1>2

\* A running thread that leaves disturbs no order.
LEMMA WithoutAhead ==
  ASSUME NEW t \in Threads, NEW d \in Cores, NEW u, NEW v, queue \in Queues
  PROVE  /\ Ahead(queue, d, u, v) => Ahead(WithoutRunning(t), d, u, v)
         /\ Once(queue, d, u) => Once(WithoutRunning(t), d, u)
<1>1. CASE ~RunsOn(t, d)
  BY <1>1, WithoutQueue DEF Ahead, Once
<1>2. CASE RunsOn(t, d)
  <2> DEFINE w == WithoutRunning(t)[d]
  <2>1. /\ Len(queue[d]) \in Nat \ {0} /\ Len(w) = Len(queue[d]) - 1
        /\ \A k \in 1..Len(w) : w[k] = queue[d][k + 1]
    BY <1>2, WithoutQueue
  <2> HIDE DEF w
  <2>2. ASSUME NEW k \in 1..Len(w)
        PROVE  k \in Nat /\ w[k] = queue[d][k + 1] /\ k + 1 \in 1..Len(queue[d])
    BY <2>1
  <2>3. ASSUME Ahead(queue, d, u, v)
        PROVE  \A j, k \in 1..Len(w) : w[j] = u /\ w[k] = v => j < k
    <3> SUFFICES ASSUME NEW j \in 1..Len(w), NEW k \in 1..Len(w), w[j] = u, w[k] = v
                 PROVE  j < k
      OBVIOUS
    <3>1. j + 1 < k + 1
      BY <2>2, <2>3 DEF Ahead
    <3> QED
      BY <2>2, <3>1
  <2>4. ASSUME Once(queue, d, u)
        PROVE  \A j, k \in 1..Len(w) : w[j] = u /\ w[k] = u => j = k
    <3> SUFFICES ASSUME NEW j \in 1..Len(w), NEW k \in 1..Len(w), w[j] = u, w[k] = u
                 PROVE  j = k
      OBVIOUS
    <3>1. j + 1 = k + 1
      BY <2>2, <2>4 DEF Once
    <3> QED
      BY <2>2, <3>1
  <2> QED
    BY <2>3, <2>4 DEF Ahead, Once, w
<1> QED
  BY <1>1, <1>2

\* Nor does it stop another that runs.
LEMMA WithoutRuns ==
  ASSUME NEW t \in Threads, NEW d \in Cores, NEW u, u # t, queue \in Queues, RunsOn(u, d)
  PROVE  ~RunsOn(t, d) /\ WithoutRunning(t)[d] = queue[d]
<1> QED
  BY WithoutQueue DEF RunsOn

-------------------------------------------------------------------------------
(***************************************************************************)
(* The invariant, for a main thread that is pinned to its core.            *)
(***************************************************************************)

\* Threads queue where they are bound to, each once.
QueueInv ==
  /\ queue \in Queues /\ mask \in [Threads -> SUBSET Cores] /\ machine \subseteq Cores
  /\ \A d \in Cores, t \in Threads : In(queue, d, t) => mask[t] = {d}
  /\ \A d \in Cores, t \in Threads : Once(queue, d, t)
  /\ mask[MainThread] = {CORE_MAIN}

\* Threads that do not run, or no longer, are in no queue.
GoneInv ==
  /\ \A c \in Channels, d \in Cores :
       mthread[c] \in {"absent", "done", "joined"} => ~In(queue, d, MThread(c))
  /\ \A s \in Stressors, d \in Cores :
       sthread[s] \in {"absent", "done", "joined"} => ~In(queue, d, SThread(s))

\* Where a stress thread ends up when it has called pin_to_core.
Home(s) == IF StressCore(s) \in machine THEN StressCore(s) ELSE CORE_MAIN

\* A thread begins on main's core, and is then where it could pin itself to.
MaskInv ==
  /\ \A c \in Channels :
       /\ mthread[c] = "pinning" => mask[MThread(c)] = {CORE_MAIN}
       /\ mthread[c] = "barrier" /\ MeasurementCore(c) \in machine =>
            mask[MThread(c)] = {MeasurementCore(c)}
  /\ \A s \in Stressors :
       /\ sthread[s] = "pinning" => mask[SThread(s)] = {CORE_MAIN}
       /\ sthread[s] \in {"waiting", "stressing"} => mask[SThread(s)] = {Home(s)}

\* While main creates measurement threads it does not let go of its core.
SetupInv ==
  /\ main \in {"join", "unstress", "process", "free", "return"} => m_measure_signal
  /\ main = "spawn" /\ i > 0 => RunsOn(MainThread, CORE_MAIN)
  /\ \A c \in Channels : mthread[c] = "barrier" => m_measure_signal

\* Stress threads stand before main, and none of them on its core once it goes on.
StandInv ==
  /\ main \in {"stress", "spawn", "join"} => \A s \in Stressors :
       sthread[s] \in Stressing => \E d \in Cores : In(queue, d, SThread(s))
  /\ main = "spawn" /\ WithStress(arm) => \A s \in Stressors :
       Ahead(queue, CORE_MAIN, SThread(s), MainThread)
  /\ (\E c \in Channels : mthread[c] # "absent") => \A s \in Stressors :
       /\ sthread[s] # "pinning"
       /\ WithStress(arm) => StressCore(s) \in machine \ {CORE_MAIN}

\* And before the measurement threads of their own core, which never measure.
ApartInv ==
  WithStress(arm) => \A c \in Channels, s \in Stressors :
    MeasurementCore(c) = StressCore(s) =>
      /\ mthread[c] \notin {"warmup", "sampling", "done", "joined"}
      /\ main = "join" /\ mthread[c] = "barrier" =>
           Ahead(queue, StressCore(s), SThread(s), MThread(c))

CoreInv == QueueInv /\ GoneInv /\ MaskInv /\ SetupInv /\ StandInv /\ ApartInv

FifoInv == IInv /\ (MainPinned => CoreInv)

\* A step that moves no thread but t.
OnlyMoves(t) ==
  \A u \in Threads \ {t}, d \in Cores :
    /\ mask'[u] = mask[u]
    /\ In(queue', d, u) <=> In(queue, d, u)
    /\ RunsOn(u, d) => RunsOn(u, d)'
    /\ \A v \in Threads \ {u} : Ahead(queue, d, u, v) => Ahead(queue', d, u, v)

-------------------------------------------------------------------------------
(***************************************************************************)
(* The scheduler's operations.                                             *)
(***************************************************************************)

\* Main's core is one of the cores.
LEMMA MainCore == ASSUME QueueInv, MainPinned PROVE CORE_MAIN \in Cores /\ ~shared
<1> QED
  BY DEF QueueInv, MainPinned

\* No two threads are the same.
LEMMA ThreadsDiffer ==
  /\ MainThread \in Threads
  /\ \A c \in Channels : MThread(c) \in Threads \ {MainThread}
  /\ \A s \in Stressors : SThread(s) \in Threads \ {MainThread}
  /\ \A c, e \in Channels : MThread(c) = MThread(e) => c = e
  /\ \A s, r \in Stressors : SThread(s) = SThread(r) => s = r
  /\ \A c \in Channels, s \in Stressors : MThread(c) # SThread(s)
<1> QED
  BY DEF Threads, MainThread, MThread, SThread

\* A thread that runs does so on the core it is bound to.
LEMMA RunsAtHome ==
  ASSUME QueueInv, MainPinned, NEW t \in Threads, Runs(t)
  PROVE  \E d \in Cores : RunsOn(t, d) /\ mask[t] = {d} /\ In(queue, d, t)
<1>1. PICK d \in Cores : RunsOn(t, d)
  BY DEF Runs, MainPinned
<1>2. In(queue, d, t)
  BY <1>1, RunningIsFirst DEF QueueInv
<1> QED
  BY <1>1, <1>2 DEF QueueInv

\* Nothing to pull.
LEMMA NobodyIsPulled == ASSUME QueueInv, MainPinned PROVE ~Pull
<1> SUFFICES ASSUME NEW c \in Cores, NEW d \in Cores, NEW k \in 2..Len(queue[c]),
                    queue[d] = <<>>, d \in mask[queue[c][k]]
             PROVE  FALSE
  BY DEF Pull
<1>1. queue[c] \in Seq(Threads) /\ k \in 1..Len(queue[c])
  BY DEF QueueInv, Queues
<1>2. queue[c][k] \in Threads /\ In(queue, c, queue[c][k])
  BY <1>1, ElementOfSeq DEF In
<1>3. c = d
  BY <1>2 DEF QueueInv
<1> QED
  BY <1>1, <1>3, EmptySeq

\* A thread that is created waits on main's core.
LEMMA CreatesQueue ==
  ASSUME QueueInv, MainPinned, NEW t \in Threads \ {MainThread},
         Creates(MainThread, t), \A d \in Cores : ~In(queue, d, t)
  PROVE  /\ QueueInv' /\ OnlyMoves(t)
         /\ mask'[t] = {CORE_MAIN} /\ In(queue', CORE_MAIN, t)
<1> USE MainCore
<1>1. /\ mask' = [mask EXCEPT ![t] = {CORE_MAIN}]
      /\ queue' = Behind(queue, t, CORE_MAIN)
      /\ machine' = machine
  BY DEF Creates, Place, QueueInv
<1>2. queue' \in Queues
  BY <1>1, BehindQueue DEF QueueInv
<1>3. mask' \in [Threads -> SUBSET Cores] /\ mask'[t] = {CORE_MAIN}
      /\ \A u \in Threads \ {t} : mask'[u] = mask[u]
  BY <1>1 DEF QueueInv
<1>4. ASSUME NEW u \in Threads, NEW d \in Cores
      PROVE  In(queue', d, u) <=> In(queue, d, u) \/ (d = CORE_MAIN /\ u = t)
  BY <1>1, BehindIn DEF QueueInv
<1>5. ASSUME NEW u \in Threads, NEW d \in Cores PROVE Once(queue', d, u)
  BY <1>1, BehindOnce DEF QueueInv
<1>6. ASSUME NEW u \in Threads, NEW d \in Cores, In(queue', d, u) PROVE mask'[u] = {d}
  BY <1>3, <1>4, <1>6 DEF QueueInv
<1>7. QueueInv'
  BY <1>1, <1>2, <1>3, <1>5, <1>6, ThreadsDiffer DEF QueueInv
<1>8. ASSUME NEW u \in Threads \ {t}, NEW d \in Cores,
             NEW v \in Threads \ {u}, Ahead(queue, d, u, v)
      PROVE  Ahead(queue', d, u, v)
  BY <1>1, <1>8, BehindAhead DEF QueueInv
<1>9. ASSUME NEW u \in Threads \ {t}, NEW d \in Cores, RunsOn(u, d) PROVE RunsOn(u, d)'
  BY <1>1, <1>9, BehindRuns DEF QueueInv
<1> QED
  BY <1>3, <1>4, <1>7, <1>8, <1>9 DEF OnlyMoves

\* A thread that leaves is queued nowhere.
LEMMA LeavesQueue ==
  ASSUME QueueInv, MainPinned, NEW t \in Threads, Runs(t), Leaves(t)
  PROVE  QueueInv' /\ OnlyMoves(t) /\ (\A d \in Cores : ~In(queue', d, t)) /\ mask' = mask
<1>1. queue' = WithoutRunning(t) /\ mask' = mask /\ machine' = machine
  BY DEF Leaves
<1>2. queue' \in Queues
  BY <1>1, WithoutQueue DEF QueueInv
<1>3. ASSUME NEW u \in Threads, NEW d \in Cores
      PROVE  /\ In(queue', d, u) => In(queue, d, u)
             /\ u # t /\ In(queue, d, u) => In(queue', d, u)
             /\ Once(queue', d, u)
  BY <1>1, WithoutIn, WithoutAhead DEF QueueInv
<1>4. ASSUME NEW d \in Cores PROVE ~In(queue', d, t)
  <2>1. PICK e \in Cores : RunsOn(t, e) /\ mask[t] = {e}
    BY RunsAtHome
  <2>2. CASE d = e
    BY <1>1, <2>1, <2>2, WithoutIn DEF QueueInv
  <2>3. CASE d # e
    BY <1>3, <2>1, <2>3 DEF QueueInv
  <2> QED
    BY <2>2, <2>3
<1>5. ASSUME NEW u \in Threads, NEW d \in Cores, In(queue', d, u) PROVE mask'[u] = {d}
  BY <1>1, <1>3, <1>5 DEF QueueInv
<1>6. QueueInv'
  BY <1>1, <1>2, <1>3, <1>5 DEF QueueInv
<1>7. ASSUME NEW u \in Threads \ {t}, NEW d \in Cores,
             NEW v \in Threads \ {u}, Ahead(queue, d, u, v)
      PROVE  Ahead(queue', d, u, v)
  BY <1>1, <1>7, WithoutAhead DEF QueueInv
<1>8. ASSUME NEW u \in Threads \ {t}, NEW d \in Cores, RunsOn(u, d) PROVE RunsOn(u, d)'
  BY <1>1, <1>8, WithoutRuns DEF QueueInv, RunsOn
<1> QED
  BY <1>1, <1>3, <1>4, <1>6, <1>7, <1>8 DEF OnlyMoves

\* Main wakes behind the threads of its core.
LEMMA WakesQueue ==
  ASSUME QueueInv, MainPinned, Wakes(MainThread)
  PROVE  /\ QueueInv' /\ OnlyMoves(MainThread) /\ mask' = mask
         /\ \A d \in Cores : ~RunsOn(MainThread, d)
         /\ \A u \in Threads \ {MainThread} :
              Ahead(queue, CORE_MAIN, u, MainThread) => Ahead(queue', CORE_MAIN, u, MainThread)
<1> USE MainCore, ThreadsDiffer
<1>1. queue' = Behind(queue, MainThread, CORE_MAIN) /\ mask' = mask /\ machine' = machine
  BY DEF Wakes, Place, QueueInv
<1>2. ASSUME NEW d \in Cores PROVE ~In(queue, d, MainThread)
  BY DEF Wakes, Queued, In
<1>3. ASSUME NEW u \in Threads, NEW d \in Cores
      PROVE  In(queue', d, u) <=> In(queue, d, u) \/ (d = CORE_MAIN /\ u = MainThread)
  BY <1>1, BehindIn DEF QueueInv
<1>4. ASSUME NEW u \in Threads, NEW d \in Cores PROVE Once(queue', d, u)
  BY <1>1, <1>2, BehindOnce DEF QueueInv
<1>5. ASSUME NEW u \in Threads, NEW d \in Cores, In(queue', d, u) PROVE mask'[u] = {d}
  BY <1>1, <1>3, <1>5 DEF QueueInv
<1>6. queue' \in Queues
  BY <1>1, BehindQueue DEF QueueInv
<1>7. QueueInv'
  BY <1>1, <1>4, <1>5, <1>6 DEF QueueInv
<1>8. ASSUME NEW u \in Threads \ {MainThread}, NEW d \in Cores,
             NEW v \in Threads \ {u}, Ahead(queue, d, u, v)
      PROVE  Ahead(queue', d, u, v)
  BY <1>1, <1>8, BehindAhead DEF QueueInv
<1>9. ASSUME NEW u \in Threads \ {MainThread}, NEW d \in Cores, RunsOn(u, d)
      PROVE  RunsOn(u, d)'
  BY <1>1, <1>9, BehindRuns DEF QueueInv
<1>10. ASSUME NEW d \in Cores PROVE ~RunsOn(MainThread, d)
  BY <1>2, RunningIsFirst DEF QueueInv
<1> QED
  BY <1>1, <1>3, <1>7, <1>8, <1>9, <1>10 DEF OnlyMoves

\* A thread that pins itself goes to the end of the core's queue, or stays.
LEMMA PinQueue ==
  ASSUME QueueInv, MainPinned, NEW t \in Threads \ {MainThread}, NEW core,
         Runs(t), pin_to_core(t, core)
  PROVE  /\ QueueInv' /\ OnlyMoves(t)
         /\ core \in machine => mask'[t] = {core}
         /\ core \notin machine => mask' = mask
         /\ mask'[t] = mask[t] => queue' = queue
         /\ \E d \in Cores : In(queue', d, t)
         /\ core \in machine /\ mask[t] # {core} =>
              \A u \in Threads \ {t} : Ahead(queue', core, u, t)
<1>1. CASE core \notin machine
  <2>1. mask' = mask /\ queue' = queue /\ machine' = machine
    BY <1>1 DEF pin_to_core
  <2> QED
    BY <1>1, <2>1, RunsAtHome DEF QueueInv, OnlyMoves, RunsOn
<1>2. CASE core \in machine /\ RunsOn(t, core)
  <2>1. queue' = queue /\ machine' = machine /\ mask' = [mask EXCEPT ![t] = {core}]
    BY <1>2, MainCore DEF pin_to_core
  <2>2. core \in Cores /\ mask[t] = {core} /\ In(queue, core, t)
    BY <1>2, RunningIsFirst DEF QueueInv
  <2>3. mask' = mask
    BY <2>1, <2>2 DEF QueueInv
  <2> QED
    BY <1>2, <2>1, <2>2, <2>3 DEF QueueInv, OnlyMoves, RunsOn
<1>3. CASE core \in machine /\ ~RunsOn(t, core)
  <2> DEFINE w == WithoutRunning(t)
  <2>1. /\ queue' = Behind(w, t, core) /\ machine' = machine
        /\ mask' = [mask EXCEPT ![t] = {core}]
    BY <1>3, MainCore DEF pin_to_core
  <2>2. core \in Cores
    BY <1>3 DEF QueueInv
  <2>3. w \in Queues
    BY WithoutQueue DEF QueueInv
  <2>4. ASSUME NEW u \in Threads, NEW d \in Cores
        PROVE  /\ In(w, d, u) => In(queue, d, u)
               /\ u # t /\ In(queue, d, u) => In(w, d, u)
               /\ Once(w, d, u)
    BY WithoutIn, WithoutAhead DEF QueueInv
  <2>5. ASSUME NEW d \in Cores PROVE ~In(w, d, t)
    <3>1. PICK e \in Cores : RunsOn(t, e) /\ mask[t] = {e}
      BY RunsAtHome
    <3>2. CASE d = e
      BY <3>1, <3>2, WithoutIn DEF QueueInv
    <3>3. CASE d # e
      BY <2>4, <3>1, <3>3 DEF QueueInv
    <3> QED
      BY <3>2, <3>3
  <2> HIDE DEF w
  <2>6. ASSUME NEW u \in Threads, NEW d \in Cores
        PROVE  In(queue', d, u) <=> In(w, d, u) \/ (d = core /\ u = t)
    BY <2>1, <2>2, <2>3, BehindIn
  <2>7. ASSUME NEW u \in Threads, NEW d \in Cores PROVE Once(queue', d, u)
    BY <2>1, <2>2, <2>3, <2>4, <2>5, BehindOnce
  <2>8. /\ mask' \in [Threads -> SUBSET Cores] /\ mask'[t] = {core}
        /\ \A u \in Threads \ {t} : mask'[u] = mask[u]
    BY <2>1, <2>2 DEF QueueInv
  <2>9. ASSUME NEW u \in Threads, NEW d \in Cores, In(queue', d, u) PROVE mask'[u] = {d}
    BY <2>4, <2>5, <2>6, <2>8, <2>9 DEF QueueInv
  <2>10. queue' \in Queues
    BY <2>1, <2>2, <2>3, BehindQueue
  <2>11. QueueInv'
    BY <2>1, <2>7, <2>8, <2>9, <2>10, ThreadsDiffer DEF QueueInv
  <2>12. ASSUME NEW u \in Threads \ {t}, NEW d \in Cores,
                NEW v \in Threads \ {u}, Ahead(queue, d, u, v)
         PROVE  Ahead(queue', d, u, v)
    <3>1. Ahead(w, d, u, v)
      BY <2>12, WithoutAhead DEF w, QueueInv
    <3> QED
      BY <2>1, <2>2, <2>3, <3>1, BehindAhead
  <2>13. ASSUME NEW u \in Threads \ {t}, NEW d \in Cores, RunsOn(u, d)
         PROVE  RunsOn(u, d)'
    <3>1. w[d] = queue[d] /\ queue[d] \in Seq(Threads)
      BY <2>13, WithoutRuns DEF w, QueueInv, Queues
    <3>2. queue'[d] = IF d = core THEN Append(queue[d], t) ELSE queue[d]
      BY <2>1, <2>2, <2>3, <3>1 DEF Behind, Queues
    <3>3. Append(queue[d], t) # <<>> /\ Head(Append(queue[d], t)) = Head(queue[d])
      BY <2>13, <3>1, AppendProperties, HeadTailAppend DEF RunsOn
    <3> QED
      BY <2>13, <3>2, <3>3 DEF RunsOn
  <2>14. ASSUME NEW u \in Threads \ {t} PROVE Ahead(queue', core, u, t)
    <3>1. Ahead(w, core, u, t)
      BY <2>2, <2>5 DEF Ahead, In
    <3> QED
      BY <2>1, <2>2, <2>3, <3>1, BehindAhead
  <2>15. mask'[t] # mask[t]
    BY <1>3, <2>8, RunsAtHome
  <2> QED
    BY <1>3, <2>2, <2>4, <2>6, <2>8, <2>11, <2>12, <2>13, <2>14, <2>15 DEF OnlyMoves
<1> QED
  BY <1>1, <1>2, <1>3

-------------------------------------------------------------------------------
(***************************************************************************)
(* The steps.                                                              *)
(***************************************************************************)

\* A step that changes neither threads nor arm nor queues keeps what is said of them.
LEMMA ThreadsSame ==
  ASSUME CoreInv, UNCHANGED <<sched, core_a, core_b, threads, arm>>,
         main' \in {"stress", "spawn", "join"} =>
           \A s \in Stressors : sthread[s] \in Stressing =>
             \E d \in Cores : In(queue, d, SThread(s)),
         main' = "spawn" /\ WithStress(arm) => main = "spawn",
         main' = "join" => main = "join" \/ \A c \in Channels : mthread[c] # "barrier"
  PROVE  QueueInv' /\ GoneInv' /\ MaskInv' /\ StandInv' /\ ApartInv'
<1> USE DEF sched, threads
<1>1. QueueInv'
  BY DEF CoreInv, QueueInv
<1>2. GoneInv'
  BY DEF CoreInv, GoneInv
<1>3. \A c \in Channels : MeasurementCore(c)' = MeasurementCore(c)
  BY DEF MeasurementCore
<1>4. MaskInv'
  BY <1>3 DEF CoreInv, MaskInv, Home
<1>5. StandInv'
  BY DEF CoreInv, StandInv
<1>6. ApartInv'
  BY <1>3 DEF CoreInv, ApartInv
<1> QED
  BY <1>1, <1>2, <1>4, <1>5, <1>6

\* Main going on with its loops.
LEMMA MainSameStep ==
  ASSUME IInv, CoreInv, UNCHANGED <<sched, core_a, core_b>>,
         AllocateSamples \/ StartStress \/ SpawnThrows \/ Signal \/ StopStress
           \/ StressJoinedAll \/ ProcessAndWrite \/ FreeSamples \/ ReturnAndReset
  PROVE  CoreInv'
<1> USE DEF sched, threads, CoreInv, InLoop, LoopEnds
<1>1. CASE AllocateSamples
  <2>1. UNCHANGED <<threads, arm, main, m_measure_signal>> /\ main = "allocate"
    BY <1>1 DEF AllocateSamples
  <2>2. SetupInv'
    BY <2>1 DEF SetupInv
  <2> QED
    BY <2>1, <2>2, ThreadsSame
<1>2. CASE StartStress
  <2>1. /\ UNCHANGED <<threads, arm, m_measure_signal>> /\ main = "allocate"
        /\ main' = IF WithStress(arm) THEN "stress" ELSE "spawn"
        /\ i' = 0
    BY <1>2 DEF StartStress
  <2>2. SetupInv'
    BY <2>1 DEF SetupInv
  <2>3. \A s \in Stressors : sthread[s] = "absent"
    BY <2>1 DEF IInv, StressInv
  <2> QED
    BY <2>1, <2>2, <2>3, ThreadsSame DEF Stressing
<1>3. CASE SpawnThrows
  <2>1. UNCHANGED <<threads, arm, m_measure_signal>> /\ main' = "threw"
    BY <1>3 DEF SpawnThrows
  <2>2. SetupInv'
    BY <2>1 DEF SetupInv
  <2> QED
    BY <2>1, <2>2, ThreadsSame
<1>4. CASE Signal
  <2>1. UNCHANGED <<threads, arm>> /\ m_measure_signal' /\ main = "spawn" /\ main' = "join"
    BY <1>4 DEF Signal
  <2>2. SetupInv'
    BY <2>1 DEF SetupInv
  <2>3. \A c \in Channels : mthread[c] # "barrier"
    BY <2>1 DEF SetupInv, IInv, FlagInv
  <2> QED
    BY <2>1, <2>2, <2>3, ThreadsSame DEF StandInv
<1>5. CASE StopStress
  <2>1. /\ UNCHANGED <<threads, arm, m_measure_signal>> /\ main = "join"
        /\ main' \in {"unstress", "process"}
    BY <1>5 DEF StopStress
  <2>2. SetupInv'
    BY <2>1 DEF SetupInv
  <2> QED
    BY <2>1, <2>2, ThreadsSame
<1>6. CASE StressJoinedAll
  <2>1. /\ UNCHANGED <<threads, arm, m_measure_signal>> /\ main = "unstress"
        /\ main' = "process"
    BY <1>6 DEF StressJoinedAll
  <2>2. SetupInv'
    BY <2>1 DEF SetupInv
  <2> QED
    BY <2>1, <2>2, ThreadsSame
<1>7. CASE ProcessAndWrite \/ FreeSamples
  <2>1. /\ UNCHANGED <<threads, arm, m_measure_signal>> /\ main \in {"process", "free"}
        /\ main' \in {"crashed", "free", "return"}
    BY <1>7 DEF ProcessAndWrite, FreeSamples
  <2>2. SetupInv'
    BY <2>1 DEF SetupInv
  <2> QED
    BY <2>1, <2>2, ThreadsSame
<1>8. CASE ReturnAndReset
  <2>1. /\ UNCHANGED <<threads, arm>> /\ main = "return"
        /\ main' \in {"terminated", "choose"}
    BY <1>8 DEF ReturnAndReset
  <2>2. \A c \in Channels : mthread[c] # "barrier"
    BY <2>1, ArmSizeBound DEF IInv, MeasureInv, Channels
  <2>3. SetupInv'
    BY <2>1, <2>2 DEF SetupInv
  <2> QED
    BY <2>1, <2>3, ThreadsSame
<1> QED
  BY <1>1, <1>2, <1>3, <1>4, <1>5, <1>6, <1>7, <1>8

\* Main beginning an arm, and joining.
LEMMA MainRestStep ==
  ASSUME IInv, CoreInv, UNCHANGED <<sched, core_a, core_b>>,
         ChooseArm \/ Join \/ JoinStress
  PROVE  CoreInv'
<1> USE DEF sched
<1>1. QueueInv' /\ machine' = machine
  BY DEF CoreInv, QueueInv
<1>2. \A c \in Channels : MeasurementCore(c)' = MeasurementCore(c)
  BY DEF MeasurementCore
<1>3. CASE ChooseArm
  <2>1. /\ main = "choose" /\ main' \in {"allocate", "finished"}
        /\ \A c \in Channels : mthread'[c] = "absent"
        /\ \A s \in Stressors : sthread'[s] = "absent"
        /\ m_measure_signal' = m_measure_signal
    BY <1>3 DEF ChooseArm
  <2>2. GoneInv'
    BY <2>1 DEF CoreInv, GoneInv, IInv, MeasureInv, StressInv
  <2>3. MaskInv' /\ SetupInv' /\ StandInv' /\ ApartInv'
    BY <2>1 DEF MaskInv, SetupInv, StandInv, ApartInv
  <2> QED
    BY <1>1, <2>2, <2>3 DEF CoreInv
<1>4. CASE Join
  <2>1. /\ main = "join" /\ main' = "join" /\ UNCHANGED <<arm, sthread, m_measure_signal>>
        /\ i \in Channels /\ mthread[i] = "done"
        /\ \A c \in Channels : mthread'[c] = IF c = i THEN "joined" ELSE mthread[c]
    BY <1>4, ArmSizeBound DEF Join, InLoop, group, IInv, TypeOK, CounterInv, Channels
  <2>2. GoneInv'
    BY <2>1 DEF CoreInv, GoneInv
  <2>3. MaskInv' /\ SetupInv'
    BY <1>1, <1>2, <2>1 DEF CoreInv, MaskInv, SetupInv, Home
  <2>4. StandInv' /\ ApartInv'
    BY <1>1, <1>2, <2>1 DEF CoreInv, StandInv, ApartInv
  <2> QED
    BY <1>1, <2>2, <2>3, <2>4 DEF CoreInv
<1>5. CASE JoinStress
  <2>1. /\ main = "unstress" /\ main' = "unstress" /\ UNCHANGED <<arm, mthread, m_measure_signal>>
        /\ \E r \in Stressors : sthread[r] = "done"
             /\ \A s \in Stressors : sthread'[s] = IF s = r THEN "joined" ELSE sthread[s]
    <3>1. i \in Stressors
      BY <1>5, BenchAssumption DEF JoinStress, InLoop, StressJoined, IInv, TypeOK, Stressors,
         BenchAssumption
    <3> QED
      BY <1>5, <3>1 DEF JoinStress, InLoop, group, IInv, TypeOK
  <2>2. GoneInv'
    BY <2>1 DEF CoreInv, GoneInv
  <2>3. MaskInv' /\ SetupInv'
    BY <1>1, <1>2, <2>1 DEF CoreInv, MaskInv, SetupInv, Home
  <2>4. StandInv' /\ ApartInv'
    BY <1>1, <1>2, <2>1 DEF CoreInv, StandInv, ApartInv
  <2> QED
    BY <1>1, <2>2, <2>3, <2>4 DEF CoreInv
<1> QED
  BY <1>3, <1>4, <1>5

\* A stress thread is created.
LEMMA SpawnStressQueues ==
  ASSUME IInv, CoreInv, MainPinned, UNCHANGED <<core_a, core_b>>,
         SpawnStress, Creates(MainThread, SThread(i))
  PROVE  CoreInv'
<1>1. /\ main = "stress" /\ main' = "stress" /\ UNCHANGED <<arm, mthread, m_measure_signal>>
      /\ i \in Stressors /\ sthread' = [sthread EXCEPT ![i] = "pinning"]
  BY BenchAssumption DEF SpawnStress, InLoop, IInv, TypeOK, Stressors, BenchAssumption
<1>2. sthread[i] = "absent" /\ \A c \in Channels : mthread[c] = "absent"
  BY <1>1 DEF IInv, StressInv, MeasureInv, TypeOK, Stressors
<1>3. \A s \in Stressors : sthread'[s] = IF s = i THEN "pinning" ELSE sthread[s]
  BY <1>1 DEF IInv, TypeOK
<1>4. /\ QueueInv' /\ OnlyMoves(SThread(i)) /\ mask'[SThread(i)] = {CORE_MAIN}
      /\ In(queue', CORE_MAIN, SThread(i)) /\ machine' = machine
  <2>1. SThread(i) \in Threads \ {MainThread} /\ \A d \in Cores : ~In(queue, d, SThread(i))
    BY <1>1, <1>2, ThreadsDiffer DEF CoreInv, GoneInv
  <2>2. machine' = machine
    BY DEF Creates
  <2> QED
    BY <2>1, <2>2, CreatesQueue DEF CoreInv
<1>5. /\ \A c \in Channels : MThread(c) \in Threads \ {SThread(i)}
      /\ \A s \in Stressors : s # i => SThread(s) \in Threads \ {SThread(i)}
  BY <1>1, ThreadsDiffer
<1>6. GoneInv'
  BY <1>1, <1>3, <1>4, <1>5 DEF CoreInv, GoneInv, OnlyMoves
<1>7. MaskInv' /\ SetupInv' /\ ApartInv'
  BY <1>1, <1>2, <1>3, <1>4, <1>5, MainCore
  DEF CoreInv, MaskInv, SetupInv, ApartInv, OnlyMoves, Home, QueueInv
<1>8. StandInv'
  BY <1>1, <1>2, <1>3, <1>4, <1>5, MainCore DEF CoreInv, StandInv, OnlyMoves
<1> QED
  BY <1>4, <1>6, <1>7, <1>8 DEF CoreInv

\* A measurement thread is created, by a main that runs: the stress threads,
\* which stood before it, have gone to cores of their own.
LEMMA SpawnMeasurementQueues ==
  ASSUME IInv, CoreInv, MainPinned, UNCHANGED <<core_a, core_b>>, Runs(MainThread),
         SpawnMeasurement, Creates(MainThread, MThread(i))
  PROVE  CoreInv'
<1>1. /\ main = "spawn" /\ main' = "spawn" /\ UNCHANGED <<arm, sthread, m_measure_signal>>
      /\ i \in Channels /\ mthread' = [mthread EXCEPT ![i] = "pinning"]
  BY ArmSizeBound DEF SpawnMeasurement, InLoop, IInv, TypeOK, Channels
<1>2. mthread[i] = "absent"
  BY <1>1 DEF IInv, MeasureInv, TypeOK, Channels
<1>3. \A c \in Channels : mthread'[c] = IF c = i THEN "pinning" ELSE mthread[c]
  BY <1>1 DEF IInv, TypeOK
<1>4. /\ QueueInv' /\ OnlyMoves(MThread(i)) /\ mask'[MThread(i)] = {CORE_MAIN}
      /\ machine' = machine
  <2>1. MThread(i) \in Threads \ {MainThread} /\ \A d \in Cores : ~In(queue, d, MThread(i))
    BY <1>1, <1>2, ThreadsDiffer DEF CoreInv, GoneInv
  <2>2. machine' = machine
    BY DEF Creates
  <2> QED
    BY <2>1, <2>2, CreatesQueue DEF CoreInv
<1>5. /\ \A c \in Channels : c # i => MThread(c) \in Threads \ {MThread(i)}
      /\ \A s \in Stressors : SThread(s) \in Threads \ {MThread(i), MainThread}
      /\ MainThread \in Threads \ {MThread(i)}
  BY <1>1, ThreadsDiffer
<1>6. RunsOn(MainThread, CORE_MAIN)
  BY RunsAtHome, ThreadsDiffer DEF CoreInv, QueueInv
<1>7. ASSUME NEW s \in Stressors
      PROVE  /\ sthread[s] # "pinning"
             /\ WithStress(arm) => StressCore(s) \in machine \ {CORE_MAIN}
  <2>1. CASE ~WithStress(arm)
    BY <1>1, <2>1 DEF IInv, StressInv
  <2>2. CASE WithStress(arm)
    <3>1. sthread[s] \in Stressing
      BY <1>1, <2>2 DEF IInv, StressInv
    <3>2. PICK d \in Cores : In(queue, d, SThread(s))
      BY <1>1, <3>1 DEF CoreInv, StandInv
    <3>3. ~In(queue, CORE_MAIN, SThread(s))
      BY <1>1, <1>6, <2>2, MainCore, RunningIsFirst, ThreadsDiffer DEF CoreInv, StandInv, QueueInv
    <3>4. mask[SThread(s)] = {d} /\ d # CORE_MAIN
      BY <1>5, <3>2, <3>3 DEF CoreInv, QueueInv
    <3>5. sthread[s] \in {"waiting", "stressing"} /\ Home(s) = d
      BY <3>1, <3>4 DEF CoreInv, MaskInv, Stressing
    <3> QED
      BY <3>4, <3>5 DEF Home
  <2> QED
    BY <2>1, <2>2
<1>8. GoneInv' /\ MaskInv'
  <2>1. \A c \in Channels : MeasurementCore(c)' = MeasurementCore(c)
    BY DEF MeasurementCore
  <2>2. GoneInv'
    BY <1>1, <1>3, <1>4, <1>5 DEF CoreInv, GoneInv, OnlyMoves
  <2>3. MaskInv'
    BY <1>1, <1>3, <1>4, <1>5, <2>1, MainCore DEF CoreInv, MaskInv, OnlyMoves, Home
  <2> QED
    BY <2>2, <2>3
<1>9. SetupInv'
  BY <1>1, <1>3, <1>4, <1>5, <1>6, MainCore DEF CoreInv, SetupInv, OnlyMoves
<1>10. StandInv'
  BY <1>1, <1>3, <1>4, <1>5, <1>7, MainCore DEF CoreInv, StandInv, OnlyMoves
<1>11. ApartInv'
  BY <1>1, <1>3 DEF CoreInv, ApartInv, MeasurementCore
<1> QED
  BY <1>4, <1>8, <1>9, <1>10, <1>11 DEF CoreInv

\* A step of main alone that leaves threads and arm as they are.
LEMMA MainMoves ==
  ASSUME CoreInv, QueueInv', OnlyMoves(MainThread),
         UNCHANGED <<mask, machine, core_a, core_b, arm, threads>>,
         main' \in {"stress", "spawn", "join"} => main \in {"stress", "spawn", "join"},
         main' = "join" => main = "join",
         main' = "spawn" /\ WithStress(arm) => \A s \in Stressors :
           Ahead(queue', CORE_MAIN, SThread(s), MainThread),
         SetupInv'
  PROVE  CoreInv'
<1> USE DEF threads
<1>1. /\ \A c \in Channels : MThread(c) \in Threads \ {MainThread}
      /\ \A s \in Stressors : SThread(s) \in Threads \ {MainThread}
      /\ \A c \in Channels, s \in Stressors : MThread(c) # SThread(s)
  BY ThreadsDiffer
<1>2. \A c \in Channels : MeasurementCore(c)' = MeasurementCore(c)
  BY DEF MeasurementCore
<1>3. GoneInv' /\ MaskInv'
  BY <1>1, <1>2 DEF CoreInv, GoneInv, MaskInv, OnlyMoves, Home
<1>4. StandInv'
  BY <1>1 DEF CoreInv, StandInv, OnlyMoves
<1>5. ApartInv'
  <2> SUFFICES ASSUME WithStress(arm), NEW c \in Channels, NEW s \in Stressors,
                      MeasurementCore(c) = StressCore(s)
               PROVE  /\ mthread[c] \notin {"warmup", "sampling", "done", "joined"}
                      /\ main' = "join" /\ mthread[c] = "barrier" =>
                           Ahead(queue', StressCore(s), SThread(s), MThread(c))
    BY <1>2 DEF ApartInv
  <2>1. mthread[c] # "absent" => StressCore(s) \in Cores
    BY DEF CoreInv, StandInv, QueueInv
  <2> QED
    BY <1>1, <2>1 DEF CoreInv, ApartInv, OnlyMoves
<1> QED
  BY <1>3, <1>4, <1>5 DEF CoreInv

\* Main goes to sleep, waits and wakes.
LEMMA MainSleepStep ==
  ASSUME IInv, CoreInv, MainPinned,
         \/ GoStress /\ Runs(MainThread) /\ Rest /\ UNCHANGED <<core_a, core_b>>
         \/ MainBlocks
         \/ MainWakes
  PROVE  CoreInv'
<1> USE MainCore, ThreadsDiffer DEF CoreInv
<1>1. CASE GoStress /\ Runs(MainThread) /\ Rest /\ UNCHANGED <<core_a, core_b>>
  <2>1. /\ main = "stress" /\ main' = "spawn" /\ i' = 0
        /\ UNCHANGED <<arm, threads, m_measure_signal>>
    BY <1>1 DEF GoStress, LoopEnds
  <2>2. /\ QueueInv' /\ OnlyMoves(MainThread) /\ UNCHANGED <<mask, machine>>
        /\ \A d \in Cores : ~In(queue', d, MainThread)
    BY <1>1, LeavesQueue DEF Rest, Leaves
  <2>3. SetupInv'
    BY <2>1 DEF SetupInv, threads
  <2>4. \A s \in Stressors : Ahead(queue', CORE_MAIN, SThread(s), MainThread)
    BY <2>2 DEF Ahead, In
  <2> QED
    BY <1>1, <2>1, <2>2, <2>3, <2>4, MainMoves
<1>2. CASE MainBlocks
  <2>1. main \in {"join", "unstress"} /\ UNCHANGED <<main, arm, threads, m_measure_signal>>
    BY <1>2 DEF MainBlocks, Waiting, vars
  <2>2. QueueInv' /\ OnlyMoves(MainThread) /\ UNCHANGED <<mask, machine, core_a, core_b>>
    BY <1>2, LeavesQueue DEF MainBlocks, Leaves
  <2>3. SetupInv'
    BY <2>1 DEF SetupInv, threads
  <2> QED
    BY <2>1, <2>2, <2>3, MainMoves
<1>3. CASE MainWakes
  <2>1. UNCHANGED <<main, i, arm, threads, m_measure_signal>>
    BY <1>3 DEF MainWakes, vars
  <2>2. /\ QueueInv' /\ OnlyMoves(MainThread) /\ UNCHANGED <<mask, machine, core_a, core_b>>
        /\ ~RunsOn(MainThread, CORE_MAIN)
        /\ \A u \in Threads \ {MainThread} : Ahead(queue, CORE_MAIN, u, MainThread) =>
             Ahead(queue', CORE_MAIN, u, MainThread)
    BY <1>3, WakesQueue DEF MainWakes, Wakes
  <2>3. SetupInv'
    BY <2>1, <2>2 DEF SetupInv, threads
  <2>4. main' = "spawn" /\ WithStress(arm) => \A s \in Stressors :
          Ahead(queue', CORE_MAIN, SThread(s), MainThread)
    BY <2>1, <2>2 DEF StandInv
  <2> QED
    BY <2>1, <2>2, <2>3, <2>4, MainMoves
<1> QED
  BY <1>1, <1>2, <1>3

\* A measurement thread pins itself: main has blocked, so the signal is given; on
\* a stress thread's core it comes too late.
LEMMA PinMeasurementQueues ==
  ASSUME IInv, CoreInv, MainPinned, UNCHANGED <<core_a, core_b>>, NEW c \in Channels,
         Runs(MThread(c)), PinMeasurement(c), pin_to_core(MThread(c), MeasurementCore(c))
  PROVE  CoreInv'
<1>1. /\ mthread[c] = "pinning" /\ UNCHANGED <<main, i, arm, sthread, m_measure_signal>>
      /\ \A e \in Channels : mthread'[e] = IF e = c THEN "barrier" ELSE mthread[e]
  BY DEF PinMeasurement, MStep, IInv, TypeOK
<1>2. /\ MThread(c) \in Threads \ {MainThread}
      /\ \A e \in Channels : e # c => MThread(e) \in Threads \ {MThread(c)}
      /\ \A s \in Stressors : SThread(s) \in Threads \ {MThread(c), MainThread}
      /\ \A e \in Channels, s \in Stressors : SThread(s) # MThread(e)
      /\ MainThread \in Threads \ {MThread(c)}
  BY ThreadsDiffer
<1>3. \A e \in Channels : MeasurementCore(e)' = MeasurementCore(e)
  BY DEF MeasurementCore
<1>4. /\ QueueInv' /\ OnlyMoves(MThread(c)) /\ machine' = machine
      /\ MeasurementCore(c) \in machine => mask'[MThread(c)] = {MeasurementCore(c)}
      /\ MeasurementCore(c) \in machine /\ mask[MThread(c)] # {MeasurementCore(c)} =>
           \A u \in Threads \ {MThread(c)} : Ahead(queue', MeasurementCore(c), u, MThread(c))
  <2>1. machine' = machine
    BY DEF pin_to_core
  <2> QED
    BY <1>2, <2>1, PinQueue DEF CoreInv
<1>5. main = "join"
  <2>1. main \notin Dead
    BY DEF PinMeasurement, MStep
  <2>2. main \in {"spawn", "join"}
    BY <1>1, <2>1, ArmSizeBound DEF IInv, TypeOK, MeasureInv, Channels
  <2>3. ASSUME main = "spawn" PROVE FALSE
    <3>1. i > 0
      BY <1>1, <2>3, ArmSizeBound DEF IInv, TypeOK, MeasureInv, Channels
    <3>2. RunsOn(MainThread, CORE_MAIN)
      BY <2>3, <3>1 DEF CoreInv, SetupInv
    <3>3. RunsOn(MThread(c), CORE_MAIN)
      BY <1>1, <1>2, RunsAtHome, MainCore DEF CoreInv, MaskInv
    <3> QED
      BY <1>2, <3>2, <3>3 DEF RunsOn
  <2> QED
    BY <2>2, <2>3
<1>6. GoneInv'
  BY <1>1, <1>2, <1>4 DEF CoreInv, GoneInv, OnlyMoves
<1>7. MaskInv'
  BY <1>1, <1>2, <1>3, <1>4, MainCore DEF CoreInv, MaskInv, OnlyMoves, Home
<1>8. SetupInv'
  BY <1>1, <1>5 DEF CoreInv, SetupInv
<1>9. StandInv'
  BY <1>1, <1>2, <1>4, <1>5 DEF CoreInv, StandInv, OnlyMoves
<1>10. ApartInv'
  <2> SUFFICES ASSUME WithStress(arm), NEW e \in Channels, NEW s \in Stressors,
                      MeasurementCore(e) = StressCore(s)
               PROVE  /\ mthread'[e] \notin {"warmup", "sampling", "done", "joined"}
                      /\ mthread'[e] = "barrier" =>
                           Ahead(queue', StressCore(s), SThread(s), MThread(e))
    BY <1>1, <1>3 DEF ApartInv
  <2>1. StressCore(s) \in machine \ {CORE_MAIN} /\ StressCore(s) \in Cores
    BY <1>1 DEF CoreInv, StandInv, QueueInv
  <2>2. CASE e = c
    <3>1. mask[MThread(c)] # {MeasurementCore(c)}
      BY <1>1, <2>1, <2>2 DEF CoreInv, MaskInv
    <3> QED
      BY <1>1, <1>2, <1>4, <2>1, <2>2, <3>1
  <2>3. CASE e # c
    BY <1>1, <1>2, <1>4, <1>5, <2>1, <2>3 DEF CoreInv, ApartInv, OnlyMoves
  <2> QED
    BY <2>2, <2>3
<1> QED
  BY <1>4, <1>6, <1>7, <1>8, <1>9, <1>10 DEF CoreInv

\* A thread that gets past the barrier has no stress thread on its core.
LEMMA PassBarrierQueues ==
  ASSUME IInv, CoreInv, MainPinned, UNCHANGED <<sched, core_a, core_b>>, NEW c \in Channels,
         Runs(MThread(c)), PassBarrier(c)
  PROVE  CoreInv'
<1> USE DEF sched
<1>1. /\ mthread[c] = "barrier" /\ m_measure_signal
      /\ UNCHANGED <<main, i, arm, sthread, m_measure_signal>>
      /\ \A e \in Channels : mthread'[e] = IF e = c THEN "warmup" ELSE mthread[e]
  BY DEF PassBarrier, MStep, IInv, TypeOK
<1>2. \A e \in Channels : MeasurementCore(e)' = MeasurementCore(e)
  BY DEF MeasurementCore
<1>3. main = "join"
  <2>1. main \notin Dead
    BY DEF PassBarrier, MStep
  <2> QED
    BY <1>1, <2>1, ArmSizeBound DEF IInv, TypeOK, MeasureInv, FlagInv, Channels
<1>4. ASSUME WithStress(arm), NEW s \in Stressors, MeasurementCore(c) = StressCore(s)
      PROVE  FALSE
  <2>1. StressCore(s) \in machine /\ sthread[s] # "pinning"
    BY <1>1, <1>4 DEF CoreInv, StandInv
  <2>2. StressCore(s) \in Cores /\ MThread(c) \in Threads /\ SThread(s) \in Threads
    BY <2>1, ThreadsDiffer DEF CoreInv, QueueInv
  <2>3. RunsOn(MThread(c), StressCore(s))
    BY <1>1, <1>4, <2>1, <2>2, RunsAtHome DEF CoreInv, MaskInv
  <2>4. ~In(queue, StressCore(s), SThread(s))
    BY <1>1, <1>3, <1>4, <2>2, <2>3, RunningIsFirst DEF CoreInv, ApartInv, QueueInv
  <2>5. sthread[s] \in Stressing
    BY <1>3, <1>4 DEF IInv, StressInv
  <2>6. PICK d \in Cores : In(queue, d, SThread(s))
    BY <1>3, <2>5 DEF CoreInv, StandInv
  <2>7. mask[SThread(s)] = {d} /\ mask[SThread(s)] = {StressCore(s)}
    BY <2>1, <2>2, <2>5, <2>6 DEF CoreInv, QueueInv, MaskInv, Home, Stressing
  <2> QED
    BY <2>4, <2>6, <2>7
<1>5. QueueInv' /\ GoneInv' /\ MaskInv'
  BY <1>1, <1>2 DEF CoreInv, QueueInv, GoneInv, MaskInv, Home
<1>6. SetupInv' /\ StandInv'
  BY <1>1 DEF CoreInv, SetupInv, StandInv, RunsOn
<1>7. ApartInv'
  BY <1>1, <1>2, <1>4 DEF CoreInv, ApartInv
<1> QED
  BY <1>5, <1>6, <1>7 DEF CoreInv

\* It warms up, samples and ends.
LEMMA MeasuresQueues ==
  ASSUME IInv, CoreInv, MainPinned, UNCHANGED <<core_a, core_b>>, NEW c \in Channels,
         Runs(MThread(c)),
         \/ (Warmup(c) \/ Sample(c)) /\ UNCHANGED sched
         \/ EndMeasurement(c) /\ Leaves(MThread(c))
  PROVE  CoreInv'
<1>1. /\ mthread[c] \in {"warmup", "sampling"} /\ UNCHANGED <<i, arm, sthread, m_measure_signal>>
      /\ main' \in {main, "crashed"}
      /\ \A e \in Channels : e # c => mthread'[e] = mthread[e]
      /\ mthread'[c] \in {"sampling", "done"}
  BY DEF Warmup, Sample, EndMeasurement, MStep, IInv, TypeOK
<1>2. \A e \in Channels : MeasurementCore(e)' = MeasurementCore(e)
  BY DEF MeasurementCore
<1>3. /\ MThread(c) \in Threads
      /\ \A e \in Channels : e # c => MThread(e) \in Threads \ {MThread(c)}
      /\ \A s \in Stressors : SThread(s) \in Threads \ {MThread(c), MainThread}
      /\ \A e \in Channels, s \in Stressors : SThread(s) # MThread(e)
      /\ MainThread \in Threads \ {MThread(c)}
  BY ThreadsDiffer
<1>4. /\ QueueInv' /\ OnlyMoves(MThread(c)) /\ mask' = mask /\ machine' = machine
      /\ mthread'[c] = "done" => \A d \in Cores : ~In(queue', d, MThread(c))
  <2>1. CASE (Warmup(c) \/ Sample(c)) /\ UNCHANGED sched
    <3>1. mthread'[c] # "done"
      BY <2>1 DEF Warmup, Sample, MStep, IInv, TypeOK
    <3>2. QueueInv' /\ OnlyMoves(MThread(c))
      BY <2>1 DEF sched, CoreInv, QueueInv, OnlyMoves, RunsOn
    <3> QED
      BY <2>1, <3>1, <3>2 DEF sched
  <2>2. CASE EndMeasurement(c) /\ Leaves(MThread(c))
    BY <1>3, <2>2, LeavesQueue DEF CoreInv, Leaves
  <2> QED
    BY <2>1, <2>2
<1>5. GoneInv' /\ MaskInv'
  BY <1>1, <1>2, <1>3, <1>4 DEF CoreInv, GoneInv, MaskInv, OnlyMoves, Home
<1>6. SetupInv' /\ StandInv'
  BY <1>1, <1>3, <1>4, MainCore DEF CoreInv, SetupInv, StandInv, OnlyMoves
<1>7. ApartInv'
  <2> SUFFICES ASSUME WithStress(arm), NEW e \in Channels, NEW s \in Stressors,
                      MeasurementCore(e) = StressCore(s)
               PROVE  /\ mthread'[e] \notin {"warmup", "sampling", "done", "joined"}
                      /\ main' = "join" /\ mthread'[e] = "barrier" =>
                           Ahead(queue', StressCore(s), SThread(s), MThread(e))
    BY <1>1, <1>2 DEF ApartInv
  <2>1. e # c
    BY <1>1 DEF CoreInv, ApartInv
  <2>2. StressCore(s) \in Cores
    BY <1>1 DEF CoreInv, StandInv, QueueInv
  <2> QED
    BY <1>1, <1>3, <1>4, <2>1, <2>2 DEF CoreInv, ApartInv, OnlyMoves
<1> QED
  BY <1>4, <1>5, <1>6, <1>7 DEF CoreInv

\* A stress thread goes to its core, or stays before main.
LEMMA PinStressQueues ==
  ASSUME IInv, CoreInv, MainPinned, UNCHANGED <<core_a, core_b>>, NEW s \in Stressors,
         Runs(SThread(s)), PinStress(s), pin_to_core(SThread(s), StressCore(s))
  PROVE  CoreInv'
<1>1. /\ sthread[s] = "pinning" /\ UNCHANGED <<main, i, arm, mthread, m_measure_signal>>
      /\ \A r \in Stressors : sthread'[r] = IF r = s THEN "waiting" ELSE sthread[r]
  BY DEF PinStress, SStep, IInv, TypeOK
<1>2. /\ SThread(s) \in Threads \ {MainThread} /\ MainThread \in Threads \ {SThread(s)}
      /\ \A r \in Stressors : r # s => SThread(r) \in Threads \ {SThread(s), MainThread}
      /\ \A c \in Channels : MThread(c) \in Threads \ {SThread(s)}
  BY ThreadsDiffer
<1>3. \A c \in Channels : MeasurementCore(c)' = MeasurementCore(c)
  BY DEF MeasurementCore
<1>4. /\ QueueInv' /\ OnlyMoves(SThread(s)) /\ machine' = machine
      /\ StressCore(s) \in machine => mask'[SThread(s)] = {StressCore(s)}
      /\ StressCore(s) \notin machine => mask' = mask
      /\ mask'[SThread(s)] = mask[SThread(s)] => queue' = queue
      /\ \E d \in Cores : In(queue', d, SThread(s))
  <2>1. machine' = machine
    BY DEF pin_to_core
  <2> QED
    BY <1>2, <2>1, PinQueue DEF CoreInv
<1>5. GoneInv'
  BY <1>1, <1>2, <1>4 DEF CoreInv, GoneInv, OnlyMoves
<1>6. MaskInv'
  BY <1>1, <1>2, <1>3, <1>4, MainCore DEF CoreInv, MaskInv, OnlyMoves, Home
<1>7. SetupInv'
  BY <1>1, <1>2, <1>4, MainCore DEF CoreInv, SetupInv, OnlyMoves
<1>8. ASSUME main = "spawn", WithStress(arm), NEW r \in Stressors
      PROVE  Ahead(queue', CORE_MAIN, SThread(r), MainThread)
  <2>1. Ahead(queue, CORE_MAIN, SThread(r), MainThread)
    BY <1>8 DEF CoreInv, StandInv
  <2>2. CASE r # s
    BY <1>2, <1>4, <2>1, <2>2, MainCore DEF OnlyMoves, CoreInv
  <2>3. CASE r = s /\ mask'[SThread(s)] = mask[SThread(s)]
    BY <1>4, <2>1, <2>3
  <2>4. CASE r = s /\ mask'[SThread(s)] # mask[SThread(s)]
    <3>1. mask'[SThread(s)] = {StressCore(s)} /\ StressCore(s) # CORE_MAIN
      BY <1>1, <1>4, <2>4 DEF CoreInv, MaskInv
    <3>2. ~In(queue', CORE_MAIN, SThread(s))
      BY <1>2, <1>4, <3>1, MainCore DEF QueueInv, CoreInv
    <3> QED
      BY <2>4, <3>2 DEF Ahead, In
  <2> QED
    BY <2>2, <2>3, <2>4
<1>9. StandInv'
  BY <1>1, <1>2, <1>4, <1>8 DEF CoreInv, StandInv, OnlyMoves, Stressing
<1>10. \A c \in Channels : mthread[c] = "absent"
  BY <1>1 DEF CoreInv, StandInv
<1>11. ApartInv'
  BY <1>1, <1>10 DEF ApartInv
<1> QED
  BY <1>4, <1>5, <1>6, <1>7, <1>9, <1>11 DEF CoreInv

\* It begins to work, and ends when main has left the joins of the measurement.
LEMMA StressQueues ==
  ASSUME IInv, CoreInv, MainPinned, UNCHANGED <<core_a, core_b>>, NEW s \in Stressors,
         Runs(SThread(s)),
         \/ BeginStress(s) /\ UNCHANGED sched
         \/ EndStress(s) /\ Leaves(SThread(s))
  PROVE  CoreInv'
<1>1. \A c \in Channels : MeasurementCore(c)' = MeasurementCore(c)
  BY DEF MeasurementCore
<1>2. CASE BeginStress(s) /\ UNCHANGED sched
  <2> USE DEF sched
  <2>1. /\ sthread[s] = "waiting" /\ UNCHANGED <<main, i, arm, mthread, m_measure_signal>>
        /\ \A r \in Stressors : sthread'[r] = IF r = s THEN "stressing" ELSE sthread[r]
    BY <1>2 DEF BeginStress, SStep, IInv, TypeOK
  <2>2. QueueInv' /\ GoneInv' /\ MaskInv' /\ SetupInv'
    BY <1>1, <1>2, <2>1
    DEF CoreInv, QueueInv, GoneInv, MaskInv, SetupInv, Home, RunsOn
  <2>3. StandInv' /\ ApartInv'
    BY <1>1, <1>2, <2>1 DEF CoreInv, StandInv, ApartInv, Stressing
  <2> QED
    BY <2>2, <2>3 DEF CoreInv
<1>3. CASE EndStress(s) /\ Leaves(SThread(s))
  <2>1. /\ sthread[s] = "stressing" /\ UNCHANGED <<main, i, arm, mthread, m_measure_signal>>
        /\ \A r \in Stressors : sthread'[r] = IF r = s THEN "done" ELSE sthread[r]
        /\ main \notin {"stress", "spawn", "join"}
    BY <1>3 DEF EndStress, SStep, IInv, TypeOK, FlagInv
  <2>2. /\ \A r \in Stressors : r # s => SThread(r) \in Threads \ {SThread(s)}
        /\ \A c \in Channels : MThread(c) \in Threads \ {SThread(s)}
        /\ SThread(s) \in Threads
    BY ThreadsDiffer
  <2>3. /\ QueueInv' /\ OnlyMoves(SThread(s)) /\ mask' = mask /\ machine' = machine
        /\ \A d \in Cores : ~In(queue', d, SThread(s))
    BY <1>3, <2>2, LeavesQueue DEF CoreInv, Leaves
  <2>4. GoneInv' /\ MaskInv'
    BY <1>1, <2>1, <2>2, <2>3 DEF CoreInv, GoneInv, MaskInv, OnlyMoves, Home
  <2>5. SetupInv' /\ StandInv' /\ ApartInv'
    BY <1>1, <2>1, <2>3 DEF CoreInv, SetupInv, StandInv, ApartInv
  <2> QED
    BY <2>3, <2>4, <2>5 DEF CoreInv
<1> QED
  BY <1>2, <1>3

-------------------------------------------------------------------------------
(***************************************************************************)
(* The invariant, and what follows from it.                                *)
(***************************************************************************)

\* Pinned before the first arm.
LEMMA InitFifoInv == FifoInit => FifoInv
<1> SUFFICES ASSUME FifoInit PROVE FifoInv
  OBVIOUS
<1>1. IInv
  BY InitIInv DEF FifoInit
<1>2. ASSUME MainPinned PROVE CoreInv
  <2>1. /\ machine \subseteq Cores /\ CORE_MAIN \in Cores
        /\ mask = [t \in Threads |-> IF t = MainThread THEN {CORE_MAIN} ELSE {}]
        /\ queue = [d \in Cores |-> IF d = CORE_MAIN THEN <<MainThread>> ELSE <<>>]
    BY <1>2 DEF FifoInit, CoresInit, MainMask, MainPinned, Cores, Threads
  <2>2. /\ <<MainThread>> \in Seq(Threads) /\ <<>> \in Seq(Threads)
        /\ Len(<<MainThread>>) = 1 /\ Len(<<>>) = 0 /\ <<MainThread>>[1] = MainThread
    BY ThreadsDiffer
  <2>3. queue \in Queues /\ mask \in [Threads -> SUBSET Cores] /\ mask[MainThread] = {CORE_MAIN}
    BY <2>1, <2>2, ThreadsDiffer DEF Queues
  <2>4. ASSUME NEW d \in Cores, NEW k \in 1..Len(queue[d])
        PROVE  d = CORE_MAIN /\ k = 1 /\ queue[d][k] = MainThread
    BY <2>1, <2>2, <2>4
  <2>5. QueueInv
    BY <2>1, <2>3, <2>4 DEF QueueInv, In, Once
  <2>6. /\ \A c \in Channels : mthread[c] = "absent" /\ MThread(c) # MainThread
        /\ \A s \in Stressors : sthread[s] = "absent" /\ SThread(s) # MainThread
        /\ main = "choose"
    BY ThreadsDiffer DEF FifoInit, Init
  <2>7. GoneInv
    BY <2>4, <2>6 DEF GoneInv, In
  <2> QED
    BY <2>5, <2>6, <2>7 DEF CoreInv, MaskInv, SetupInv, StandInv, ApartInv
<1> QED
  BY <1>1, <1>2 DEF FifoInv

\* No step, of a thread or of the scheduler, leaves the invariant.
LEMMA StepFifoInv == FifoInv /\ [FifoNext]_fifo_vars => FifoInv'
<1> SUFFICES ASSUME FifoInv, [FifoNext]_fifo_vars PROVE FifoInv'
  OBVIOUS
<1>1. IInv'
  BY StepIsNext, StepIInv DEF FifoInv
<1>2. UNCHANGED <<shared, machine, core_a, core_b>>
  BY DEF FifoNext, MainOnCore, MainStep, MainKeepsCore, MainBlocks, MainWakes, Balance,
         MeasurementOnCore, StressOnCore, Rest, Creates, Leaves, Wakes, pin_to_core, Pull,
         sched, fifo_vars
<1>3. ASSUME MainPinned PROVE CoreInv'
  <2>1. IInv /\ CoreInv
    BY <1>3 DEF FifoInv
  <2>2. CASE MainOnCore
    BY <1>2, <1>3, <2>1, <2>2, MainSameStep, MainRestStep, SpawnStressQueues,
       SpawnMeasurementQueues, MainSleepStep
    DEF MainOnCore, MainStep, MainKeepsCore
  <2>3. CASE MainBlocks \/ MainWakes
    BY <1>3, <2>1, <2>3, MainSleepStep
  <2>4. CASE Balance
    BY <1>3, <2>1, <2>4, NobodyIsPulled DEF Balance, CoreInv
  <2>5. ASSUME NEW c \in Channels, MeasurementOnCore(c) PROVE CoreInv'
    BY <1>2, <1>3, <2>1, <2>5, PinMeasurementQueues, PassBarrierQueues, MeasuresQueues
    DEF MeasurementOnCore
  <2>6. ASSUME NEW s \in Stressors, StressOnCore(s) PROVE CoreInv'
    BY <1>2, <1>3, <2>1, <2>6, PinStressQueues, StressQueues DEF StressOnCore
  <2>7. CASE UNCHANGED fifo_vars
    <3>1. UNCHANGED <<vars, sched, core_a, core_b>>
      BY <2>7 DEF fifo_vars
    <3>2. UNCHANGED <<sched, core_a, core_b, threads, arm, main, i, m_measure_signal>>
      BY <3>1 DEF vars
    <3>3. SetupInv'
      BY <2>1, <3>2 DEF CoreInv, SetupInv, RunsOn, threads, sched
    <3> QED
      BY <2>1, <3>2, <3>3, ThreadsSame DEF CoreInv, StandInv
  <2> QED
    BY <2>2, <2>3, <2>4, <2>5, <2>6, <2>7 DEF FifoNext
<1> QED
  BY <1>1, <1>2, <1>3 DEF FifoInv, MainPinned

\* The invariant holds in every reachable state.
LEMMA AlwaysFifoInv == FifoSpec => []FifoInv
<1> QED
  BY InitFifoInv, StepFifoInv, PTL DEF FifoSpec

\* The barrier holds nobody: whoever is at it has come after the signal.
THEOREM SetupAfterSignal == FifoSpec => []SetupFollowsSignal
<1>1. FifoInv => SetupFollowsSignal
  BY DEF FifoInv, CoreInv, SetupInv, SetupFollowsSignal
<1> QED
  BY <1>1, AlwaysFifoInv, PTL

\* The stress threads have pinned themselves before anything is measured.
THEOREM StressIsPinned == FifoSpec => []StressPinnedBeforeMeasuring
<1>1. FifoInv => StressPinnedBeforeMeasuring
  BY DEF FifoInv, CoreInv, StandInv, StressPinnedBeforeMeasuring
<1> QED
  BY <1>1, AlwaysFifoInv, PTL

\* A stress arm has results only if every stress thread has a core that neither
\* main nor a measurement thread of the arm is bound to.
THEOREM ResultsMeanApart == FifoSpec => []ResultsNeedStressApart
<1>1. ASSUME FifoInv PROVE ResultsNeedStressApart
  <2> SUFFICES ASSUME MainPinned, main = "process", WithStress(arm), NEW s \in Stressors
               PROVE  /\ StressCore(s) \in machine \ {CORE_MAIN}
                      /\ \A c \in ArmChannels : MeasurementCore(c) # StressCore(s)
    BY DEF ResultsNeedStressApart, StressApart
  <2>1. \A c \in ArmChannels : c \in Channels /\ mthread[c] = "joined"
    BY <1>1, ArmSizeBound DEF FifoInv, IInv, MeasureInv, ArmChannels
  <2>2. 0 \in ArmChannels
    BY ArmSizeBound DEF ArmChannels
  <2>3. CoreInv
    BY <1>1 DEF FifoInv
  <2>4. StressCore(s) \in machine \ {CORE_MAIN}
    BY <2>1, <2>2, <2>3 DEF CoreInv, StandInv
  <2> QED
    BY <2>1, <2>3, <2>4 DEF CoreInv, ApartInv
<1> QED
  BY <1>1, AlwaysFifoInv, PTL
===============================================================================
