-------------------------------- MODULE FifoArm --------------------------------
(***************************************************************************)
(* The threads of BenchmarkArm on the cores of FifoCores: the benchmark    *)
(* as main.cpp:5 says it is run, under FIFO scheduling and pinned to core  *)
(* numbers of AppConfig, on machines that may lack some of these cores, or *)
(* without chrt.  Every step is one of BenchmarkArm's, taken by a thread   *)
(* that has a core, or a step of the scheduler.                            *)
(***************************************************************************)
EXTENDS BenchmarkArm, FifoCores

CONSTANTS
  STRESS_CORES,    \* a sequence of core numbers
  CoreAs, CoreBs   \* values of --core-a and --core-b

ASSUME CoreAssumption ==
  /\ STRESS_CORES \in Seq(Nat) /\ STRESS_CORES # <<>>
  /\ CoreAs \subseteq Nat /\ CoreBs \subseteq Nat

VARIABLES core_a, core_b

fifo_vars == <<vars, sched, core_a, core_b>>

MainThread == <<"main", 0>>
MThread(c) == <<"measurement", c>>
SThread(s) == <<"stress", s>>

\* execute_benchmarks' list of cores, and the cores of the stress threads.
MeasurementCore(c) ==
  CASE c = 0 -> core_a
    [] c = 1 -> core_b
    [] OTHER -> core_b + c - 1
StressCore(s) == STRESS_CORES[(s % Len(STRESS_CORES)) + 1]

\* setup_environment has pinned the main thread, or failed to and gone on.
FifoInit ==
  /\ Init
  /\ core_a \in CoreAs /\ core_b \in CoreBs
  /\ CoresInit(MainThread, {MThread(c) : c \in Channels} \union {SThread(s) : s \in Stressors})

-------------------------------------------------------------------------------
(***************************************************************************)
(* The main thread.                                                        *)
(***************************************************************************)

MainKeepsCore ==
  /\ \/ ChooseArm \/ AllocateSamples \/ StartStress \/ SpawnThrows \/ Signal \/ Join
     \/ StopStress \/ JoinStress \/ StressJoinedAll \/ ProcessAndWrite \/ FreeSamples
     \/ ReturnAndReset
  /\ UNCHANGED sched

\* start_stress_threads returns without sleeping.
NoRest == UNCHANGED sched

\* usleep(50000).
Rest == IF shared THEN UNCHANGED sched ELSE Leaves(MainThread)

\* main waits in join.
Waiting ==
  \/ main = "join" /\ i < ArmSize /\ mthread[i] # "done"
  \/ main = "unstress" /\ i < NStress /\ sthread[i] # "done"

MainStep ==
  \/ MainKeepsCore
  \/ SpawnStress /\ Creates(MainThread, SThread(i))
  \/ SpawnMeasurement /\ Creates(MainThread, MThread(i))
  \/ GoStress /\ Rest

MainOnCore == Runs(MainThread) /\ MainStep /\ UNCHANGED <<core_a, core_b>>

MainBlocks ==
  /\ ~shared /\ Runs(MainThread)
  /\ Waiting
  /\ Leaves(MainThread)
  /\ UNCHANGED <<vars, core_a, core_b>>

\* The sleep is over, or the thread that main joins.
MainWakes ==
  /\ main \notin Dead /\ ~Waiting
  /\ Wakes(MainThread)
  /\ UNCHANGED <<vars, core_a, core_b>>

-------------------------------------------------------------------------------
(***************************************************************************)
(* The other threads.  Spinning at a flag that is not up is no step: the   *)
(* thread keeps its core.                                                  *)
(***************************************************************************)

MeasurementOnCore(c) ==
  /\ Runs(MThread(c))
  /\ \/ PinMeasurement(c) /\ pin_to_core(MThread(c), MeasurementCore(c))
     \/ (PassBarrier(c) \/ Warmup(c) \/ Sample(c)) /\ UNCHANGED sched
     \/ EndMeasurement(c) /\ Leaves(MThread(c))
  /\ UNCHANGED <<core_a, core_b>>

StressOnCore(s) ==
  /\ Runs(SThread(s))
  /\ \/ PinStress(s) /\ pin_to_core(SThread(s), StressCore(s))
     \/ BeginStress(s) /\ UNCHANGED sched
     \/ EndStress(s) /\ Leaves(SThread(s))
  /\ UNCHANGED <<core_a, core_b>>

Balance == main \notin Dead /\ Pull /\ UNCHANGED <<vars, core_a, core_b>>

FifoNext ==
  \/ MainOnCore \/ MainBlocks \/ MainWakes \/ Balance
  \/ \E c \in Channels : MeasurementOnCore(c)
  \/ \E s \in Stressors : StressOnCore(s)

FifoSpec == FifoInit /\ [][FifoNext]_fifo_vars

\* A thread at the head of its queue runs, timers expire, idle cores look for
\* work; without chrt every thread gets its turn.
FairFifoSpec ==
  /\ FifoSpec
  /\ WF_fifo_vars(MainOnCore \/ MainBlocks \/ MainWakes)
  /\ WF_fifo_vars(Balance)
  /\ \A c \in Channels : WF_fifo_vars(MeasurementOnCore(c))
  /\ \A s \in Stressors : WF_fifo_vars(StressOnCore(s))

-------------------------------------------------------------------------------
(***************************************************************************)
(* Properties.                                                             *)
(***************************************************************************)

MainPinned == ~shared /\ CORE_MAIN \in machine

\* The stress threads have cores, and none that main or a measurement thread of
\* channels cs is bound to.
StressApart(cs) ==
  \A s \in Stressors :
    /\ StressCore(s) \in machine \ {CORE_MAIN}
    /\ \A c \in cs : MeasurementCore(c) # StressCore(s)

\* A core that no stress thread claims.
CoreToSpare == machine \ {StressCore(s) : s \in Stressors} # {}

\* Every benchmark comes to an end, unless it is out of threads or memory: when
\* threads take turns, and under chrt where no arm has stress threads or these
\* have cores of their own and leave one.
EndsWherePlaced ==
  shared \/ (\A a \in do : ~WithStress(a)) \/ (StressApart(Channels) /\ CoreToSpare)
    => BenchmarkEnds

\* And only there.  Under chrt, with main on its core, a stress arm that gets
\* as far as its results had all stress threads apart: one pin that failed, or
\* one core used twice, and the arm is never seen to end.  (The comments at the
\* failed pins call them non-fatal.)
ResultsNeedStressApart ==
  MainPinned /\ main = "process" /\ WithStress(arm) => StressApart(ArmChannels)

\* Under chrt the sleep of 50 ms needs no luck: the stress threads stand before
\* main in the queue of its core, so that all have called pin_to_core before any
\* measurement thread exists.
StressPinnedBeforeMeasuring ==
  MainPinned /\ (\E c \in Channels : mthread[c] # "absent") =>
    \A s \in Stressors : sthread[s] # "pinning"

\* Under chrt, with main on its core, no measurement thread has done its setup
\* when the signal is given: all of them begin with it afterwards, and the
\* barrier, which should keep "thread creation / setup time" out of the
\* measurement, holds nobody.
SetupFollowsSignal ==
  MainPinned => \A c \in Channels : mthread[c] = "barrier" => m_measure_signal
===============================================================================
