----------------------------- MODULE BenchmarkArm -----------------------------
(***************************************************************************)
(* The benchmark's threads (discovery/benchmark/benchmark.cpp, and the     *)
(* arms of execute_benchmarks in main.cpp).  The main thread runs up to    *)
(* four arms.  For each it allocates a sample buffer per channel, starts   *)
(* the stress threads of a stress arm, then one measurement thread per     *)
(* channel; one atomic flag shared by all arms lets these go.  It joins    *)
(* them, stops and joins the stress threads, processes the buffers and     *)
(* frees them.                                                             *)
(*                                                                         *)
(* What is measured is left out (PairSamples is about that): a sample is   *)
(* one write to the thread's buffer.  The StressGroup, the contexts and    *)
(* the buffers are locals of run_arm; threads hold pointers into them.     *)
(***************************************************************************)
EXTENDS Naturals

CONSTANTS
  NChannels,       \* n_channels of the configuration
  NStress,         \* n_stress
  NSamples         \* n_samples

ASSUME BenchAssumption ==
  /\ NChannels \in Nat \ {0} /\ NStress \in Nat /\ NSamples \in Nat

SingleQuiet == 1   HedgedQuiet == 2   SingleStress == 3   HedgedStress == 4
Arms == {SingleQuiet, HedgedQuiet, SingleStress, HedgedStress}
Channels == 0..(NChannels - 1)
Stressors == 0..(NStress - 1)

VARIABLES
  main,            \* where the main thread is
  do,              \* the arms that parse_cli selected
  arm,             \* the arm being run, the last one that was, or 0
  i,               \* loop counter of run_arm and its helpers
  m_measure_signal,
  go, stop,        \* the atomics of the arm's StressGroup
  room, moved,     \* contexts: capacity, and how often push_back moved it
  buffer,          \* buffer[c]: all_samples[c], "null", "live" or "freed"
  written,         \* written[c]: samples of this arm in buffer[c]
  mthread,         \* mthread[c]: the measurement thread of channel c
  sthread,         \* sthread[s]: stress thread s
  context          \* context[s]: the value of moved when s was given its pointer

group == <<go, stop, room, moved>>
threads == <<mthread, sthread>>
vars == <<main, do, arm, i, m_measure_signal, group, buffer, written, threads, context>>

Dead == {"threw", "terminated", "crashed"}

WithStress(a) == a \in {SingleStress, HedgedStress}

\* addrs.size() of the arm's call of run_arm.
ArmSize == IF arm \in {SingleQuiet, SingleStress} THEN 1 ELSE NChannels
ArmChannels == 0..(ArmSize - 1)

Init ==
  /\ main = "choose"
  /\ do \in (SUBSET Arms) \ {{}}
  /\ arm = 0 /\ i = 0
  /\ m_measure_signal = FALSE
  /\ go = FALSE /\ stop = FALSE /\ room = 0 /\ moved = 0
  /\ buffer = [c \in Channels |-> "null"]
  /\ written = [c \in Channels |-> 0]
  /\ mthread = [c \in Channels |-> "absent"]
  /\ sthread = [s \in Stressors |-> "absent"]
  /\ context = [s \in Stressors |-> 0]

\* The loop at `from' has run n times: on to `to'.
LoopEnds(from, n, to) == main = from /\ i = n /\ main' = to /\ i' = 0
InLoop(from, n) == main = from /\ i < n

-------------------------------------------------------------------------------
(***************************************************************************)
(* The main thread.                                                        *)
(***************************************************************************)

\* execute_benchmarks calls run_arm for the next arm selected, or returns.
ChooseArm ==
  /\ main = "choose"
  /\ i' = 0
  /\ IF \E a \in do : a > arm
     THEN /\ arm' \in {a \in do : a > arm /\ \A b \in do : b > arm => a <= b}
          /\ main' = "allocate"
     ELSE /\ main' = "finished"
          /\ UNCHANGED arm
  /\ go' = FALSE /\ stop' = FALSE /\ room' = 0 /\ moved' = 0
  /\ written' = [c \in Channels |-> 0]
  /\ mthread' = [c \in Channels |-> "absent"]
  /\ sthread' = [s \in Stressors |-> "absent"]
  /\ UNCHANGED <<do, m_measure_signal, buffer, context>>

\* allocate_samples: aligned_alloc may fail, and nobody looks.
AllocateSamples ==
  /\ InLoop("allocate", ArmSize)
  /\ \E b \in {"live", "null"} : buffer' = [buffer EXCEPT ![i] = b]
  /\ i' = i + 1
  /\ UNCHANGED <<main, do, arm, m_measure_signal, group, written, threads, context>>

\* No reserve before the push_backs.
ReservedNone == 0
Reserved == NStress

\* start_stress_threads returns at once in a quiet arm, else reserves.
StartStress ==
  /\ \/ WithStress(arm) /\ LoopEnds("allocate", ArmSize, "stress")
     \/ ~WithStress(arm) /\ LoopEnds("allocate", ArmSize, "spawn")
  /\ room' = IF WithStress(arm) THEN Reserved ELSE room
  /\ UNCHANGED <<do, arm, m_measure_signal, go, stop, moved, buffer, written, threads, context>>

\* push_back, which moves a full vector, and a thread with a pointer to back().
SpawnStress ==
  /\ InLoop("stress", NStress)
  /\ LET full == i >= room IN
       /\ room' = IF full THEN 2 * i + 1 ELSE room
       /\ moved' = IF full THEN moved + 1 ELSE moved
  /\ context' = [context EXCEPT ![i] = moved']
  /\ sthread' = [sthread EXCEPT ![i] = "pinning"]
  /\ i' = i + 1
  /\ UNCHANGED <<main, do, arm, m_measure_signal, go, stop, buffer, written, mthread>>

\* The stress threads are never told to begin.
GoForgotten == go
GoRaised == TRUE

\* go, and usleep: how far the stress threads get meanwhile is not known.
GoStress ==
  /\ LoopEnds("stress", NStress, "spawn")
  /\ go' = GoRaised
  /\ UNCHANGED <<do, arm, m_measure_signal, stop, room, moved, buffer, written,
                 threads, context>>

SpawnMeasurement ==
  /\ InLoop("spawn", ArmSize)
  /\ mthread' = [mthread EXCEPT ![i] = "pinning"]
  /\ i' = i + 1
  /\ UNCHANGED <<main, do, arm, m_measure_signal, group, buffer, written, sthread, context>>

\* std::thread's constructor throws: nobody catches it.
SpawnThrows ==
  /\ InLoop("stress", NStress) \/ InLoop("spawn", ArmSize)
  /\ main' = "threw"
  /\ UNCHANGED <<do, arm, i, m_measure_signal, group, buffer, written, threads, context>>

Signal ==
  /\ LoopEnds("spawn", ArmSize, "join")
  /\ m_measure_signal' = TRUE
  /\ UNCHANGED <<do, arm, group, buffer, written, threads, context>>

Join ==
  /\ InLoop("join", ArmSize)
  /\ mthread[i] = "done"
  /\ mthread' = [mthread EXCEPT ![i] = "joined"]
  /\ i' = i + 1
  /\ UNCHANGED <<main, do, arm, m_measure_signal, group, buffer, written, sthread, context>>

\* The join loop stops at the first channel; the stress threads are never told.
JoinedFirst == 1
JoinedCount == ArmSize
StopForgotten == stop
StopRaised == TRUE

StopStress ==
  /\ LoopEnds("join", JoinedCount, IF WithStress(arm) THEN "unstress" ELSE "process")
  /\ stop' = IF WithStress(arm) THEN StopRaised ELSE stop
  /\ UNCHANGED <<do, arm, m_measure_signal, go, room, moved, buffer, written, threads, context>>

\* The stress threads are left to end by themselves.
JoinedNone == 0
StressJoined == NStress

JoinStress ==
  /\ InLoop("unstress", StressJoined)
  /\ sthread[i] = "done"
  /\ sthread' = [sthread EXCEPT ![i] = "joined"]
  /\ i' = i + 1
  /\ UNCHANGED <<main, do, arm, m_measure_signal, group, buffer, written, mthread, context>>

StressJoinedAll ==
  /\ LoopEnds("unstress", StressJoined, "process")
  /\ UNCHANGED <<do, arm, m_measure_signal, group, buffer, written, threads, context>>

\* process_and_write reads every buffer.
ProcessAndWrite ==
  /\ main = "process"
  /\ main' = IF NSamples > 0 /\ \E c \in ArmChannels : buffer[c] # "live"
             THEN "crashed" ELSE "free"
  /\ UNCHANGED <<do, arm, i, m_measure_signal, group, buffer, written, threads, context>>

FreeSamples ==
  /\ main = "free"
  /\ main' = "return"
  /\ buffer' = [c \in Channels |-> IF c \in ArmChannels THEN "freed" ELSE buffer[c]]
  /\ UNCHANGED <<do, arm, i, m_measure_signal, group, written, threads, context>>

\* The flag left as the arm set it.
SignalKept == m_measure_signal
SignalAfterReset == FALSE

\* A thread object that is still joinable.
Joinable(t) == t \notin {"absent", "joined"}

\* run_arm's locals are destroyed, where a thread that is still joinable
\* terminates the process; then execute_benchmarks calls reset.
ReturnAndReset ==
  /\ main = "return"
  /\ IF (\E c \in Channels : Joinable(mthread[c])) \/ (\E s \in Stressors : Joinable(sthread[s]))
     THEN main' = "terminated" /\ UNCHANGED m_measure_signal
     ELSE main' = "choose" /\ m_measure_signal' = SignalAfterReset
  /\ UNCHANGED <<do, arm, i, group, buffer, written, threads, context>>

-------------------------------------------------------------------------------
(***************************************************************************)
(* measurement_thread.                                                     *)
(***************************************************************************)

MStep(c, from, to) ==
  /\ main \notin Dead
  /\ mthread[c] = from
  /\ mthread' = [mthread EXCEPT ![c] = to]
  /\ UNCHANGED <<do, arm, i, m_measure_signal, group, sthread, context>>

PinMeasurement(c) == MStep(c, "pinning", "barrier") /\ UNCHANGED <<main, buffer, written>>

\* Leaving the spin on m_measure_signal.
PassBarrier(c) ==
  /\ m_measure_signal
  /\ MStep(c, "barrier", "warmup")
  /\ UNCHANGED <<main, buffer, written>>

Warmup(c) == MStep(c, "warmup", "sampling") /\ UNCHANGED <<main, buffer, written>>

\* One sample too many.
MoreSamplesInclusive(c) == written[c] <= NSamples
MoreSamples(c) == written[c] < NSamples

Sample(c) ==
  /\ MoreSamples(c)
  /\ MStep(c, "sampling", "sampling")
  /\ IF buffer[c] = "live"
     THEN written' = [written EXCEPT ![c] = @ + 1] /\ UNCHANGED main
     ELSE main' = "crashed" /\ UNCHANGED written
  /\ UNCHANGED buffer

EndMeasurement(c) ==
  /\ written[c] = NSamples
  /\ MStep(c, "sampling", "done")
  /\ UNCHANGED <<main, buffer, written>>

-------------------------------------------------------------------------------
(***************************************************************************)
(* stress_thread; the reads it makes in a loop change nothing.             *)
(***************************************************************************)

SStep(s, from, to) ==
  /\ main \notin Dead
  /\ sthread[s] = from
  /\ sthread' = [sthread EXCEPT ![s] = to]
  /\ UNCHANGED <<main, do, arm, i, m_measure_signal, group, buffer, written, mthread, context>>

PinStress(s) == SStep(s, "pinning", "waiting")
BeginStress(s) == go /\ SStep(s, "waiting", "stressing")
EndStress(s) == stop /\ SStep(s, "stressing", "done")

-------------------------------------------------------------------------------
Main ==
  \/ ChooseArm \/ AllocateSamples \/ StartStress \/ SpawnStress \/ GoStress
  \/ SpawnMeasurement \/ SpawnThrows \/ Signal \/ Join \/ StopStress
  \/ JoinStress \/ StressJoinedAll \/ ProcessAndWrite \/ FreeSamples \/ ReturnAndReset

Measurement(c) ==
  PinMeasurement(c) \/ PassBarrier(c) \/ Warmup(c) \/ Sample(c) \/ EndMeasurement(c)

Stress(s) == PinStress(s) \/ BeginStress(s) \/ EndStress(s)

Next ==
  \/ Main
  \/ \E c \in Channels : Measurement(c)
  \/ \E s \in Stressors : Stress(s)

Spec == Init /\ [][Next]_vars

-------------------------------------------------------------------------------
(***************************************************************************)
(* Properties.                                                             *)
(***************************************************************************)

MeasurementStates == {"absent", "pinning", "barrier", "warmup", "sampling", "done", "joined"}
StressStates == {"absent", "pinning", "waiting", "stressing", "done", "joined"}

TypeOK ==
  /\ main \in Dead \union {"choose", "allocate", "stress", "spawn", "join", "unstress",
                           "process", "free", "return", "finished"}
  /\ do \in SUBSET Arms /\ arm \in {0} \union do
  /\ i \in Nat
  /\ m_measure_signal \in BOOLEAN /\ go \in BOOLEAN /\ stop \in BOOLEAN
  /\ room \in Nat /\ moved \in Nat
  /\ buffer \in [Channels -> {"null", "live", "freed"}]
  /\ written \in [Channels -> 0..NSamples]
  /\ mthread \in [Channels -> MeasurementStates]
  /\ sthread \in [Stressors -> StressStates]
  /\ context \in [Stressors -> Nat]

PastBarrier(c) == mthread[c] \in {"warmup", "sampling", "done"}

\* No measurement begins, in any arm, before all measurement threads of the arm
\* exist and the signal has been given ("Signals all the measurement threads to
\* start at the same time"): the signal of an earlier arm does not count.
StartsOnItsOwnSignal == \A c \in Channels : PastBarrier(c) => main \in {"join"} \union Dead

\* What is processed is complete: every channel of the arm has taken NSamples
\* samples, and the buffer they are in has not been given up.
ProcessedIsComplete ==
  main = "process" => \A c \in ArmChannels :
    written[c] = NSamples /\ (NSamples > 0 => buffer[c] = "live")

\* A thread that uses its context finds it where it was: the vector of contexts
\* does not move under the stress threads.
ContextsStay ==
  \A s \in Stressors : sthread[s] \in {"pinning", "waiting", "stressing"} => context[s] = moved

\* An arm takes its threads with it: no thread object is destroyed joinable, and
\* no thread uses a buffer after its release.  The one crash left is that of a
\* buffer aligned_alloc did not give.
ThreadsEndWithTheirArm ==
  /\ main # "terminated"
  /\ main = "crashed" => \E c \in ArmChannels : buffer[c] = "null"

\* Samples are taken under the conditions that name the arm: while the stress
\* threads are called to work in a stress arm, while there are none in a quiet
\* one.
NoiseIsTheArms ==
  \A c \in Channels : mthread[c] = "sampling" =>
    IF WithStress(arm) THEN go /\ ~stop
    ELSE \A s \in Stressors : sthread[s] = "absent"

\* Every benchmark comes to an end, unless it is out of threads or memory.
BenchmarkEnds == <>(main \in {"finished"} \union Dead)
===============================================================================
