------------------------------- MODULE EspRace -------------------------------
(***************************************************************************)
(* The ESP32 probe suite (esp32/esp32_tailslayer_probe.ino): the task that *)
(* runs setup() on one core races core1_worker on the other, over two      *)
(* volatile flags.  start_race asks the worker for a read and, falling     *)
(* back to false, tells it that the round is over; race_done answers.      *)
(*                                                                         *)
(* Every access to a volatile that the other core writes or reads is a     *)
(* step.  `round' and `answered' are history: which round is being run,    *)
(* and which one the worker's latest read was made in.                     *)
(***************************************************************************)
EXTENDS Naturals

CONSTANTS
  Rounds,          \* rounds of the hedged test (NUM_PROBES / 10)
  Latencies,       \* latencies a read can take, in cycles
  Threshold        \* a hedged read slower than this is a spike

ASSUME RaceAssumption ==
  /\ Rounds \in Nat \ {0}
  /\ Latencies \subseteq Nat /\ Latencies # {}
  /\ Threshold \in Nat

VARIABLES
  c0,              \* where setup() and the benchmark loops are
  c1,              \* where core1_worker is
  sram_buf, psram_buf,              \* whether the two allocations succeeded
  start_race, race_done,
  core0_latency, core1_latency,
  delta1,          \* t1 - t0 of core1_worker, before it is published
  best_lat,        \* core 0's local: the latency that is counted for the round
  round,           \* rounds begun (history; the loop counter)
  answered,        \* round of the worker's latest read (history)
  wins0, wins1, hedged_spikes

heap  == <<sram_buf, psram_buf>>
flags == <<start_race, race_done>>
score == <<best_lat, wins0, wins1, hedged_spikes>>
vars  == <<c0, c1, heap, flags, core0_latency, core1_latency, delta1, round,
           answered, score>>

Init ==
  /\ c0 = "setup"
  /\ c1 = "absent"
  /\ sram_buf = FALSE /\ psram_buf = FALSE
  /\ start_race = FALSE /\ race_done = FALSE
  /\ core0_latency = 0 /\ core1_latency = 0 /\ delta1 = 0 /\ best_lat = 0
  /\ round = 0 /\ answered = 0
  /\ wins0 = 0 /\ wins1 = 0 /\ hedged_spikes = 0

Step0(from, to) == c0 = from /\ c0' = to
Step1(from, to) == c1 = from /\ c1' = to

-------------------------------------------------------------------------------
(***************************************************************************)
(* setup(): allocate, spawn the worker, run the three benchmarks.          *)
(***************************************************************************)

\* The result of xTaskCreatePinnedToCore is not looked at: the worker may be
\* missing.
Setup ==
  /\ Step0("setup", "sram")
  /\ c1' \in {"idle", "absent"}
  /\ sram_buf' \in BOOLEAN
  /\ psram_buf' \in BOOLEAN
  /\ UNCHANGED <<flags, core0_latency, core1_latency, delta1, round, answered, score>>

\* run_sram_benchmark reads sram_buf whether or not it was allocated.
RunSramBenchmark ==
  /\ c0 = "sram"
  /\ c0' = IF sram_buf THEN "psram" ELSE "fault"
  /\ UNCHANGED <<c1, heap, flags, core0_latency, core1_latency, delta1, round,
                 answered, score>>

\* run_psram_benchmark, then the entry of run_hedged_read_benchmark: without
\* PSRAM both return at once.
RunPsramBenchmark ==
  /\ c0 = "psram"
  /\ c0' = IF psram_buf THEN "reset" ELSE "finished"
  /\ UNCHANGED <<c1, heap, flags, core0_latency, core1_latency, delta1, round,
                 answered, score>>

-------------------------------------------------------------------------------
(***************************************************************************)
(* run_hedged_read_benchmark, one round.                                   *)
(***************************************************************************)

\* race_done left as the previous round set it.
ClearedDoneKept == race_done
ClearedDone == FALSE

ResetDone ==
  /\ Step0("reset", "signal")
  /\ race_done' = ClearedDone
  /\ round' = round + 1
  /\ UNCHANGED <<c1, heap, start_race, core0_latency, core1_latency, delta1,
                 answered, score>>

SignalCore1 ==
  /\ Step0("signal", "read")
  /\ start_race' = TRUE
  /\ UNCHANGED <<c1, heap, race_done, core0_latency, core1_latency, delta1, round,
                 answered, score>>

\* race_done cleared only now, after core 1 was signalled.
ReadCore0ClearingDone ==
  /\ Step0("read", "wait")
  /\ core0_latency' \in Latencies
  /\ race_done' = FALSE
  /\ UNCHANGED <<c1, heap, start_race, core1_latency, delta1, round, answered, score>>

ReadCore0 ==
  /\ Step0("read", "wait")
  /\ core0_latency' \in Latencies
  /\ UNCHANGED <<c1, heap, flags, core1_latency, delta1, round, answered, score>>

\* while (!race_done) {}: leaving the loop.
WaitCore1 ==
  /\ Step0("wait", "stop")
  /\ race_done
  /\ UNCHANGED <<c1, heap, flags, core0_latency, core1_latency, delta1, round,
                 answered, score>>

StopRace ==
  /\ Step0("stop", "compare")
  /\ start_race' = FALSE
  /\ UNCHANGED <<c1, heap, race_done, core0_latency, core1_latency, delta1, round,
                 answered, score>>

MoreRounds == round < Rounds

\* core1_latency is read up to three times: compared, taken if it is no greater,
\* and compared again for the score.
Compare ==
  /\ c0 = "compare"
  /\ IF core0_latency < core1_latency
     THEN c0' = "score" /\ best_lat' = core0_latency
     ELSE c0' = "take" /\ UNCHANGED best_lat
  /\ UNCHANGED <<c1, heap, flags, core0_latency, core1_latency, delta1, round,
                 answered, wins0, wins1, hedged_spikes>>

TakeCore1 ==
  /\ Step0("take", "score")
  /\ best_lat' = core1_latency
  /\ UNCHANGED <<c1, heap, flags, core0_latency, core1_latency, delta1, round,
                 answered, wins0, wins1, hedged_spikes>>

Account ==
  /\ c0 = "score"
  /\ IF core0_latency < core1_latency
     THEN wins0' = wins0 + 1 /\ UNCHANGED wins1
     ELSE wins1' = wins1 + 1 /\ UNCHANGED wins0
  /\ hedged_spikes' = hedged_spikes + (IF best_lat > Threshold THEN 1 ELSE 0)
  /\ c0' = IF MoreRounds THEN "reset" ELSE "finished"
  /\ UNCHANGED <<c1, heap, flags, core0_latency, core1_latency, delta1, round,
                 answered, best_lat>>

-------------------------------------------------------------------------------
(***************************************************************************)
(* core1_worker.                                                           *)
(***************************************************************************)

\* while (!start_race) vTaskDelay(0): leaving the loop.
AwaitStart ==
  /\ Step1("idle", "read")
  /\ start_race
  /\ UNCHANGED <<c0, heap, flags, core0_latency, core1_latency, delta1, round,
                 answered, score>>

\* race_done raised before the latency is published.
FlagOnReadEarly == TRUE
FlagOnRead == race_done

ReadCore1 ==
  /\ Step1("read", "publish")
  /\ delta1' \in Latencies
  /\ answered' = round
  /\ race_done' = FlagOnRead
  /\ UNCHANGED <<c0, heap, start_race, core0_latency, core1_latency, round, score>>

PublishLatency ==
  /\ Step1("publish", "answer")
  /\ core1_latency' = delta1
  /\ UNCHANGED <<c0, heap, flags, core0_latency, delta1, round, answered, score>>

PublishDone ==
  /\ Step1("answer", "drain")
  /\ race_done' = TRUE
  /\ UNCHANGED <<c0, heap, start_race, core0_latency, core1_latency, delta1, round,
                 answered, score>>

\* The worker does not wait for the round to end.
StopSeenAlways == TRUE
StopSeen == ~start_race

\* while (start_race) vTaskDelay(0): leaving the loop.
AwaitStop ==
  /\ Step1("drain", "idle")
  /\ StopSeen
  /\ UNCHANGED <<c0, heap, flags, core0_latency, core1_latency, delta1, round,
                 answered, score>>

-------------------------------------------------------------------------------
Core0 ==
  \/ Setup \/ RunSramBenchmark \/ RunPsramBenchmark
  \/ ResetDone \/ SignalCore1 \/ ReadCore0 \/ WaitCore1 \/ StopRace
  \/ Compare \/ TakeCore1 \/ Account

Core1 == AwaitStart \/ ReadCore1 \/ PublishLatency \/ PublishDone \/ AwaitStop

Next == Core0 \/ Core1

Spec == Init /\ [][Next]_vars

\* Each task keeps its core: it is scheduled as long as it can take a step.
FairSpec == Spec /\ WF_vars(Core0) /\ WF_vars(Core1)

-------------------------------------------------------------------------------
(***************************************************************************)
(* Properties.                                                             *)
(***************************************************************************)

TypeOK ==
  /\ c0 \in {"setup", "sram", "psram", "reset", "signal", "read", "wait", "stop",
             "compare", "take", "score", "finished", "fault"}
  /\ c1 \in {"absent", "idle", "read", "publish", "answer", "drain"}
  /\ sram_buf \in BOOLEAN /\ psram_buf \in BOOLEAN
  /\ start_race \in BOOLEAN /\ race_done \in BOOLEAN
  /\ core0_latency \in Nat /\ core1_latency \in Nat /\ delta1 \in Nat
  /\ best_lat \in Nat
  /\ round \in 0..Rounds /\ answered \in 0..Rounds
  /\ wins0 \in Nat /\ wins1 \in Nat /\ hedged_spikes \in Nat

Best(a, b) == IF a < b THEN a ELSE b

\* The latencies compared at the end of a round were both measured in that
\* round: core 0 never scores a latency left over from an earlier one, nor one
\* that the worker is about to overwrite, and what it counts, from one read of
\* core1_latency, is the winner's latency by another.
FreshComparison ==
  /\ c0 \in {"stop", "compare", "take", "score"} =>
       /\ answered = round
       /\ core1_latency = delta1
       /\ c1 \in {"drain", "idle"}
  /\ c0 = "score" => best_lat = Best(core0_latency, core1_latency)

\* The worker reads once per round: between two of its reads core 0 has closed
\* the round and opened another.
OneReadPerRound == c1 = "read" => answered < round

\* A read is in flight only inside a round, before core 0 accounts for it.
ReadsInsideRounds ==
  c1 \in {"read", "publish", "answer"} => c0 \in {"read", "wait"}

(***************************************************************************)
(* Progress.  The worker polls start_race; when core 0 lowers it and       *)
(* raises it again between two polls, the worker is still draining the     *)
(* previous round, and core 0 waits for an answer to a request the worker  *)
(* has not seen.                                                           *)
(***************************************************************************)
MissedStop ==
  c0 = "wait" /\ ~race_done /\ start_race /\ c1 = "drain" /\ answered < round

\* The hedged test ends, or it hangs in that one way, or for want of a worker:
\* there is no other.
FinishesUnlessStopMissed ==
  (c0 = "reset") ~> (c0 = "finished" \/ MissedStop \/ (c0 = "wait" /\ c1 = "absent"))

\* "probe suite finished": once started, and the worker there, the hedged test
\* comes to its end.
HedgedTestFinishes == (c0 = "reset" /\ c1 # "absent") ~> (c0 = "finished")
===============================================================================
