----------------------------- MODULE EspRaceProofs -----------------------------
(***************************************************************************)
(* Proofs about EspRace, for any number of rounds and any latencies: the   *)
(* handshake compares latencies of one round, runs down with every step,   *)
(* and stands still only where a missed stop or a missing worker leaves it.*)
(***************************************************************************)
EXTENDS EspRace, Integers, TLAPS

\* The request of this round has not been answered.
Pending == answered + 1 = round /\ ~race_done

\* It has, and the answer is complete.
Answered == answered = round /\ race_done /\ core1_latency = delta1

BeforeRounds == {"setup", "sram", "psram"}
Resting == {"absent", "idle", "drain"}

\* start_race is up exactly while core 0 is between its two assignments.
StartInv == start_race <=> c0 \in {"read", "wait", "stop"}

\* Between the rounds.
RestInv ==
  /\ c0 \in BeforeRounds => round = 0 /\ answered = 0
  /\ c0 \in BeforeRounds \union {"reset", "signal", "finished", "fault"} => c1 \in Resting
  /\ c0 = "reset" => answered = round /\ round < Rounds
  /\ c0 = "signal" => Pending

\* While core 0 reads or waits, the worker's place tells how far the answer is.
RaceInv ==
  c0 \in {"read", "wait"} =>
    /\ c1 \in {"absent", "idle", "read"} => Pending
    /\ c1 = "publish" => answered = round /\ ~race_done
    /\ c1 = "answer" => answered = round /\ ~race_done /\ core1_latency = delta1
    /\ c1 = "drain" => Pending \/ Answered

\* When the wait is over the worker has finished with the round, and it cannot
\* leave it before start_race falls.
ScoreInv ==
  /\ c0 \in {"stop", "compare", "take", "score"} => Answered /\ c1 \in {"drain", "idle"}
  /\ c0 = "stop" => c1 = "drain"
  /\ c0 = "take" => ~(core0_latency < core1_latency)
  /\ c0 = "score" => best_lat = Best(core0_latency, core1_latency)

IInv == TypeOK /\ StartInv /\ RestInv /\ RaceInv /\ ScoreInv

-------------------------------------------------------------------------------
\* The handshake starts in the invariant.
LEMMA InitIInv == Init => IInv
<1> SUFFICES ASSUME Init PROVE IInv
  OBVIOUS
<1>1. Rounds \in Nat /\ 0 \in 0..Rounds
  BY RaceAssumption DEF RaceAssumption
<1>2. TypeOK
  BY <1>1 DEF Init, TypeOK
<1>3. StartInv /\ RestInv /\ RaceInv /\ ScoreInv
  BY DEF Init, StartInv, RestInv, RaceInv, ScoreInv, BeforeRounds, Resting
<1> QED
  BY <1>2, <1>3 DEF IInv

\* No step of either core leaves it.
LEMMA StepIInv == IInv /\ [Next]_vars => IInv'
<1> SUFFICES ASSUME IInv, [Next]_vars PROVE IInv'
  OBVIOUS
<1> USE RaceAssumption
    DEF RaceAssumption, IInv, TypeOK, StartInv, RestInv, RaceInv, ScoreInv, Pending, Answered,
        BeforeRounds, Resting, Step0, Step1, flags, heap, score
<1>1. CASE Setup                 BY <1>1 DEF Setup
<1>2. CASE RunSramBenchmark      BY <1>2 DEF RunSramBenchmark
<1>3. CASE RunPsramBenchmark     BY <1>3 DEF RunPsramBenchmark
<1>4. CASE ResetDone
  <2>1. answered = round /\ round < Rounds /\ round' = round + 1
    BY <1>4 DEF ResetDone
  <2>2. TypeOK'
    <3>1. round' \in 0..Rounds
      BY <2>1
    <3>2. race_done' \in BOOLEAN
      BY <1>4 DEF ResetDone, ClearedDone
    <3> QED
      BY <1>4, <3>1, <3>2 DEF ResetDone
  <2>3. RestInv'
    BY <1>4, <2>1 DEF ResetDone, ClearedDone
  <2>4. StartInv' /\ RaceInv' /\ ScoreInv'
    BY <1>4 DEF ResetDone
  <2> QED
    BY <2>2, <2>3, <2>4
<1>5. CASE SignalCore1           BY <1>5 DEF SignalCore1
<1>6. CASE ReadCore0             BY <1>6 DEF ReadCore0
<1>7. CASE WaitCore1             BY <1>7 DEF WaitCore1
<1>8. CASE StopRace              BY <1>8 DEF StopRace
<1>9. CASE Account               BY <1>9 DEF Account, MoreRounds
<1>10. CASE AwaitStart           BY <1>10 DEF AwaitStart
<1>11. CASE ReadCore1            BY <1>11 DEF ReadCore1, FlagOnRead
<1>12. CASE PublishLatency       BY <1>12 DEF PublishLatency
<1>13. CASE PublishDone          BY <1>13 DEF PublishDone
<1>14. CASE AwaitStop            BY <1>14 DEF AwaitStop, StopSeen
<1>15. CASE Compare              BY <1>15 DEF Compare, Best
<1>16. CASE TakeCore1            BY <1>16 DEF TakeCore1, Best
<1>17. CASE UNCHANGED vars       BY <1>17 DEF vars
<1> QED
  BY <1>1, <1>2, <1>3, <1>4, <1>5, <1>6, <1>7, <1>8, <1>9, <1>10, <1>11, <1>12,
     <1>13, <1>14, <1>15, <1>16, <1>17
  DEF Next, Core0, Core1

\* The invariant holds throughout.
LEMMA AlwaysIInv == Spec => []IInv
  BY InitIInv, StepIInv, PTL DEF Spec

\* Every variable keeps its type: the counters of core1_worker and of
\* run_hedged_read_benchmark stay in range.
THEOREM TypeCorrect == Spec => []TypeOK
  BY AlwaysIInv, PTL DEF IInv

\* What run_hedged_read_benchmark compares are two latencies of one round.
THEOREM ComparisonIsFresh == Spec => []FreshComparison
<1>1. IInv => FreshComparison
  BY DEF IInv, ScoreInv, Answered, FreshComparison
<1> QED
  BY <1>1, AlwaysIInv, PTL

\* core1_worker reads once per round.
THEOREM WorkerReadsOnce == Spec => []OneReadPerRound
<1>1. IInv => OneReadPerRound
  BY DEF IInv, TypeOK, RestInv, RaceInv, ScoreInv, Pending, OneReadPerRound,
         BeforeRounds, Resting
<1> QED
  BY <1>1, AlwaysIInv, PTL

\* core1_worker is never in the middle of a read while core 0 accounts.
THEOREM ReadsStayInside == Spec => []ReadsInsideRounds
<1>1. IInv => ReadsInsideRounds
  BY DEF IInv, TypeOK, RestInv, ScoreInv, ReadsInsideRounds, BeforeRounds, Resting
<1> QED
  BY <1>1, AlwaysIInv, PTL

-------------------------------------------------------------------------------
(***************************************************************************)
(* What FinishesUnlessStopMissed rests on: steps run out, and core 0 has   *)
(* to wait for nothing else.                                               *)
(***************************************************************************)

\* Steps of each core that are left in its round, at most.
Left0 == CASE c0 = "setup"  -> 3
           [] c0 = "sram"   -> 2
           [] c0 = "psram"  -> 1
           [] c0 = "signal" -> 7
           [] c0 = "read"   -> 6
           [] c0 = "wait"   -> 5
           [] c0 = "stop"   -> 4
           [] c0 = "compare" -> 3
           [] c0 = "take"   -> 2
           [] c0 = "score"  -> 1
           [] OTHER -> 0
Left1 == CASE c1 = "publish" -> 5
           [] c1 = "answer"  -> 4
           [] c1 = "drain"   -> 3
           [] c1 = "read"    -> 1
           [] OTHER -> 2

\* And in the rounds to come: eight of core 0 and five of the worker in each.
AllLeft0 == 8 * (Rounds - round) + Left0
AllLeft1 == 5 * (Rounds - answered) + Left1
Left == AllLeft0 + AllLeft1

\* Less of one and no more of the other is less in all.
LEMMA LessInAll ==
  \A a, b, c, d \in Nat : (a < b /\ c <= d) \/ (a = b /\ c < d) => a + c < b + d
  OBVIOUS

\* What is left is a number of steps.
LEMMA LeftCounts == IInv => AllLeft0 \in Nat /\ AllLeft1 \in Nat
<1> SUFFICES ASSUME IInv PROVE AllLeft0 \in Nat /\ AllLeft1 \in Nat
  OBVIOUS
<1>1. Left0 \in 0..7 /\ Left1 \in 0..5
  BY DEF Left0, Left1
<1>2. Rounds - round \in Nat /\ Rounds - answered \in Nat
  BY RaceAssumption DEF RaceAssumption, IInv, TypeOK
<1> QED
  BY <1>1, <1>2 DEF AllLeft0, AllLeft1

\* The two cores cannot go on for ever, signalling and polling: whatever either
\* does leaves fewer steps, so that run_hedged_read_benchmark ends or stands still.
THEOREM StepsRunOut == Spec => [](Left \in Nat) /\ [][Left' < Left]_vars
<1>1. IInv /\ IInv' /\ [Next]_vars => [Left' < Left]_vars
  <2> SUFFICES ASSUME IInv, IInv', Next PROVE Left' < Left
    OBVIOUS
  <2>1. AllLeft0 \in Nat /\ AllLeft1 \in Nat
    BY LeftCounts
  <2>2. AllLeft0' \in Nat /\ AllLeft1' \in Nat
    <3>1. Left0' \in 0..7 /\ Left1' \in 0..5
      BY DEF Left0, Left1
    <3>2. \A r \in 0..Rounds, k \in 0..7 :
            8 * (Rounds - r) + k \in Nat /\ 5 * (Rounds - r) + k \in Nat
      BY RaceAssumption DEF RaceAssumption
    <3>3. round' \in 0..Rounds /\ answered' \in 0..Rounds
      BY DEF IInv, TypeOK
    <3> QED
      BY <3>1, <3>2, <3>3 DEF AllLeft0, AllLeft1
  <2>3. CASE Core0
    <3>1. AllLeft0' < AllLeft0
      BY <2>3, RaceAssumption
      DEF RaceAssumption, IInv, TypeOK, RestInv, AllLeft0, Left0, Core0, Step0, Setup, RunSramBenchmark,
          RunPsramBenchmark, ResetDone, SignalCore1, ReadCore0, WaitCore1, StopRace,
          Compare, TakeCore1, Account
    <3>2. AllLeft1' <= AllLeft1
      BY <2>3, RaceAssumption
      DEF RaceAssumption, IInv, TypeOK, RestInv, BeforeRounds, Resting, AllLeft1, Left1, Core0, Step0, Setup,
          RunSramBenchmark, RunPsramBenchmark, ResetDone, SignalCore1, ReadCore0, WaitCore1,
          StopRace, Compare, TakeCore1, Account
    <3> QED
      BY <2>1, <2>2, <3>1, <3>2, LessInAll DEF Left
  <2>4. CASE Core1
    <3>1. AllLeft0' = AllLeft0
      BY <2>4 DEF AllLeft0, Left0, Core1, AwaitStart, ReadCore1, PublishLatency, PublishDone, AwaitStop
    <3>2. AllLeft1' < AllLeft1
      <4>1. CASE AwaitStart \/ PublishLatency \/ PublishDone \/ AwaitStop
        BY <4>1, RaceAssumption
        DEF RaceAssumption, IInv, TypeOK, AllLeft1, Left1, Step1, AwaitStart, PublishLatency, PublishDone, AwaitStop
      <4>2. CASE ReadCore1
        <5>1. answered < round /\ c1 = "read"
          BY <4>2 DEF ReadCore1, Step1, IInv, TypeOK, RestInv, RaceInv, ScoreInv, Pending,
                      BeforeRounds, Resting
        <5>2. answered' = round /\ c1' = "publish"
          BY <4>2 DEF ReadCore1, Step1
        <5>3. Left1 = 1 /\ Left1' = 5
          BY <5>1, <5>2 DEF Left1
        <5> QED
          BY <5>1, <5>2, <5>3, RaceAssumption DEF AllLeft1, RaceAssumption, IInv, TypeOK
      <4> QED
        BY <2>4, <4>1, <4>2 DEF Core1
    <3> QED
      BY <2>1, <2>2, <3>1, <3>2, LessInAll DEF Left
  <2> QED
    BY <2>3, <2>4 DEF Next
<1>2. IInv => Left \in Nat
  BY LeftCounts DEF Left
<1> QED
  BY <1>1, <1>2, AlwaysIInv, PTL DEF Spec

\* The worker has a step to take.
WorkerProceeds == c1 \in {"read", "publish", "answer"} \/ (c1 = "idle" /\ start_race)

\* Core 0 has nothing to wait for but race_done, and waits in vain only if the
\* worker is missing or has missed the stop of the round before.
THEOREM NoOtherHang ==
  Spec => [](c0 = "wait" /\ ~race_done => WorkerProceeds \/ MissedStop \/ c1 = "absent")
<1>1. IInv => (c0 = "wait" /\ ~race_done => WorkerProceeds \/ MissedStop \/ c1 = "absent")
  BY DEF IInv, TypeOK, StartInv, RaceInv, Pending, Answered, WorkerProceeds, MissedStop
<1> QED
  BY <1>1, AlwaysIInv, PTL
===============================================================================
