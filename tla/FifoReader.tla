------------------------------- MODULE FifoReader -------------------------------
(***************************************************************************)
(* The threads of HedgedReader on the cores of FifoCores: workers that pin *)
(* themselves to the cores of setup_replica_cores, started by a client     *)
(* that is pinned to CORE_MAIN, with real-time scheduling or without.  The *)
(* client calls what it likes, or is tailslayer_example.cpp.               *)
(***************************************************************************)
EXTENDS HedgedReader, FifoCores

CONSTANTS
  CORE_MEAS_A, CORE_MEAS_B,
  ExampleInserts,  \* what the example inserts: 0x43, 0x44
  ExampleIndex     \* the index dummy_read_signal returns

ASSUME ReaderCoresAssumption ==
  /\ CORE_MEAS_A \in Nat /\ CORE_MEAS_B \in Nat
  /\ ExampleInserts \in Seq(Values)
  /\ ExampleIndex \in Indices /\ ExampleIndex < Len(ExampleInserts)

VARIABLES
  example,         \* whether the client is the example
  pinned           \* workers that have called pin_to_core

fifo_vars == <<vars, sched, example, pinned>>

ClientThread == <<"client", 0>>
WThread(w) == <<"worker", w>>

\* cores_, as setup_replica_cores fills it: with one channel it leaves cores_[1]
\* at 0.
cores_(w) ==
  CASE w = 0                    -> CORE_MEAS_A
    [] w = 1 /\ NumChannels = 1 -> 0
    [] OTHER                    -> CORE_MEAS_B + w - 1

FifoInit ==
  /\ Init
  /\ example \in BOOLEAN
  /\ pinned = {}
  /\ CoresInit(ClientThread, {WThread(w) : w \in Workers})

-------------------------------------------------------------------------------
(***************************************************************************)
(* The client.                                                             *)
(***************************************************************************)

\* The example's main: construct, insert twice, start_workers, destroy.  It has
\* no handler for an exception of start_workers.
ExampleInserting(v) ==
  logical_index < Len(ExampleInserts) /\ v = ExampleInserts[logical_index + 1]
ExampleStarting ==
  logical_index = Len(ExampleInserts) /\ \A w \in Workers : thread[w] = "empty"
ExampleDestroying == \A w \in Workers : thread[w] = "joinable"

\* start_workers returns without its sleep.
NoRest == UNCHANGED sched

\* usleep(10000).
Rest == IF shared THEN UNCHANGED sched ELSE Leaves(ClientThread)

ClientKeepsCore ==
  /\ \/ ConstructMapped \/ ConstructUnmapped
     \/ \E v \in Values : (example => ExampleInserting(v)) /\ InsertBegin(v)
     \/ InsertStore \/ InsertEnd
     \/ (example => ExampleStarting) /\ StartWorkers
     \/ StartThrows /\ (example => phase' = "terminated")
     \/ (example => ExampleDestroying) /\ Destroy
     \/ Join \/ Unmap
  /\ UNCHANGED sched

\* A worker that cannot be started ends the program, one that can is created.
ClientStarts ==
  /\ StartWorker
  /\ IF Assignable(i) THEN Creates(ClientThread, WThread(i)) ELSE UNCHANGED sched

ClientStep == ClientKeepsCore \/ ClientStarts \/ (StartReturn /\ Rest)

ClientOnCore == Runs(ClientThread) /\ ClientStep /\ UNCHANGED <<example, pinned>>

Waiting == phase = "joining" /\ i < N /\ ~JoinReady(i)

ClientBlocks ==
  /\ ~shared /\ Runs(ClientThread)
  /\ Waiting
  /\ Leaves(ClientThread)
  /\ UNCHANGED <<vars, example, pinned>>

\* The sleep is over, or the worker that the destructor joins.
ClientWakes ==
  /\ phase \notin Dead /\ ~Waiting
  /\ Wakes(ClientThread)
  /\ UNCHANGED <<vars, example, pinned>>

-------------------------------------------------------------------------------
(***************************************************************************)
(* The workers.                                                            *)
(***************************************************************************)

\* worker_func's first call; a failure is not looked at.
PinWorker(w) ==
  /\ phase \notin Dead
  /\ worker[w] = "waiting" /\ w \notin pinned
  /\ pin_to_core(WThread(w), cores_(w))
  /\ pinned' = pinned \union {w}
  /\ UNCHANGED <<vars, example>>

\* The signal comes by itself, and spinning for it takes no step.
WorkerWaits(w) ==
  /\ w \in pinned
  /\ WaitWork(w)
  /\ example => read_index'[w] = ExampleIndex
  /\ UNCHANGED <<sched, example, pinned>>

WorkerEnds(w) ==
  /\ FinalWork(w)
  /\ IF shared THEN UNCHANGED sched ELSE Leaves(WThread(w))
  /\ UNCHANGED <<example, pinned>>

WorkerOnCore(w) ==
  Runs(WThread(w)) /\ (PinWorker(w) \/ WorkerWaits(w) \/ WorkerEnds(w))

Balance == phase \notin Dead /\ Pull /\ UNCHANGED <<vars, example, pinned>>

FifoNext ==
  \/ ClientOnCore \/ ClientBlocks \/ ClientWakes \/ Balance
  \/ \E w \in Workers : WorkerOnCore(w)

FifoSpec == FifoInit /\ [][FifoNext]_fifo_vars

(***************************************************************************)
(* A thread at the head of its queue runs, timers expire, idle cores look  *)
(* for work, and the signal of every worker comes.  The client goes on     *)
(* with the call that it has begun, and whether it makes another is its    *)
(* own choice, so that it may keep its core and do nothing with it.        *)
(***************************************************************************)
FairFifoSpec ==
  /\ FifoSpec
  /\ WF_fifo_vars(ClientOnCore /\ phase \in {"inserting", "starting", "joining"})
  /\ WF_fifo_vars(ClientBlocks \/ ClientWakes)
  /\ WF_fifo_vars(Balance)
  /\ \A w \in Workers : WF_fifo_vars(WorkerOnCore(w))

-------------------------------------------------------------------------------
(***************************************************************************)
(* Properties.                                                             *)
(***************************************************************************)

\* Every worker gets its core, its signal and its read, even if the client goes
\* on without ever blocking again: where threads take turns, and with real-time
\* scheduling if the client is pinned to its core and start_workers has started
\* them all, so that it sleeps.  ("If you don't do this, it freezes because the
\* workers can't get to their cores": the sleep of 10 ms is enough however
\* short, for the workers are queued before the client wakes.)
StartedWorkersFinish ==
  \A w \in Workers :
    /\ worker[w] \in {"waiting", "reading"}
    /\ \/ shared
       \/ CORE_MAIN \in machine /\ \A u \in Workers : thread[u] # "empty"
    ~> (worker[w] = "done" \/ phase \in Dead)

\* The example does what its comment says, "reading the second value 0x44":
\* every worker, whichever replica it reads, is given the second value.
ExampleReadsSecond ==
  example => \A w \in Workers :
    worker[w] = "done" => result[w] = ExampleInserts[ExampleIndex + 1]
===============================================================================
