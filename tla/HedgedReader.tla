----------------------------- MODULE HedgedReader -----------------------------
(***************************************************************************)
(* The life of one HedgedReader object                                     *)
(* (include/tailslayer/hedged_reader.hpp): the client's thread constructs  *)
(* it, inserts, starts the workers and destroys it; one worker thread per  *)
(* replica waits for its signal and reads one element.  Insert stores the  *)
(* replicas one at a time, so workers interleave with it.                  *)
(*                                                                         *)
(* T is a machine word: one store or load of it is one step.  A worker     *)
(* that reads a location while the client stores to it sees the old or the *)
(* new value.                                                              *)
(***************************************************************************)
EXTENDS HedgedLayout, Sequences

CONSTANTS
  Values,          \* values the client inserts
  Fill             \* the T that memset leaves in the page (0x42 bytes)

ASSUME LayoutAssumption ==
  /\ ChannelOffset \in Nat \ {0} /\ SizeofT \in Nat \ {0}
  /\ NumChannels \in Nat \ {0} /\ N \in Nat \ {0} /\ SuperpageSize \in Nat
  /\ ConstructorAsserts
  /\ ChunkDecodes

VARIABLES
  phase,           \* what the client's thread is doing; see Phases
  replica_page,    \* "null", "mapped" or "unmapped"
  mem,             \* the page: value of the T that starts at each byte offset
  logical_index,   \* logical_index_
  value,           \* the element being inserted
  i,               \* loop counter of insert, start_workers or the destructor
  thread,          \* thread[w]: workers_[w] is "empty", "joinable" or "joined"
  worker,          \* worker[w]: where the thread is in worker_func
  read_index,      \* read_index[w]: what wait_work returned
  result           \* result[w]: what final_work was given

client == <<phase, replica_page, logical_index, value, i, thread>>
vars == <<phase, replica_page, mem, logical_index, value, i, thread,
          worker, read_index, result>>

Workers == Replicas
Contents == Values \union {Fill}
Dead == {"aborted", "terminated", "crashed"}
Phases == {"constructing", "idle", "inserting", "starting", "joining",
           "destroyed"} \union Dead

Init ==
  /\ phase = "constructing"
  /\ replica_page = "null"
  /\ mem = [a \in 0..(SuperpageSize - 1) |-> Fill]
  /\ logical_index = 0
  /\ value = Fill
  /\ i = 0
  /\ thread = [w \in Workers |-> "empty"]
  /\ worker = [w \in Workers |-> "absent"]
  /\ read_index = [w \in Workers |-> 0]
  /\ result = [w \in Workers |-> Fill]

GoTo(from, to) ==
  /\ phase = from
  /\ phase' = to

-------------------------------------------------------------------------------
(***************************************************************************)
(* The client's thread.                                                    *)
(***************************************************************************)

\* setup_memory: mmap succeeds, memset and mlock.
ConstructMapped ==
  /\ GoTo("constructing", "idle")
  /\ replica_page' = "mapped"
  /\ UNCHANGED <<mem, logical_index, value, i, thread, worker, read_index, result>>

\* setup_memory: mmap fails; its false result is ignored by the constructor.
ConstructUnmapped ==
  /\ GoTo("constructing", "idle")
  /\ UNCHANGED <<replica_page, mem, logical_index, value, i, thread, worker,
                 read_index, result>>

\* No bounds assertion.
HasRoomUnchecked == TRUE
HasRoom == logical_index + 1 < capacity

\* insert(v): the bounds assertion, then the replica loop begins.
InsertBegin(v) ==
  /\ phase = "idle"
  /\ phase' = IF HasRoom THEN "inserting" ELSE "aborted"
  /\ value' = IF HasRoom THEN v ELSE value
  /\ i' = 0
  /\ UNCHANGED <<replica_page, mem, logical_index, thread, worker, read_index, result>>

\* One replica short, and one too many.
ReplicaCountOneShort == N - 1
ReplicaCountOneMore == N + 1
ReplicaCount == N

\* One iteration of the replica loop.  Without a page the store faults.
InsertStore ==
  /\ phase = "inserting"
  /\ i < ReplicaCount
  /\ IF replica_page = "mapped"
     THEN /\ mem' = [mem EXCEPT ![Address(i, logical_index)] = value]
          /\ i' = i + 1
          /\ UNCHANGED phase
     ELSE /\ phase' = "crashed"
          /\ UNCHANGED <<mem, i>>
  /\ UNCHANGED <<replica_page, logical_index, value, thread, worker, read_index, result>>

InsertEnd ==
  /\ GoTo("inserting", "idle")
  /\ i = ReplicaCount
  /\ logical_index' = logical_index + 1
  /\ UNCHANGED <<replica_page, mem, value, i, thread, worker, read_index, result>>

StartWorkers ==
  /\ GoTo("idle", "starting")
  /\ i' = 0
  /\ UNCHANGED <<replica_page, mem, logical_index, value, thread, worker,
                 read_index, result>>

\* Assigning over a joinable thread terminates, even one that has returned.
AssignableOnceReturned(w) == worker[w] \in {"absent", "done"}
Assignable(w) == thread[w] # "joinable"

\* workers_[i] = std::thread(&HedgedReader::worker_func, this, i).  The thread
\* made for an assignment that terminates is left out: it ends with the process.
StartWorker ==
  /\ phase = "starting"
  /\ i < N
  /\ IF Assignable(i)
     THEN /\ thread' = [thread EXCEPT ![i] = "joinable"]
          /\ worker' = [worker EXCEPT ![i] = "waiting"]
          /\ i' = i + 1
          /\ UNCHANGED phase
     ELSE /\ phase' = "terminated"
          /\ UNCHANGED <<i, thread, worker>>
  /\ UNCHANGED <<replica_page, mem, logical_index, value, read_index, result>>

\* std::thread's constructor throws: start_workers is left without its sleep, the
\* workers before this one run, and the client catches the exception or dies.
StartThrows ==
  /\ phase = "starting"
  /\ i < N
  /\ phase' \in {"idle", "terminated"}
  /\ UNCHANGED <<replica_page, mem, logical_index, value, i, thread, worker,
                 read_index, result>>

\* The loop is over and usleep returns; how far the workers got is not known.
StartReturn ==
  /\ GoTo("starting", "idle")
  /\ i = N
  /\ UNCHANGED <<replica_page, mem, logical_index, value, i, thread, worker,
                 read_index, result>>

Destroy ==
  /\ GoTo("idle", "joining")
  /\ i' = 0
  /\ UNCHANGED <<replica_page, mem, logical_index, value, thread, worker,
                 read_index, result>>

\* The destructor does not wait (detach); it waits for threads never started.
JoinReadyAnyState(w) == TRUE
JoinReadyNotJoinable(w) == worker[w] = "done"
JoinReady(w) == thread[w] = "joinable" => worker[w] = "done"

\* if (t.joinable()) t.join(): blocks until the worker has returned.
Join ==
  /\ phase = "joining"
  /\ i < N
  /\ JoinReady(i)
  /\ thread' = [thread EXCEPT ![i] = IF @ = "joinable" THEN "joined" ELSE @]
  /\ i' = i + 1
  /\ UNCHANGED <<phase, replica_page, mem, logical_index, value, worker,
                 read_index, result>>

Unmap ==
  /\ GoTo("joining", "destroyed")
  /\ i = N
  /\ replica_page' = IF replica_page = "mapped" THEN "unmapped" ELSE replica_page
  /\ UNCHANGED <<mem, logical_index, value, i, thread, worker, read_index, result>>

-------------------------------------------------------------------------------
(***************************************************************************)
(* A worker: wait_work is the client's and returns an index of the vector, *)
(* inserted or not; then the read, whose value goes to final_work.         *)
(***************************************************************************)

WaitWork(w) ==
  /\ phase \notin Dead
  /\ worker[w] = "waiting"
  /\ \E idx \in Indices : read_index' = [read_index EXCEPT ![w] = idx]
  /\ worker' = [worker EXCEPT ![w] = "reading"]
  /\ UNCHANGED <<client, mem, result>>

FinalWork(w) ==
  /\ phase \notin Dead
  /\ worker[w] = "reading"
  /\ IF replica_page = "mapped"
     THEN /\ result' = [result EXCEPT ![w] = mem[Address(w, read_index[w])]]
          /\ worker' = [worker EXCEPT ![w] = "done"]
          /\ UNCHANGED phase
     ELSE /\ phase' = "crashed"
          /\ UNCHANGED <<result, worker>>
  /\ UNCHANGED <<replica_page, mem, logical_index, value, i, thread, read_index>>

-------------------------------------------------------------------------------
Client ==
  \/ ConstructMapped \/ ConstructUnmapped
  \/ \E v \in Values : InsertBegin(v)
  \/ InsertStore \/ InsertEnd
  \/ StartWorkers \/ StartWorker \/ StartThrows \/ StartReturn
  \/ Destroy \/ Join \/ Unmap

Worker(w) == WaitWork(w) \/ FinalWork(w)

Next == Client \/ (\E w \in Workers : Worker(w))

Spec == Init /\ [][Next]_vars

-------------------------------------------------------------------------------
(***************************************************************************)
(* Properties.                                                             *)
(***************************************************************************)

TypeOK ==
  /\ phase \in Phases
  /\ replica_page \in {"null", "mapped", "unmapped"}
  /\ mem \in [0..(SuperpageSize - 1) -> Contents]
  /\ logical_index \in Nat
  /\ value \in Contents
  /\ i \in 0..N
  /\ thread \in [Workers -> {"empty", "joinable", "joined"}]
  /\ worker \in [Workers -> {"absent", "waiting", "reading", "done"}]
  /\ read_index \in [Workers -> Nat]
  /\ result \in [Workers -> Contents]

\* Every element whose insert has returned reads the same in every replica: a
\* later insert, with its own replica loop half done, never disturbs it.
ReplicasAgree ==
  \A k \in 0..(logical_index - 1), r, s \in Replicas :
     mem[Address(r, k)] = mem[Address(s, k)]

\* The page outlives the workers: until a started worker is done its replica
\* is still mapped (the destructor joins before it unmaps).
PageOutlivesWorkers ==
  \A w \in Workers : worker[w] \in {"waiting", "reading"} => replica_page # "unmapped"

\* With the page mapped nothing the client may call makes the process fault.
\* What remains is the fault of a reader whose mmap failed.
FaultOnlyWithoutPage == phase = "crashed" => replica_page = "null"

\* Every store and every read stays inside the page: the element under
\* insertion, whose index the assertion let through, in every replica, and the
\* element a signal chose, in the replica of its worker.
WithinPage ==
  /\ phase = "inserting" =>
        \A r \in Replicas : Address(r, logical_index) + SizeofT <= SuperpageSize
  /\ \A w \in Workers : worker[w] = "reading" =>
        Address(w, read_index[w]) + SizeofT <= SuperpageSize

\* A replica is read once: a worker that finished never runs again, whatever
\* the client calls (a second start_workers dies on the joinable thread; what
\* the thread just made for it does until then is not modelled).
ReadOnce ==
  [][\A w \in Workers : worker[w] = "done" =>
        worker'[w] = "done" /\ result'[w] = result[w]]_vars

\* The destructor returns once the signals have come; it can only be cut
\* short by the fault of a reader that has no page.
DestructorReturns == (phase = "joining") ~> (phase \in {"destroyed", "crashed"})

\* An insert is refused only when it is out of bounds, which is what the
\* assertion's message says of it: "Tried to insert out of bounds".
AbortsOnlyOutOfBounds == phase = "aborted" => logical_index >= capacity

(***************************************************************************)
(* The reader implements the hedged vector: what was inserted is what      *)
(* replica 0 holds, what was seen is what final_work was given.            *)
(***************************************************************************)
Inserted == [k \in 1..logical_index |-> mem[Address(0, k - 1)]]
SeenBy(w) == IF worker[w] = "done" THEN <<read_index[w], result[w]>> ELSE <<>>

Vector == INSTANCE HedgedVector
            WITH vec <- Inserted, seen <- [w \in Workers |-> SeenBy(w)],
                 Capacity <- capacity

\* Readers of every replica see one and the same vector.
ImplementsVector == Vector!Spec
===============================================================================
