------------------------------- MODULE FifoCores -------------------------------
(***************************************************************************)
(* How the cores of the machine are shared among the threads of a program. *)
(* Run as its headers say, under "chrt -f 99", every thread of a program   *)
(* has the same real-time priority: each core keeps a first-in first-out   *)
(* queue whose head runs until it blocks, ends or moves to another core,   *)
(* spinning or not.  A thread begins with the affinity of its creator and  *)
(* narrows it with pin_to_core.  Without chrt the threads take turns, and  *)
(* where they are does not matter: queues and masks are not kept.          *)
(*                                                                         *)
(* Only the head of a queue calls the operators below.                     *)
(***************************************************************************)
EXTENDS Naturals, Sequences

CONSTANTS
  CORE_MAIN,       \* the core the main thread is pinned to
  Machines         \* the sets of cores the process may be given

Cores == UNION Machines

ASSUME CoresAssumption == \A m \in Machines : m \subseteq Nat /\ m # {}

VARIABLES
  shared,          \* the threads take turns: no real-time policy
  machine,         \* the cores the process has
  mask,            \* mask[t]: the cores thread t may run on
  queue            \* queue[c]: runnable threads on core c, the running one first

sched == <<shared, machine, mask, queue>>

\* What pin_to_core(CORE_MAIN) leaves the main thread with, and the same when
\* the call is forgotten.
MainMaskUnpinned == machine
MainMask == IF CORE_MAIN \in machine THEN {CORE_MAIN} ELSE machine

\* The main thread, alone and pinned; the threads of `others' do not exist yet.
CoresInit(main_thread, others) ==
  /\ shared \in BOOLEAN
  /\ machine \in IF shared THEN {Cores} ELSE Machines
  /\ mask = [t \in {main_thread} \union others |->
               IF t = main_thread THEN MainMask ELSE {}]
  /\ \E c \in MainMask :
       queue = [d \in Cores |-> IF d = c /\ ~shared THEN <<main_thread>> ELSE <<>>]

RunsOn(t, c) == queue[c] # <<>> /\ Head(queue[c]) = t
Runs(t) == shared \/ \E c \in Cores : RunsOn(t, c)
Queued(t) == \E c \in Cores : \E k \in 1..Len(queue[c]) : queue[c][k] = t

\* The queues without t, which runs; and with t behind the threads of core c.
WithoutRunning(t) == [c \in Cores |-> IF RunsOn(t, c) THEN Tail(queue[c]) ELSE queue[c]]
Behind(q, t, c) == [q EXCEPT ![c] = Append(@, t)]

\* The kernel puts a thread on an idle core it may use, if there is one.
Place(t, allowed) ==
  \E c \in allowed :
    /\ queue[c] = <<>> \/ \A d \in allowed : queue[d] # <<>>
    /\ queue' = Behind(queue, t, c)

\* by creates t.
Creates(by, t) ==
  /\ IF shared THEN UNCHANGED <<mask, queue>>
     ELSE mask' = [mask EXCEPT ![t] = mask[by]] /\ Place(t, mask[by])
  /\ UNCHANGED <<shared, machine>>

\* t blocks or ends; t is woken.
Leaves(t) ==
  /\ queue' = WithoutRunning(t)
  /\ UNCHANGED <<shared, machine, mask>>

Wakes(t) ==
  /\ ~shared /\ ~Queued(t)
  /\ Place(t, mask[t])
  /\ UNCHANGED <<shared, machine, mask>>

\* sched_setaffinity: on success t goes to the end of core's queue, unless it is
\* there; a core that the process does not have changes nothing.
pin_to_core(t, core) ==
  /\ IF ~shared /\ core \in machine
     THEN /\ mask' = [mask EXCEPT ![t] = {core}]
          /\ queue' = IF RunsOn(t, core) THEN queue
                      ELSE Behind(WithoutRunning(t), t, core)
     ELSE UNCHANGED <<mask, queue>>
  /\ UNCHANGED <<shared, machine>>

\* An idle core pulls a thread that waits elsewhere and may run on it.
Pull ==
  /\ \E c, d \in Cores : \E k \in 2..Len(queue[c]) :
       /\ queue[d] = <<>> /\ d \in mask[queue[c][k]]
       /\ queue' = [queue EXCEPT ![c] = SubSeq(@, 1, k - 1) \o SubSeq(@, k + 1, Len(@)),
                                 ![d] = <<queue[c][k]>>]
  /\ UNCHANGED <<shared, machine, mask>>
===============================================================================
