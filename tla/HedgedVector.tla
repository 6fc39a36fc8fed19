----------------------------- MODULE HedgedVector -----------------------------
(***************************************************************************)
(* What HedgedReader promises its client: a vector that only grows, and    *)
(* one read per worker.  A worker that reads an element that was inserted  *)
(* gets that element, whichever replica it reads; a worker that reads past *)
(* the end gets some value.  Replicas, channels and memory do not show.    *)
(***************************************************************************)
EXTENDS Integers, Sequences

CONSTANTS
  Workers,    \* one reader thread per replica
  Values,     \* values the client inserts
  Fill,       \* what the page holds before anything is inserted
  Capacity    \* how many elements the vector can hold

VARIABLES
  vec,        \* the elements inserted so far
  seen        \* what each worker has read: <<>> before, <<index, value>> after

Init ==
  /\ vec = <<>>
  /\ seen = [w \in Workers |-> <<>>]

Insert(v) ==
  /\ Len(vec) < Capacity
  /\ vec' = Append(vec, v)
  /\ UNCHANGED seen

ValueAt(i) == IF i < Len(vec) THEN {vec[i + 1]} ELSE Values \union {Fill}

Read(w) ==
  /\ seen[w] = <<>>
  /\ \E i \in 0..(Capacity - 1) : \E v \in ValueAt(i) :
        seen' = [seen EXCEPT ![w] = <<i, v>>]
  /\ UNCHANGED vec

Next ==
  \/ \E v \in Values : Insert(v)
  \/ \E w \in Workers : Read(w)

Spec == Init /\ [][Next]_<<vec, seen>>
===============================================================================
