-------------------------- MODULE HedgedReaderProofs ---------------------------
(***************************************************************************)
(* Proofs about the HedgedReader, for any number of replicas and channels, *)
(* any page and element size that LayoutAssumption admits: types, memory   *)
(* safety, that the replicas agree, and that the reader, with and without  *)
(* cores, implements HedgedVector.                                         *)
(***************************************************************************)
EXTENDS FifoReader, SequenceTheorems, TLAPS

-------------------------------------------------------------------------------
(***************************************************************************)
(* The address arithmetic, from HedgedLayoutProofs: the walk's variables   *)
(* are this reader's constructor and template arguments.                   *)
(***************************************************************************)
Layout == INSTANCE HedgedLayoutProofs
            WITH offset <- ChannelOffset, bit <- ChannelBit, channels <- NumChannels,
                 n <- N, size <- SizeofT, PageSize <- SuperpageSize, index <- 0,
                 Offsets <- {}, Bits <- {}, Channels <- {}, ReplicaCounts <- {},
                 Sizes <- {}, ChunksArePowersOfTwo <- TRUE

\* The arithmetic of the walk is the reader's.
LEMMA SameBitAnd ==
  ASSUME NEW x, NEW y
  PROVE  Layout!L!BitAnd(x, y) = BitAnd(x, y)
<1> DEFINE Bits == {2^k : k \in {b \in AddressBits : Bit(x, b) = 1 /\ Bit(y, b) = 1}}
<1>1. ASSUME NEW S PROVE Layout!L!SumSet(S) = SumSet(S)
  BY Zenon DEF SumSet, Layout!L!SumSet, FoldSet, Layout!L!FoldSet,
               MapThenFoldSet, Layout!L!MapThenFoldSet
<1>2. BitAnd(x, y) = SumSet(Bits)
  BY DEF BitAnd
<1>3. Layout!L!BitAnd(x, y) = Layout!L!SumSet(Bits)
  BY DEF Layout!L!BitAnd, Layout!L!AddressBits, AddressBits, Bit, Layout!L!Bit
<1> QED
  BY <1>1, <1>2, <1>3

LEMMA SameLayout ==
  /\ Layout!L!elements_per_chunk = elements_per_chunk
  /\ Layout!L!chunk_mask = chunk_mask
  /\ Layout!L!chunk_shift = chunk_shift
  /\ Layout!L!capacity = capacity
  /\ Layout!L!Replicas = Replicas
  /\ Layout!L!Indices = Indices
<1>1. Layout!L!elements_per_chunk = elements_per_chunk
  BY DEF Layout!L!elements_per_chunk, elements_per_chunk
<1>2. Layout!L!chunk_mask = chunk_mask /\ Layout!L!chunk_shift = chunk_shift
  BY <1>1 DEF Layout!L!chunk_mask, chunk_mask, Layout!L!chunk_shift, chunk_shift,
              Layout!L!CountTrailingZeros, CountTrailingZeros
<1>3. Layout!L!capacity = capacity
  BY <1>1 DEF Layout!L!capacity, capacity, Layout!L!max_strides, max_strides,
              Layout!L!stride_bytes, stride_bytes
<1> QED
  BY <1>1, <1>2, <1>3 DEF Layout!L!Replicas, Replicas, Layout!L!Indices, Indices

LEMMA SameAddress ==
  ASSUME NEW r, NEW k
  PROVE  Layout!L!Address(r, k) = Address(r, k)
<1>1. Layout!L!ElementOffset(k) = ElementOffset(k)
  BY SameBitAnd, SameLayout
     DEF Layout!L!ElementOffset, ElementOffset, Layout!L!stride_in_elements, stride_in_elements
<1> QED
  BY <1>1 DEF Layout!L!Address, Address, Layout!L!ReplicaBase, ReplicaBase

LEMMA LayoutArguments == Layout!ArgumentsAssumption
  BY LayoutAssumption DEF LayoutAssumption, Layout!ArgumentsAssumption

LEMMA LayoutIsGood == Layout!GoodLayout
<1>1. Layout!L!ChunkDecodes
  BY LayoutAssumption, SameLayout, SameBitAnd
     DEF LayoutAssumption, Layout!L!ChunkDecodes, ChunkDecodes
<1>2. Layout!L!ConstructorAsserts
  BY LayoutAssumption DEF LayoutAssumption, Layout!L!ConstructorAsserts, ConstructorAsserts
<1> QED
  BY <1>1, <1>2, LayoutAssumption DEF LayoutAssumption, Layout!GoodLayout

\* The constructor's arguments and the capacity it computes.
LEMMA LayoutFacts ==
  /\ SizeofT \in Nat \ {0} /\ NumChannels \in Nat \ {0} /\ N \in Nat \ {0}
  /\ SuperpageSize \in Nat
  /\ N <= NumChannels
  /\ capacity \in Nat
<1>1. capacity \in Nat
  BY LayoutArguments, LayoutIsGood, Layout!LayoutFacts, SameLayout
<1> QED
  BY <1>1, LayoutAssumption DEF LayoutAssumption, ConstructorAsserts

\* Every replica of every element is inside the page: no store of insert and no
\* read of worker_func leaves it.
THEOREM AddressInPage ==
  ASSUME NEW r \in Replicas, NEW k \in Indices
  PROVE  /\ Address(r, k) \in 0..(SuperpageSize - 1)
         /\ Address(r, k) + SizeofT <= SuperpageSize
  BY LayoutArguments, LayoutIsGood, SameLayout, SameAddress, Layout!AddressInPage

\* Two replicas of two elements never coincide, nor do two replicas of one:
\* "we have to keep accounting for making sure we're on different channels".
THEOREM AddressInjective ==
  ASSUME NEW r \in Replicas, NEW s \in Replicas, NEW k \in Indices, NEW j \in Indices,
         Address(r, k) = Address(s, j)
  PROVE  r = s /\ k = j
  BY LayoutArguments, LayoutIsGood, SameLayout, SameAddress, Layout!AddressInjective

-------------------------------------------------------------------------------
(***************************************************************************)
(* The life of a reader: the inductive invariant.                          *)
(***************************************************************************)

Live(w) == worker[w] \in {"waiting", "reading"}

\* The vector stays inside its capacity, with room for the element under way.
IndexInv ==
  /\ logical_index <= capacity
  /\ phase = "inserting" => logical_index + 1 < capacity

\* Only an index of the vector is ever read.
ReadInv == \A w \in Workers : worker[w] = "reading" => read_index[w] \in Indices

\* A worker that runs is joinable, so the destructor waits for it; joined ones
\* exist only once the destructor has begun.
ThreadInv ==
  \A w \in Workers :
    /\ Live(w) => thread[w] = "joinable"
    /\ worker[w] = "done" => thread[w] # "empty"
    /\ thread[w] = "joined" => worker[w] = "done" /\ phase \in {"joining", "destroyed"} \union Dead
    /\ phase = "joining" /\ w < i => thread[w] # "joinable"

\* Before the constructor returns there is nothing; the page is unmapped last.
PageInv ==
  /\ phase = "constructing" => \A w \in Workers : worker[w] = "absent"
  /\ phase = "destroyed" => \A w \in Workers : ~Live(w)
  /\ replica_page = "unmapped" => phase = "destroyed"
  /\ phase = "crashed" => replica_page = "null"

IInv == TypeOK /\ IndexInv /\ ReadInv /\ ThreadInv /\ PageInv

-------------------------------------------------------------------------------
\* The constructor's call begins in the invariant.
LEMMA InitIInv == Init => IInv
<1> SUFFICES ASSUME Init PROVE IInv
  OBVIOUS
<1>1. N \in Nat \ {0} /\ capacity \in Nat
  BY LayoutFacts
<1>2. TypeOK
  BY <1>1 DEF Init, TypeOK, Phases, Dead, Contents, Workers
<1>3. IndexInv
  BY <1>1 DEF Init, IndexInv
<1>4. ReadInv /\ ThreadInv /\ PageInv
  BY DEF Init, ReadInv, ThreadInv, PageInv, Live
<1> QED
  BY <1>2, <1>3, <1>4 DEF IInv

\* No step of the client or of a worker leaves the invariant.
LEMMA StepIInv == IInv /\ [Next]_vars => IInv'
<1> SUFFICES ASSUME IInv, [Next]_vars PROVE IInv'
  OBVIOUS
<1> USE DEF IInv, GoTo
<1>0. N \in Nat \ {0} /\ capacity \in Nat /\ Workers = 0..(N - 1)
  BY LayoutFacts DEF Workers, Replicas
<1>1. CASE ConstructMapped
  BY <1>0, <1>1
  DEF ConstructMapped, TypeOK, IndexInv, ReadInv, ThreadInv, PageInv, Live, Phases, Dead
<1>2. CASE ConstructUnmapped
  BY <1>0, <1>2
  DEF ConstructUnmapped, TypeOK, IndexInv, ReadInv, ThreadInv, PageInv, Live, Phases, Dead
<1>3. ASSUME NEW v \in Values, InsertBegin(v) PROVE IInv'
  BY <1>0, <1>3
  DEF InsertBegin, HasRoom, TypeOK, IndexInv, ReadInv, ThreadInv, PageInv, Live, Phases,
      Dead, Contents
<1>4. CASE InsertStore
  BY <1>0, <1>4
  DEF InsertStore, ReplicaCount, TypeOK, IndexInv, ReadInv, ThreadInv, PageInv, Live,
      Phases, Dead, Contents
<1>5. CASE InsertEnd
  BY <1>0, <1>5
  DEF InsertEnd, TypeOK, IndexInv, ReadInv, ThreadInv, PageInv, Live, Phases, Dead
<1>6. CASE StartWorkers
  BY <1>0, <1>6
  DEF StartWorkers, TypeOK, IndexInv, ReadInv, ThreadInv, PageInv, Live, Phases, Dead
<1>7. CASE StartWorker
  <2>1. i \in Workers /\ i + 1 \in 0..N
    BY <1>0, <1>7 DEF StartWorker, TypeOK
  <2>2. CASE Assignable(i)
    <3>1. TypeOK'
      BY <1>7, <2>1, <2>2 DEF StartWorker, TypeOK
    <3>2. ThreadInv'
      BY <1>7, <2>1, <2>2 DEF StartWorker, TypeOK, ThreadInv, Live, Dead
    <3>3. IndexInv' /\ ReadInv' /\ PageInv'
      BY <1>7, <2>1, <2>2 DEF StartWorker, TypeOK, IndexInv, ReadInv, PageInv, Live
    <3> QED
      BY <3>1, <3>2, <3>3
  <2>3. CASE ~Assignable(i)
    BY <1>7, <2>3
    DEF StartWorker, TypeOK, IndexInv, ReadInv, ThreadInv, PageInv, Live, Phases, Dead
  <2> QED
    BY <2>2, <2>3
<1>8. CASE StartReturn
  BY <1>0, <1>8
  DEF StartReturn, TypeOK, IndexInv, ReadInv, ThreadInv, PageInv, Live, Phases, Dead
<1>9. CASE Destroy
  BY <1>0, <1>9
  DEF Destroy, TypeOK, IndexInv, ReadInv, ThreadInv, PageInv, Live, Phases, Dead
<1>10. CASE Join
  BY <1>0, <1>10
  DEF Join, JoinReady, TypeOK, IndexInv, ReadInv, ThreadInv, PageInv, Live, Phases, Dead
<1>11. CASE Unmap
  BY <1>0, <1>11
  DEF Unmap, TypeOK, IndexInv, ReadInv, ThreadInv, PageInv, Live, Phases, Dead
<1>12. ASSUME NEW w \in Workers, WaitWork(w) PROVE IInv'
  BY <1>0, <1>12
  DEF WaitWork, client, TypeOK, IndexInv, ReadInv, ThreadInv, PageInv, Live, Phases, Dead, Indices
<1>13. ASSUME NEW w \in Workers, FinalWork(w) PROVE IInv'
  <2>1. Address(w, read_index[w]) \in 0..(SuperpageSize - 1)
    BY <1>13, AddressInPage DEF FinalWork, ReadInv, Workers
  <2> QED
    BY <1>0, <1>13, <2>1
    DEF FinalWork, TypeOK, IndexInv, ReadInv, ThreadInv, PageInv, Live, Phases, Dead
<1>14. CASE StartThrows
  BY <1>0, <1>14
  DEF StartThrows, TypeOK, IndexInv, ReadInv, ThreadInv, PageInv, Live, Phases, Dead
<1>15. CASE UNCHANGED vars
  BY <1>15 DEF vars, TypeOK, IndexInv, ReadInv, ThreadInv, PageInv, Live
<1> QED
  BY <1>1, <1>2, <1>3, <1>4, <1>5, <1>6, <1>7, <1>8, <1>9, <1>10, <1>11, <1>12, <1>13, <1>14, <1>15
  DEF Next, Client, Worker

LEMMA AlwaysIInv == Spec => []IInv
  BY InitIInv, StepIInv, PTL DEF Spec
-------------------------------------------------------------------------------
\* Every field of HedgedReader keeps its type; in particular what a worker
\* hands to final_work is a T that was put into the page.
THEOREM TypeCorrect == Spec => []TypeOK
  BY AlwaysIInv, PTL DEF IInv

\* ~HedgedReader joins before it unmaps: no worker runs on an unmapped page.
THEOREM PageIsOutlived == Spec => []PageOutlivesWorkers
<1>1. IInv => PageOutlivesWorkers
  BY DEF IInv, PageInv, PageOutlivesWorkers, Live
<1> QED
  BY <1>1, AlwaysIInv, PTL

\* insert and worker_func fault only in a reader whose mmap failed.
THEOREM FaultsOnlyWithoutPage == Spec => []FaultOnlyWithoutPage
<1>1. IInv => FaultOnlyWithoutPage
  BY DEF IInv, PageInv, FaultOnlyWithoutPage
<1> QED
  BY <1>1, AlwaysIInv, PTL

\* insert stores, and worker_func reads, inside the page only.
THEOREM AccessesInPage == Spec => []WithinPage
<1>1. IInv => WithinPage
  <2> SUFFICES ASSUME IInv PROVE WithinPage
    OBVIOUS
  <2>1. capacity \in Nat
    BY LayoutFacts
  <2>2. ASSUME phase = "inserting", NEW r \in Replicas
        PROVE  Address(r, logical_index) + SizeofT <= SuperpageSize
    <3>1. logical_index \in Indices
      BY <2>1, <2>2 DEF IInv, TypeOK, IndexInv, Indices
    <3> QED
      BY <3>1, AddressInPage
  <2>3. ASSUME NEW w \in Workers, worker[w] = "reading"
        PROVE  Address(w, read_index[w]) + SizeofT <= SuperpageSize
    BY <2>3, AddressInPage DEF IInv, ReadInv, Workers
  <2> QED
    BY <2>2, <2>3 DEF WithinPage
<1> QED
  BY <1>1, AlwaysIInv, PTL

\* worker_func runs once per replica: what a worker has read is final.
THEOREM WorkersReadOnce == Spec => ReadOnce
<1> DEFINE Kept == \A w \in Workers : worker[w] = "done" =>
                      worker'[w] = "done" /\ result'[w] = result[w]
<1>1. IInv /\ [Next]_vars => [Kept]_vars
  <2> SUFFICES ASSUME IInv, Next PROVE Kept
    OBVIOUS
  <2>1. CASE StartWorker
    <3>1. i \in Workers
      BY <2>1, LayoutFacts DEF StartWorker, IInv, TypeOK, Workers, Replicas
    <3>2. phase = "starting"
      BY <2>1 DEF StartWorker
    <3>3. worker[i] = "done" => ~Assignable(i)
      BY <3>1, <3>2 DEF IInv, TypeOK, ThreadInv, Assignable, Dead
    <3> QED
      BY <2>1, <3>1, <3>3 DEF StartWorker, IInv, TypeOK
  <2>2. ASSUME NEW w \in Workers, WaitWork(w) PROVE Kept
    BY <2>2 DEF WaitWork, IInv, TypeOK
  <2>3. ASSUME NEW w \in Workers, FinalWork(w) PROVE Kept
    BY <2>3 DEF FinalWork, IInv, TypeOK
  <2>4. CASE Client /\ ~StartWorker
    BY <2>4
    DEF Client, ConstructMapped, ConstructUnmapped, InsertBegin, InsertStore, InsertEnd,
        StartWorkers, StartThrows, StartReturn, Destroy, Join, Unmap
  <2> QED
    BY <2>1, <2>2, <2>3, <2>4 DEF Next, Worker
<1> QED
  BY <1>1, AlwaysIInv, PTL DEF Spec, ReadOnce

-------------------------------------------------------------------------------
(***************************************************************************)
(* Agreement of the replicas.  It rests on AddressInjective: the stores of *)
(* one insert touch no element that was inserted before.                   *)
(***************************************************************************)

AgreeInv ==
  /\ \A k \in 0..(logical_index - 1), r \in Replicas : mem[Address(r, k)] = mem[Address(0, k)]
  /\ phase = "inserting" =>
       /\ value \in Values
       /\ \A r \in Replicas : r < i => mem[Address(r, logical_index)] = value

\* The indices of the elements inserted, and of the one under way.
LEMMA InsertedIndices ==
  ASSUME IInv
  PROVE  /\ 0 \in Replicas
         /\ 0..(logical_index - 1) \subseteq Indices
         /\ phase = "inserting" => logical_index \in Indices
  BY LayoutFacts DEF IInv, TypeOK, IndexInv, Indices, Replicas

\* One store of insert's loop leaves the inserted elements alone.
LEMMA StoreKeepsAgreement ==
  ASSUME IInv, AgreeInv, InsertStore, replica_page = "mapped"
  PROVE  AgreeInv'
<1>1. /\ phase = "inserting" /\ i \in Replicas /\ i \in Nat
      /\ mem' = [mem EXCEPT ![Address(i, logical_index)] = value]
      /\ i' = i + 1 /\ UNCHANGED <<phase, logical_index, value>>
  BY LayoutFacts DEF InsertStore, ReplicaCount, IInv, TypeOK, Replicas
<1>2. logical_index \in Indices /\ logical_index \in Nat
  BY <1>1, InsertedIndices DEF IInv, TypeOK
<1>3. mem \in [0..(SuperpageSize - 1) -> Contents]
  BY DEF IInv, TypeOK
<1>4. ASSUME NEW k \in 0..(logical_index - 1), NEW r \in Replicas
      PROVE  mem'[Address(r, k)] = mem[Address(r, k)]
  <2>1. k \in Indices /\ k # logical_index
    BY <1>2, InsertedIndices
  <2>2. Address(r, k) # Address(i, logical_index)
    BY <1>1, <1>2, <2>1, AddressInjective
  <2>3. Address(r, k) \in 0..(SuperpageSize - 1)
    BY <2>1, AddressInPage
  <2> QED
    BY <1>1, <1>3, <2>2, <2>3
<1>5. \A k \in 0..(logical_index - 1), r \in Replicas : mem'[Address(r, k)] = mem'[Address(0, k)]
  BY <1>4, InsertedIndices DEF AgreeInv
<1>6. ASSUME NEW r \in Replicas, r < i + 1
      PROVE  mem'[Address(r, logical_index)] = value
  <2>1. Address(r, logical_index) \in 0..(SuperpageSize - 1)
    BY <1>2, AddressInPage
  <2>2. CASE r = i
    BY <1>1, <1>3, <2>1, <2>2
  <2>3. CASE r # i
    <3>1. r < i
      BY <1>1, <1>6, <2>3, LayoutFacts DEF Replicas
    <3>2. Address(r, logical_index) # Address(i, logical_index)
      BY <1>1, <1>2, <2>3, AddressInjective
    <3>3. mem[Address(r, logical_index)] = value
      BY <1>1, <3>1 DEF AgreeInv
    <3> QED
      BY <1>1, <1>3, <2>1, <3>2, <3>3
  <2> QED
    BY <2>2, <2>3
<1>7. value' \in Values
  BY <1>1 DEF AgreeInv
<1> QED
  BY <1>1, <1>5, <1>6, <1>7 DEF AgreeInv

\* When the loop of insert is over, the new element is in all replicas.
LEMMA EndKeepsAgreement ==
  ASSUME IInv, AgreeInv, InsertEnd
  PROVE  AgreeInv'
<1>1. /\ phase = "inserting" /\ phase' = "idle" /\ i = N
      /\ logical_index' = logical_index + 1 /\ UNCHANGED mem
  BY DEF InsertEnd, GoTo, ReplicaCount
<1>2. \A r \in Replicas : mem[Address(r, logical_index)] = value
  BY <1>1, LayoutFacts DEF AgreeInv, Replicas
<1>3. ASSUME NEW k \in 0..(logical_index' - 1), NEW r \in Replicas
      PROVE  mem[Address(r, k)] = mem[Address(0, k)]
  <2>1. CASE k = logical_index
    BY <1>2, <2>1, InsertedIndices
  <2>2. CASE k # logical_index
    <3>1. k \in 0..(logical_index - 1)
      BY <1>1, <2>2 DEF IInv, TypeOK
    <3> QED
      BY <3>1 DEF AgreeInv
  <2> QED
    BY <2>1, <2>2
<1> QED
  BY <1>1, <1>3 DEF AgreeInv

\* Agreement is preserved by every step.
LEMMA StepAgree == IInv /\ AgreeInv /\ [Next]_vars => AgreeInv'
<1> SUFFICES ASSUME IInv, AgreeInv, [Next]_vars PROVE AgreeInv'
  OBVIOUS
<1>1. CASE InsertStore
  <2>1. CASE replica_page = "mapped"
    BY <1>1, <2>1, StoreKeepsAgreement
  <2>2. CASE replica_page # "mapped"
    BY <1>1, <2>2 DEF InsertStore, AgreeInv
  <2> QED
    BY <2>1, <2>2
<1>2. CASE InsertEnd
  BY <1>2, EndKeepsAgreement
<1>3. ASSUME NEW v \in Values, InsertBegin(v) PROVE AgreeInv'
  <2>1. UNCHANGED <<mem, logical_index>> /\ i' = 0
    BY <1>3 DEF InsertBegin
  <2>2. phase' = "inserting" => value' \in Values
    BY <1>3 DEF InsertBegin
  <2>3. \A r \in Replicas : ~(r < 0)
    BY LayoutFacts DEF Replicas
  <2> QED
    BY <2>1, <2>2, <2>3 DEF AgreeInv
<1>4. CASE phase' # "inserting" /\ UNCHANGED <<mem, logical_index>>
  BY <1>4 DEF AgreeInv
<1>5. CASE UNCHANGED <<phase, mem, logical_index, value, i>>
  BY <1>5 DEF AgreeInv
<1>6. CASE \E w \in Workers : Worker(w)
  BY <1>6, <1>4, <1>5 DEF Worker, WaitWork, FinalWork, client
<1>7. CASE \/ ConstructMapped \/ ConstructUnmapped \/ StartWorkers \/ StartThrows
           \/ StartReturn \/ Destroy \/ Unmap
  BY <1>7, <1>4
  DEF ConstructMapped, ConstructUnmapped, StartWorkers, StartThrows, StartReturn, Destroy,
      Unmap, GoTo
<1>8. CASE StartWorker \/ Join
  BY <1>8, <1>4 DEF StartWorker, Join
<1>9. CASE UNCHANGED vars
  BY <1>9, <1>5 DEF vars
<1> QED
  BY <1>1, <1>2, <1>3, <1>6, <1>7, <1>8, <1>9 DEF Next, Client

\* insert leaves every element with the same value in every replica, and no
\* later insert, however far its loop has got, changes that.
THEOREM ReplicasAlwaysAgree == Spec => []ReplicasAgree
<1>1. Init => AgreeInv
  BY DEF Init, AgreeInv
<1>2. Spec => [](IInv /\ AgreeInv)
  BY <1>1, InitIInv, StepIInv, StepAgree, PTL DEF Spec
<1>3. AgreeInv => ReplicasAgree
  BY DEF AgreeInv, ReplicasAgree
<1> QED
  BY <1>2, <1>3, PTL

-------------------------------------------------------------------------------
(***************************************************************************)
(* The refinement: every step of the client and of the workers is an insert*)
(* of the vector, a read of it, or invisible.  The end of insert is the    *)
(* vector's Insert, final_work its Read; that Read is allowed whichever    *)
(* replica the worker reads is the agreement of the replicas.  FifoReader, *)
(* which puts the threads on cores, implements both; its example reads what*)
(* it says it reads.                                                       *)
(***************************************************************************)

Seen == [w \in Workers |-> SeenBy(w)]

\* Worker 0's replica is among those the agreement is about, and all that
\* memory holds at an element are contents.
LEMMA ElementContents ==
  ASSUME IInv, NEW r \in Replicas, NEW k \in Indices
  PROVE  mem[Address(r, k)] \in Contents
  BY AddressInPage DEF IInv, TypeOK

\* The inserted elements are a sequence as long as logical_index_.
LEMMA InsertedIsSeq ==
  ASSUME IInv
  PROVE  /\ Inserted \in Seq(Contents)
         /\ Len(Inserted) = logical_index
         /\ \A k \in 0..(logical_index - 1) : Inserted[k + 1] = mem[Address(0, k)]
<1>1. logical_index \in Nat
  BY DEF IInv, TypeOK
<1>2. ASSUME NEW k \in 1..logical_index PROVE mem[Address(0, k - 1)] \in Contents
  <2>1. k - 1 \in 0..(logical_index - 1)
    BY <1>1
  <2> QED
    BY <2>1, InsertedIndices, ElementContents
<1>3. Inserted \in [1..logical_index -> Contents]
  BY <1>2 DEF Inserted
<1>4. Inserted \in Seq(Contents)
  BY <1>1, <1>3, SeqDef
<1>5. Len(Inserted) = logical_index
  <2>1. Len(Inserted) \in Nat /\ DOMAIN Inserted = 1..Len(Inserted)
    BY <1>4, LenProperties
  <2>2. DOMAIN Inserted = 1..logical_index
    BY DEF Inserted
  <2>3. \A m, n \in Nat : 1..m = 1..n => m = n
    <3> SUFFICES ASSUME NEW m \in Nat, NEW n \in Nat, 1..m = 1..n, m < n PROVE FALSE
      OBVIOUS
    <3> QED
      BY n \in 1..n
  <2> QED
    BY <1>1, <2>1, <2>2, <2>3, Zenon
<1>6. \A k \in 0..(logical_index - 1) : Inserted[k + 1] = mem[Address(0, k)]
  BY <1>1 DEF Inserted
<1> QED
  BY <1>4, <1>5, <1>6

\* The same elements at the same places are the same vector.
LEMMA InsertedKept ==
  ASSUME UNCHANGED <<mem, logical_index>>
  PROVE  Inserted' = Inserted
  BY DEF Inserted

\* A worker that neither starts nor ends has seen what it had seen.
LEMMA SeenKept ==
  ASSUME \A w \in Workers :
           (worker[w] = "done" \/ worker'[w] = "done") =>
             /\ worker[w] = "done" /\ worker'[w] = "done"
             /\ read_index'[w] = read_index[w] /\ result'[w] = result[w]
  PROVE  Seen' = Seen
  BY DEF Seen, SeenBy

-------------------------------------------------------------------------------
\* A constructor's call shows an empty vector that nobody has read.
LEMMA RefinesInit == Init => Vector!Init
  BY DEF Init, Vector!Init, Inserted, SeenBy

\* A store of insert's loop touches no inserted element: it does not show.
LEMMA RefinesStore ==
  ASSUME IInv, AgreeInv, InsertStore
  PROVE  Inserted' = Inserted /\ Seen' = Seen
<1>1. UNCHANGED <<logical_index, worker, read_index, result>>
  BY DEF InsertStore
<1>2. Seen' = Seen
  BY <1>1, SeenKept
<1>3. CASE replica_page # "mapped"
  BY <1>1, <1>2, <1>3, InsertedKept DEF InsertStore
<1>4. CASE replica_page = "mapped"
  <2>1. /\ phase = "inserting" /\ i \in Replicas
        /\ mem' = [mem EXCEPT ![Address(i, logical_index)] = value]
    BY <1>4, LayoutFacts DEF InsertStore, ReplicaCount, IInv, TypeOK, Replicas
  <2>2. logical_index \in Indices /\ logical_index \in Nat
    BY <2>1, InsertedIndices DEF IInv, TypeOK
  <2>3. ASSUME NEW k \in 1..logical_index
        PROVE  mem'[Address(0, k - 1)] = mem[Address(0, k - 1)]
    <3>1. k - 1 \in 0..(logical_index - 1) /\ k - 1 # logical_index
      BY <2>2
    <3>2. k - 1 \in Indices /\ 0 \in Replicas
      BY <3>1, InsertedIndices
    <3>3. Address(0, k - 1) # Address(i, logical_index)
      BY <2>1, <2>2, <3>1, <3>2, AddressInjective
    <3>4. Address(0, k - 1) \in 0..(SuperpageSize - 1)
      BY <3>2, AddressInPage
    <3> QED
      BY <2>1, <3>3, <3>4 DEF IInv, TypeOK
  <2> QED
    BY <1>1, <1>2, <2>3 DEF Inserted
<1> QED
  BY <1>3, <1>4

\* The end of insert appends the element to the vector.
LEMMA RefinesInsert ==
  ASSUME IInv, AgreeInv, IInv', InsertEnd
  PROVE  Vector!Insert(value) /\ value \in Values
<1>1. /\ phase = "inserting" /\ i = N
      /\ logical_index' = logical_index + 1
      /\ UNCHANGED <<mem, worker, read_index, result>>
  BY DEF InsertEnd, GoTo, ReplicaCount
<1>2. value \in Values /\ value \in Contents
  BY <1>1 DEF AgreeInv, Contents
<1>3. logical_index \in Nat /\ logical_index < capacity /\ capacity \in Nat
  BY <1>1, LayoutFacts DEF IInv, TypeOK, IndexInv
<1>4. mem[Address(0, logical_index)] = value
  BY <1>1, LayoutFacts DEF AgreeInv, Replicas
<1>5. /\ Inserted \in Seq(Contents) /\ Len(Inserted) = logical_index
      /\ \A k \in 0..(logical_index - 1) : Inserted[k + 1] = mem[Address(0, k)]
  BY InsertedIsSeq
<1>6. /\ Append(Inserted, value) \in Seq(Contents)
      /\ Len(Append(Inserted, value)) = logical_index + 1
      /\ \A k \in 1..logical_index : Append(Inserted, value)[k] = Inserted[k]
      /\ Append(Inserted, value)[logical_index + 1] = value
  BY <1>2, <1>5, AppendProperties
<1>7. /\ Append(Inserted, value) \in [1..(logical_index + 1) -> Contents]
  BY <1>6, LenProperties
<1>8. Inserted' = [k \in 1..(logical_index + 1) |-> mem[Address(0, k - 1)]]
  BY <1>1 DEF Inserted
<1>9. ASSUME NEW k \in 1..(logical_index + 1)
      PROVE  mem[Address(0, k - 1)] = Append(Inserted, value)[k]
  <2>1. CASE k = logical_index + 1
    BY <1>3, <1>4, <1>6, <2>1
  <2>2. CASE k # logical_index + 1
    <3>1. k \in 1..logical_index
      BY <1>3, <2>2
    <3> QED
      BY <1>6, <3>1 DEF Inserted
  <2> QED
    BY <2>1, <2>2
<1>10. Inserted' = Append(Inserted, value)
  BY <1>7, <1>8, <1>9
<1>11. Seen' = Seen
  BY <1>1, SeenKept
<1> QED
  BY <1>2, <1>3, <1>5, <1>10, <1>11 DEF Vector!Insert, Seen

\* A worker's read is a read of the vector: an inserted element is the one
\* that was inserted, in whatever replica; beyond them, anything goes.
LEMMA RefinesRead ==
  ASSUME IInv, AgreeInv, NEW w \in Workers, FinalWork(w), replica_page = "mapped"
  PROVE  Vector!Read(w)
<1> DEFINE k == read_index[w]
           v == mem[Address(w, k)]
<1>1. /\ worker[w] = "reading"
      /\ result' = [result EXCEPT ![w] = v]
      /\ worker' = [worker EXCEPT ![w] = "done"]
      /\ UNCHANGED <<mem, logical_index, read_index>>
  BY DEF FinalWork
<1>2. k \in Indices /\ w \in Replicas /\ logical_index \in Nat
  BY <1>1 DEF IInv, TypeOK, ReadInv, Workers
<1>3. k \in 0..(capacity - 1) /\ k \in Nat
  BY <1>2, LayoutFacts DEF Indices
<1>4. v \in Contents
  BY <1>2, ElementContents
<1>5. Inserted' = Inserted
  BY <1>1, InsertedKept
<1>6. v \in Vector!ValueAt(k)
  <2>1. CASE k < logical_index
    <3>1. k \in 0..(logical_index - 1)
      BY <1>2, <1>3, <2>1
    <3>2. Inserted[k + 1] = mem[Address(0, k)]
      BY <3>1, InsertedIsSeq
    <3>3. v = mem[Address(0, k)]
      BY <1>2, <3>1 DEF AgreeInv
    <3> QED
      BY <2>1, <3>2, <3>3, InsertedIsSeq DEF Vector!ValueAt
  <2>2. CASE ~(k < logical_index)
    BY <1>4, <2>2, InsertedIsSeq DEF Vector!ValueAt, Contents
  <2> QED
    BY <2>1, <2>2
<1>7. Seen[w] = <<>>
  BY <1>1 DEF Seen, SeenBy
<1>8. Seen' = [Seen EXCEPT ![w] = <<k, v>>]
  BY <1>1 DEF Seen, SeenBy, IInv, TypeOK
<1> QED
  BY <1>3, <1>5, <1>6, <1>7, <1>8 DEF Vector!Read, Seen

-------------------------------------------------------------------------------
\* Every step is a step of the vector or does not show.
LEMMA RefinesStep ==
  ASSUME IInv, AgreeInv, IInv', [Next]_vars
  PROVE  [Vector!Next]_<<Inserted, Seen>>
<1> DEFINE Hidden == Inserted' = Inserted /\ Seen' = Seen
<1>1. CASE InsertStore
  BY <1>1, RefinesStore
<1>2. CASE InsertEnd
  BY <1>2, RefinesInsert DEF Vector!Next
<1>3. ASSUME NEW w \in Workers, FinalWork(w) PROVE Vector!Next \/ Hidden
  <2>1. CASE replica_page = "mapped"
    BY <1>3, <2>1, RefinesRead DEF Vector!Next
  <2>2. CASE replica_page # "mapped"
    <3>1. UNCHANGED <<mem, logical_index, worker, read_index, result>>
      BY <1>3, <2>2 DEF FinalWork
    <3> QED
      BY <3>1, InsertedKept, SeenKept
  <2> QED
    BY <2>1, <2>2
<1>4. ASSUME NEW w \in Workers, WaitWork(w) PROVE Hidden
  <2>1. UNCHANGED <<mem, logical_index, result>>
    BY <1>4 DEF WaitWork, client
  <2>2. ASSUME NEW x \in Workers, worker[x] = "done" \/ worker'[x] = "done"
        PROVE  /\ worker[x] = "done" /\ worker'[x] = "done"
               /\ read_index'[x] = read_index[x] /\ result'[x] = result[x]
    BY <1>4, <2>2 DEF WaitWork, IInv, TypeOK
  <2> QED
    BY <2>1, <2>2, InsertedKept, SeenKept
<1>5. CASE StartWorker
  <2>1. UNCHANGED <<mem, logical_index, read_index, result>> /\ i \in Workers
    BY <1>5, LayoutFacts DEF StartWorker, IInv, TypeOK, Workers, Replicas
  <2>2. worker[i] = "done" => ~Assignable(i)
    BY <1>5, <2>1 DEF StartWorker, IInv, TypeOK, ThreadInv, Assignable, Dead
  <2>3. ASSUME NEW x \in Workers, worker[x] = "done" \/ worker'[x] = "done"
        PROVE  /\ worker[x] = "done" /\ worker'[x] = "done"
    BY <1>5, <2>1, <2>2, <2>3 DEF StartWorker, IInv, TypeOK
  <2> QED
    BY <2>1, <2>3, InsertedKept, SeenKept
<1>6. CASE UNCHANGED <<mem, logical_index, worker, read_index, result>>
  BY <1>6, InsertedKept, SeenKept
<1>7. CASE Client /\ ~InsertStore /\ ~InsertEnd /\ ~StartWorker
  BY <1>6, <1>7
  DEF Client, ConstructMapped, ConstructUnmapped, InsertBegin, StartWorkers, StartThrows,
      StartReturn, Destroy, Join, Unmap
<1>8. CASE UNCHANGED vars
  BY <1>6, <1>8 DEF vars
<1> QED
  BY <1>1, <1>2, <1>3, <1>4, <1>5, <1>7, <1>8 DEF Next, Worker

\* Whatever is inserted and whenever the workers read, the reader behaves like
\* one vector of capacity() elements, of which each worker reads one.
THEOREM ReaderIsVector == Spec => ImplementsVector
<1>1. Init => AgreeInv
  BY DEF Init, AgreeInv
<1>2. IInv /\ AgreeInv /\ IInv' /\ [Next]_vars => [Vector!Next]_<<Inserted, Seen>>
  BY RefinesStep
<1>3. Spec => Vector!Init /\ [][Vector!Next]_<<Inserted, Seen>>
  BY <1>1, <1>2, RefinesInit, InitIInv, StepIInv, StepAgree, PTL DEF Spec
<1> QED
  BY <1>3, PTL DEF ImplementsVector, Vector!Spec, Seen
-------------------------------------------------------------------------------
(***************************************************************************)
(* The reader on its cores is a reader: whatever the scheduler does, a     *)
(* thread that has a core takes a step of HedgedReader or only moves.      *)
(***************************************************************************)

LEMMA FifoStepIsNext == [FifoNext]_fifo_vars => [Next]_vars
<1> SUFFICES ASSUME [FifoNext]_fifo_vars PROVE [Next]_vars
  OBVIOUS
<1>1. CASE ClientOnCore
  BY <1>1 DEF ClientOnCore, ClientStep, ClientKeepsCore, ClientStarts, Next, Client
<1>2. CASE ClientBlocks \/ ClientWakes \/ Balance
  BY <1>2 DEF ClientBlocks, ClientWakes, Balance
<1>3. ASSUME NEW w \in Workers, WorkerOnCore(w) PROVE [Next]_vars
  BY <1>3 DEF WorkerOnCore, PinWorker, WorkerWaits, WorkerEnds, Next, Worker
<1>4. CASE UNCHANGED fifo_vars
  BY <1>4 DEF fifo_vars
<1> QED
  BY <1>1, <1>2, <1>3, <1>4 DEF FifoNext

\* Every behaviour on cores is one of HedgedReader, and so of HedgedVector.
THEOREM FifoImplementsReader == FifoSpec => Spec /\ ImplementsVector
<1>1. FifoInit => Init
  BY DEF FifoInit
<1> QED
  BY <1>1, FifoStepIsNext, ReaderIsVector, PTL DEF FifoSpec, Spec
-------------------------------------------------------------------------------
(***************************************************************************)
(* The example: what it has inserted is a prefix of what it inserts, and   *)
(* whole when it starts the workers.                                       *)
(***************************************************************************)

ExampleInv ==
  example =>
    /\ logical_index <= Len(ExampleInserts)
    /\ \A k \in 1..logical_index : Inserted[k] = ExampleInserts[k]
    /\ phase = "inserting" =>
         logical_index < Len(ExampleInserts) /\ value = ExampleInserts[logical_index + 1]
    /\ phase = "starting" => logical_index = Len(ExampleInserts)
    /\ \A w \in Workers :
         /\ worker[w] # "absent" => logical_index = Len(ExampleInserts)
         /\ worker[w] = "reading" => read_index[w] = ExampleIndex
         /\ worker[w] = "done" => result[w] = ExampleInserts[ExampleIndex + 1]

\* The client's calls come in the order of the example's main.
LEMMA ExampleClient ==
  ASSUME IInv, AgreeInv, IInv', ExampleInv, ClientOnCore
  PROVE  ExampleInv'
<1> SUFFICES ASSUME example PROVE ExampleInv'
  BY DEF ExampleInv, ClientOnCore
<1>0. /\ Len(ExampleInserts) \in Nat /\ logical_index \in Nat
      /\ ClientStep /\ UNCHANGED example
  BY ReaderCoresAssumption DEF ClientOnCore, IInv, TypeOK
<1>1. CASE InsertStore
  <2>1. Inserted' = Inserted
    BY <1>1, RefinesStore
  <2>2. /\ UNCHANGED <<logical_index, value, worker, read_index, result>>
        /\ phase = "inserting" /\ phase' \in {"inserting", "crashed"}
    BY <1>1 DEF InsertStore
  <2> QED
    BY <1>0, <2>1, <2>2 DEF ExampleInv
<1>2. CASE InsertEnd
  <2>1. /\ logical_index' = logical_index + 1 /\ phase = "inserting" /\ phase' = "idle"
        /\ UNCHANGED <<worker, read_index, result>>
    BY <1>2 DEF InsertEnd, GoTo
  <2>2. Inserted' = Append(Inserted, value) /\ value \in Values
    BY <1>2, RefinesInsert DEF Vector!Insert
  <2>3. Inserted \in Seq(Contents) /\ Len(Inserted) = logical_index
    BY InsertedIsSeq
  <2>4. value \in Contents
    BY <2>2 DEF Contents
  <2>5. /\ \A k \in 1..logical_index : Inserted'[k] = Inserted[k]
        /\ Inserted'[logical_index + 1] = value
    BY <2>2, <2>3, <2>4, AppendProperties
  <2>6. \A k \in 1..logical_index' : Inserted'[k] = ExampleInserts[k]
    BY <1>0, <2>1, <2>5 DEF ExampleInv
  <2>7. \A w \in Workers : worker[w] = "absent"
    BY <1>0, <2>1 DEF ExampleInv
  <2> QED
    BY <1>0, <2>1, <2>6, <2>7 DEF ExampleInv
<1>3. ASSUME NEW v \in Values, ExampleInserting(v), InsertBegin(v) PROVE ExampleInv'
  <2>1. /\ UNCHANGED <<mem, logical_index, worker, read_index, result>>
        /\ phase' = "inserting" => value' = v
        /\ phase' # "starting"
    BY <1>3 DEF InsertBegin
  <2> QED
    BY <1>0, <1>3, <2>1, InsertedKept DEF ExampleInv, ExampleInserting
<1>4. CASE ExampleStarting /\ StartWorkers
  <2>1. UNCHANGED <<mem, logical_index, worker, read_index, result>> /\ phase' = "starting"
    BY <1>4 DEF StartWorkers, GoTo
  <2> QED
    BY <1>0, <1>4, <2>1, InsertedKept DEF ExampleInv, ExampleStarting
<1>5. CASE StartWorker
  <2>1. /\ UNCHANGED <<mem, logical_index, read_index, result>>
        /\ phase = "starting" /\ phase' \in {"starting", "terminated"}
        /\ \A w \in Workers : worker'[w] = worker[w] \/ worker'[w] = "waiting"
    BY <1>5 DEF StartWorker, IInv, TypeOK
  <2> QED
    BY <1>0, <2>1, InsertedKept DEF ExampleInv
<1>6. CASE UNCHANGED <<mem, logical_index, worker, read_index, result>>
             /\ phase' \notin {"inserting", "starting"}
  BY <1>0, <1>6, InsertedKept DEF ExampleInv
<1>7. CASE \/ ConstructMapped \/ ConstructUnmapped \/ StartThrows \/ StartReturn
           \/ Destroy \/ Unmap \/ Join
  BY <1>6, <1>7
  DEF ConstructMapped, ConstructUnmapped, StartThrows, StartReturn, Destroy, Unmap, Join, GoTo
<1> QED
  BY <1>0, <1>1, <1>2, <1>3, <1>4, <1>5, <1>7 DEF ClientStep, ClientKeepsCore, ClientStarts

\* The worker that ends reads the second element in its own replica.
LEMMA ExampleWorker ==
  ASSUME IInv, AgreeInv, ExampleInv, NEW w \in Workers, WorkerOnCore(w)
  PROVE  ExampleInv'
<1> SUFFICES ASSUME example PROVE ExampleInv'
  BY DEF ExampleInv, WorkerOnCore, PinWorker, WorkerWaits, WorkerEnds
<1>0. Len(ExampleInserts) \in Nat /\ logical_index \in Nat
  BY ReaderCoresAssumption DEF IInv, TypeOK
<1>1. CASE PinWorker(w)
  <2>1. UNCHANGED <<phase, mem, logical_index, value, worker, read_index, result, example>>
    BY <1>1 DEF PinWorker, vars
  <2> QED
    BY <1>0, <2>1, InsertedKept DEF ExampleInv
<1>2. CASE WorkerWaits(w)
  <2>1. /\ UNCHANGED <<phase, mem, logical_index, value, result, example>>
        /\ worker[w] = "waiting" /\ worker' = [worker EXCEPT ![w] = "reading"]
        /\ read_index'[w] = ExampleIndex
        /\ \A x \in Workers : x # w => read_index'[x] = read_index[x]
    BY <1>2 DEF WorkerWaits, WaitWork, client, IInv, TypeOK
  <2> QED
    BY <1>0, <2>1, InsertedKept DEF ExampleInv, IInv, TypeOK
<1>3. CASE WorkerEnds(w) /\ replica_page = "mapped"
  <2>1. /\ UNCHANGED <<phase, mem, logical_index, value, read_index, example>>
        /\ worker[w] = "reading" /\ worker' = [worker EXCEPT ![w] = "done"]
        /\ result' = [result EXCEPT ![w] = mem[Address(w, read_index[w])]]
    BY <1>3 DEF WorkerEnds, FinalWork
  <2>2. read_index[w] = ExampleIndex /\ logical_index = Len(ExampleInserts)
    BY <2>1 DEF ExampleInv
  <2>3. ExampleIndex \in 0..(logical_index - 1) /\ ExampleIndex + 1 \in 1..logical_index
    BY <1>0, <2>2, LayoutFacts, ReaderCoresAssumption DEF Indices
  <2>4. mem[Address(w, ExampleIndex)] = mem[Address(0, ExampleIndex)]
    BY <2>3 DEF AgreeInv, Workers
  <2>5. Inserted[ExampleIndex + 1] = mem[Address(0, ExampleIndex)]
    BY <2>3, InsertedIsSeq
  <2>6. mem[Address(w, read_index[w])] = ExampleInserts[ExampleIndex + 1]
    BY <2>2, <2>3, <2>4, <2>5 DEF ExampleInv
  <2> QED
    BY <1>0, <2>1, <2>6, InsertedKept DEF ExampleInv, IInv, TypeOK
<1>4. CASE WorkerEnds(w) /\ replica_page # "mapped"
  <2>1. /\ UNCHANGED <<mem, logical_index, value, worker, read_index, result, example>>
        /\ phase' = "crashed"
    BY <1>4 DEF WorkerEnds, FinalWork
  <2> QED
    BY <1>0, <2>1, InsertedKept DEF ExampleInv
<1> QED
  BY <1>1, <1>2, <1>3, <1>4 DEF WorkerOnCore

\* Each worker of the example is given the second of the two values, in
\* whichever order and on whichever cores client and workers run.
THEOREM ExampleAlwaysReadsSecond == FifoSpec => []ExampleReadsSecond
<1>1. FifoInit => Init /\ AgreeInv /\ ExampleInv
  <2>1. Init => AgreeInv
    BY DEF Init, AgreeInv
  <2>2. Init => ExampleInv
    BY ReaderCoresAssumption DEF Init, ExampleInv
  <2> QED
    BY <2>1, <2>2 DEF FifoInit
<1>2. IInv /\ AgreeInv /\ ExampleInv /\ IInv' /\ [FifoNext]_fifo_vars => ExampleInv'
  <2> SUFFICES ASSUME IInv, AgreeInv, ExampleInv, IInv', [FifoNext]_fifo_vars
               PROVE  ExampleInv'
    OBVIOUS
  <2>1. CASE UNCHANGED <<vars, example>>
    <3>1. UNCHANGED <<phase, mem, logical_index, value, worker, read_index, result, example>>
      BY <2>1 DEF vars
    <3> QED
      BY <3>1, InsertedKept DEF ExampleInv
  <2>2. CASE ClientBlocks \/ ClientWakes \/ Balance \/ UNCHANGED fifo_vars
    BY <2>1, <2>2 DEF ClientBlocks, ClientWakes, Balance, fifo_vars
  <2> QED
    BY <2>2, ExampleClient, ExampleWorker DEF FifoNext
<1>3. IInv /\ ExampleInv => ExampleReadsSecond
  BY DEF ExampleInv, ExampleReadsSecond
<1> QED
  BY <1>1, <1>2, <1>3, FifoStepIsNext, InitIInv, StepIInv, StepAgree, PTL DEF FifoSpec
===============================================================================
