-------------------------- MODULE HedgedLayoutProofs --------------------------
(***************************************************************************)
(* Proofs about the address arithmetic of HedgedReader, for any arguments  *)
(* that pass the constructor's asserts, as long as shift and mask split an *)
(* index: every replica of every element is inside the page, no two        *)
(* coincide, and each is on the channel of its worker.                     *)
(***************************************************************************)
EXTENDS MCHedgedLayout, TLAPS

\* Arguments that the arithmetic handles: those the constructor accepts and for
\* which a chunk holds a power of two of elements.
GoodLayout ==
  /\ offset \in Nat \ {0} /\ size \in Nat \ {0}
  /\ channels \in Nat \ {0} /\ n \in Nat \ {0} /\ PageSize \in Nat
  /\ L!ConstructorAsserts
  /\ L!ChunkDecodes

-------------------------------------------------------------------------------
(***************************************************************************)
(* A replica of an element occupies one slot of sizeof(T) bytes.  Slots    *)
(* are numbered in mixed radix: an index is a chunk and a place in it, and *)
(* the chunks of the channels alternate.                                   *)
(***************************************************************************)

\* Division with remainder, as get_next_logical_index_address splits an index.
LEMMA DivMod ==
  ASSUME NEW k \in Nat, NEW e \in Nat \ {0}
  PROVE  /\ k \div e \in Nat
         /\ k % e \in 0..(e - 1)
         /\ k = (k \div e) * e + (k % e)
  OBVIOUS

\* Products of naturals grow with their factors.
LEMMA MulMono ==
  ASSUME NEW a \in Nat, NEW b \in Nat, NEW c \in Nat, a <= b
  PROVE  a * c <= b * c
  OBVIOUS

\* A number has one representation as a chunk and a place in the chunk.
LEMMA MixedRadix ==
  ASSUME NEW a \in Nat, NEW b \in Nat, NEW e \in Nat \ {0},
         NEW m \in 0..(e - 1), NEW p \in 0..(e - 1),
         a * e + m = b * e + p
  PROVE  a = b /\ m = p
<1>1. ASSUME a < b PROVE FALSE
  <2>1. (a + 1) * e <= b * e
    BY <1>1, MulMono
  <2>2. (a + 1) * e = a * e + e
    OBVIOUS
  <2> QED
    BY <2>1, <2>2
<1>2. ASSUME b < a PROVE FALSE
  <2>1. (b + 1) * e <= a * e
    BY <1>2, MulMono
  <2>2. (b + 1) * e = b * e + e
    OBVIOUS
  <2> QED
    BY <2>1, <2>2
<1> QED
  BY <1>1, <1>2

\* Division undoes a representation.
LEMMA Quotient ==
  ASSUME NEW a \in Nat, NEW e \in Nat \ {0}, NEW x \in Nat, NEW m \in 0..(e - 1),
         a = x * e + m
  PROVE  a \div e = x
  BY DivMod, MixedRadix

\* An index below a multiple of the chunk size is in a chunk below it.
LEMMA ChunkBelow ==
  ASSUME NEW k \in Nat, NEW e \in Nat \ {0}, NEW m \in Nat, k < m * e
  PROVE  k \div e < m
<1> SUFFICES ASSUME m <= k \div e PROVE FALSE
  BY DivMod
<1>1. m * e <= (k \div e) * e
  BY DivMod, MulMono
<1> QED
  BY <1>1, DivMod
-------------------------------------------------------------------------------
\* The slot of replica r of element k, in elements from the start of the page.
Slot(r, k) ==
  LET e == L!elements_per_chunk
  IN  ((k \div e) * channels + r) * e + (k % e)

\* What the constructor's arguments and precomputed values are to each other.
LEMMA LayoutFacts ==
  ASSUME GoodLayout
  PROVE  /\ offset \in Nat \ {0} /\ size \in Nat \ {0}
         /\ channels \in Nat \ {0} /\ n \in Nat \ {0} /\ PageSize \in Nat
         /\ n <= channels
         /\ L!elements_per_chunk \in Nat \ {0}
         /\ offset = L!elements_per_chunk * size
         /\ L!stride_in_elements = channels * L!elements_per_chunk
         /\ L!stride_bytes \in Nat \ {0}
         /\ L!max_strides \in Nat
         /\ L!max_strides * L!stride_bytes <= PageSize
         /\ L!capacity \in Nat
<1> DEFINE e == L!elements_per_chunk
<1>1. /\ offset \in Nat \ {0} /\ size \in Nat \ {0}
      /\ channels \in Nat \ {0} /\ n \in Nat \ {0} /\ PageSize \in Nat
      /\ n <= channels
      /\ offset % size = 0
  BY DEF GoodLayout, L!ConstructorAsserts
<1>2. e \in Nat /\ offset = e * size
  BY <1>1, DivMod DEF L!elements_per_chunk
<1>3. e \in Nat \ {0}
  BY <1>1, <1>2
<1>4. L!stride_in_elements = channels * e
  <2>1. channels * offset = (channels * e) * size
    BY <1>1, <1>2
  <2>2. channels * e \in Nat
    BY <1>1, <1>2
  <2>3. ASSUME NEW x \in Nat, NEW z \in Nat \ {0} PROVE (x * z) \div z = x
    <3> DEFINE y == x * z
    <3>1. y \in Nat /\ y = x * z + 0 /\ 0 \in 0..(z - 1)
      OBVIOUS
    <3> HIDE DEF y
    <3>2. y = (y \div z) * z + (y % z) /\ y \div z \in Nat /\ y % z \in 0..(z - 1)
      BY <3>1, DivMod
    <3>3. x = y \div z
      BY <3>1, <3>2, MixedRadix
    <3> QED
      BY <3>3 DEF y
  <2> QED
    BY <1>1, <2>1, <2>2, <2>3 DEF L!stride_in_elements
<1>5. L!stride_bytes \in Nat \ {0}
  BY <1>1 DEF L!stride_bytes
<1>6. L!max_strides \in Nat /\ L!max_strides * L!stride_bytes <= PageSize
  <2>1. PageSize = L!max_strides * L!stride_bytes + (PageSize % L!stride_bytes)
    BY <1>1, <1>5, DivMod DEF L!max_strides
  <2>2. L!max_strides \in Nat /\ PageSize % L!stride_bytes \in Nat
    BY <1>1, <1>5, DivMod DEF L!max_strides
  <2> QED
    BY <1>1, <1>5, <2>1, <2>2
<1>7. L!capacity \in Nat
  BY <1>3, <1>6 DEF L!capacity
<1> QED
  BY <1>1, <1>2, <1>3, <1>4, <1>5, <1>6, <1>7

\* Shift, mask and pointer arithmetic compute the slot.
LEMMA AddressIsSlot ==
  ASSUME GoodLayout, NEW r \in L!Replicas, NEW k \in L!Indices
  PROVE  L!Address(r, k) = Slot(r, k) * size /\ Slot(r, k) \in Nat
<1> DEFINE e == L!elements_per_chunk
           q == k \div e
           m == k % e
<1>1. r \in Nat /\ k \in Nat /\ e \in Nat \ {0}
  BY LayoutFacts DEF L!Replicas, L!Indices
<1>2. q \in Nat /\ m \in Nat
  <2>1. q \in Nat /\ m \in 0..(e - 1)
    BY <1>1, DivMod
  <2> QED
    BY <1>1, <2>1
<1>3. L!ElementOffset(k) = q * (channels * e) + m
  BY LayoutFacts DEF GoodLayout, L!ChunkDecodes, L!ElementOffset
<1>4. L!Address(r, k) = r * (e * size) + (q * (channels * e) + m) * size
  BY <1>3, LayoutFacts DEF L!Address, L!ReplicaBase
<1>5. Slot(r, k) = (q * channels + r) * e + m
  BY DEF Slot
<1> HIDE DEF e, q, m
<1>6. (q * channels + r) * e + m = q * (channels * e) + r * e + m
  BY <1>1, <1>2, LayoutFacts
<1>7. (q * (channels * e) + r * e + m) * size
        = r * (e * size) + (q * (channels * e) + m) * size
  BY <1>1, <1>2, LayoutFacts
<1>8. (q * channels + r) * e + m \in Nat
  BY <1>1, <1>2, LayoutFacts
<1> QED
  BY <1>4, <1>5, <1>6, <1>7, <1>8

\* Every replica of every element is inside the page: no store of insert and no
\* read of worker_func leaves it.
THEOREM AddressInPage ==
  ASSUME GoodLayout, NEW r \in L!Replicas, NEW k \in L!Indices
  PROVE  /\ L!Address(r, k) \in 0..(PageSize - 1)
         /\ L!Address(r, k) + size <= PageSize
<1> DEFINE e == L!elements_per_chunk
           q == k \div e
           m == k % e
           M == L!max_strides
           C == channels
<1>1. /\ r \in Nat /\ r + 1 <= C /\ C \in Nat \ {0} /\ k \in Nat /\ e \in Nat \ {0}
      /\ M \in Nat /\ size \in Nat \ {0} /\ PageSize \in Nat
  BY LayoutFacts DEF L!Replicas, L!Indices
<1>2. q \in Nat /\ m \in Nat /\ m + 1 <= e
  <2>1. q \in Nat /\ m \in 0..(e - 1)
    BY <1>1, DivMod
  <2> QED
    BY <1>1, <2>1
<1>3. q + 1 <= M
  <2>1. k < M * e
    BY <1>1 DEF L!Indices, L!capacity
  <2> QED
    BY <1>1, <2>1, ChunkBelow
<1>4. Slot(r, k) = (q * C + r) * e + m
  BY DEF Slot
<1>5. L!Address(r, k) = Slot(r, k) * size /\ Slot(r, k) \in Nat
  BY AddressIsSlot
<1>6. M * (C * (e * size)) <= PageSize
  BY LayoutFacts DEF L!stride_bytes
<1> HIDE DEF e, q, m, M, C
<1>7. q * C + r + 1 <= M * C
  <2>1. (q + 1) * C <= M * C
    BY <1>1, <1>2, <1>3, MulMono
  <2>2. (q + 1) * C = q * C + C
    BY <1>1, <1>2
  <2>3. q * C \in Nat /\ M * C \in Nat
    BY <1>1, <1>2
  <2> QED
    BY <1>1, <2>1, <2>2, <2>3
<1>8. Slot(r, k) + 1 <= (M * C) * e
  <2> DEFINE p == q * C + r
  <2>1. p \in Nat /\ M * C \in Nat
    BY <1>1, <1>2
  <2> HIDE DEF p
  <2>2. (p + 1) * e <= (M * C) * e
    BY <1>1, <1>7, <2>1, MulMono DEF p
  <2>3. (p + 1) * e = p * e + e
    BY <1>1, <2>1
  <2>4. p * e \in Nat /\ (M * C) * e \in Nat
    BY <1>1, <2>1
  <2> QED
    BY <1>1, <1>2, <1>4, <2>1, <2>2, <2>3, <2>4 DEF p
<1>9. (Slot(r, k) + 1) * size <= ((M * C) * e) * size
  <2>1. (M * C) * e \in Nat
    BY <1>1
  <2> QED
    BY <1>1, <1>5, <1>8, <2>1, MulMono
<1>10. ((M * C) * e) * size = M * (C * (e * size))
  BY <1>1
<1>11. (Slot(r, k) + 1) * size = Slot(r, k) * size + size
  BY <1>1, <1>5
<1>12. Slot(r, k) * size \in Nat
  BY <1>1, <1>5
<1> QED
  BY <1>1, <1>5, <1>6, <1>9, <1>10, <1>11, <1>12

\* Two replicas of two elements never coincide, nor do two replicas of one:
\* "we have to keep accounting for making sure we're on different channels".
THEOREM AddressInjective ==
  ASSUME GoodLayout, NEW r \in L!Replicas, NEW s \in L!Replicas, NEW k \in L!Indices, NEW j \in L!Indices,
         L!Address(r, k) = L!Address(s, j)
  PROVE  r = s /\ k = j
<1> DEFINE e == L!elements_per_chunk
           C == channels
           a == k \div e
           b == j \div e
           m == k % e
           p == j % e
<1>1. /\ r \in 0..(C - 1) /\ s \in 0..(C - 1) /\ C \in Nat \ {0}
      /\ k \in Nat /\ j \in Nat /\ e \in Nat \ {0} /\ size \in Nat \ {0}
  BY LayoutFacts DEF L!Replicas, L!Indices
<1>2. /\ a \in Nat /\ m \in 0..(e - 1) /\ k = a * e + m
      /\ b \in Nat /\ p \in 0..(e - 1) /\ j = b * e + p
  BY <1>1, DivMod
<1>3. Slot(r, k) = (a * C + r) * e + m /\ Slot(s, j) = (b * C + s) * e + p
  BY DEF Slot
<1>4. Slot(r, k) = Slot(s, j)
  <2>1. Slot(r, k) \in Nat /\ Slot(s, j) \in Nat
    BY AddressIsSlot
  <2>2. Slot(r, k) * size + 0 = Slot(s, j) * size + 0
    BY <2>1, AddressIsSlot, <1>1
  <2>3. 0 \in 0..(size - 1)
    BY <1>1
  <2> QED
    BY <1>1, <2>1, <2>2, <2>3, MixedRadix
<1> HIDE DEF e, C, a, b, m, p
<1>5. a * C + r = b * C + s /\ m = p
  <2>1. a * C + r \in Nat /\ b * C + s \in Nat
    BY <1>1, <1>2
  <2> QED
    BY <1>1, <1>2, <1>3, <1>4, <2>1, MixedRadix
<1>6. a = b /\ r = s
  BY <1>1, <1>2, <1>5, MixedRadix
<1> QED
  BY <1>2, <1>5, <1>6

\* The bytes of a replica of an element are those of its slot.
LEMMA ExtentIsSlot ==
  ASSUME GoodLayout, NEW r \in L!Replicas, NEW k \in L!Indices, NEW a \in L!Extent(r, k)
  PROVE  /\ a \in Nat
         /\ \E d \in 0..(size - 1) : a = Slot(r, k) * size + d
<1>1. L!Address(r, k) = Slot(r, k) * size /\ Slot(r, k) \in Nat /\ size \in Nat \ {0}
  BY AddressIsSlot, LayoutFacts
<1> DEFINE A == L!Address(r, k)
<1>2. A \in Nat
  BY <1>1
<1>3. a \in A .. (A + size - 1)
  BY DEF L!Extent
<1> HIDE DEF A
<1>4. a \in Nat /\ a - A \in 0..(size - 1) /\ a = A + (a - A)
  BY <1>1, <1>2, <1>3
<1> QED
  BY <1>1, <1>4 DEF A

\* Every byte of every element is inside the page.
LEMMA ElementInPage ==
  ASSUME GoodLayout, NEW k \in L!Indices
  PROVE  L!ElementsInPage(k)
<1> SUFFICES ASSUME NEW r \in L!Replicas PROVE L!Extent(r, k) \subseteq 0..(PageSize - 1)
  BY DEF L!ElementsInPage
<1>1. size \in Nat \ {0} /\ PageSize \in Nat
  BY LayoutFacts
<1>2. L!Address(r, k) \in 0..(PageSize - 1) /\ L!Address(r, k) + size <= PageSize
  BY AddressInPage
<1> QED
  BY <1>1, <1>2 DEF L!Extent

\* No byte belongs to two elements or to two replicas.
LEMMA ElementDisjoint ==
  ASSUME GoodLayout, NEW k \in L!Indices
  PROVE  L!ElementsDisjoint(k)
<1> SUFFICES ASSUME NEW r \in L!Replicas, NEW s \in L!Replicas, NEW j \in 0..k,
                    NEW a \in L!Extent(r, k), a \in L!Extent(s, j)
             PROVE  r = s /\ k = j
  BY DEF L!ElementsDisjoint
<1>1. j \in L!Indices /\ size \in Nat \ {0}
  BY LayoutFacts DEF L!Indices
<1>2. PICK c \in 0..(size - 1) : a = Slot(r, k) * size + c
  BY ExtentIsSlot
<1>3. PICK d \in 0..(size - 1) : a = Slot(s, j) * size + d
  BY <1>1, ExtentIsSlot
<1>4. Slot(r, k) \in Nat /\ Slot(s, j) \in Nat
  BY <1>1, AddressIsSlot
<1>5. Slot(r, k) = Slot(s, j)
  BY <1>1, <1>2, <1>3, <1>4, MixedRadix
<1>6. L!Address(r, k) = L!Address(s, j)
  BY <1>1, <1>5, AddressIsSlot
<1> QED
  BY <1>1, <1>6, AddressInjective

\* A byte of replica r of element k lies in the chunk of channel r of k's stride.
LEMMA ByteInChunk ==
  ASSUME GoodLayout, NEW r \in L!Replicas, NEW k \in L!Indices, NEW a \in L!Extent(r, k)
  PROVE  a \div offset = (k \div L!elements_per_chunk) * channels + r
<1> DEFINE e == L!elements_per_chunk
           S == size
           q == k \div e
           m == k % e
           x == q * channels + r
<1>1. /\ r \in Nat /\ k \in Nat /\ e \in Nat \ {0} /\ S \in Nat \ {0}
      /\ channels \in Nat /\ offset = e * S /\ offset \in Nat \ {0}
  BY LayoutFacts DEF L!Replicas, L!Indices
<1>2. q \in Nat /\ m \in 0..(e - 1)
  BY <1>1, DivMod
<1>3. x \in Nat /\ Slot(r, k) = x * e + m
  BY <1>1, <1>2 DEF Slot
<1>4. PICK d \in 0..(S - 1) : a = Slot(r, k) * S + d
  BY ExtentIsSlot
<1>5. a \in Nat
  BY ExtentIsSlot
<1> HIDE DEF e, S, q, m, x
<1>6. m * S + d \in 0..(e * S - 1)
  <2>1. (m + 1) * S <= e * S
    BY <1>1, <1>2, MulMono
  <2>2. (m + 1) * S = m * S + S /\ m * S \in Nat /\ e * S \in Nat
    BY <1>1, <1>2
  <2> QED
    BY <1>1, <1>4, <2>1, <2>2
<1>7. a = x * (e * S) + (m * S + d)
  BY <1>1, <1>2, <1>3, <1>4
<1>8. a \div (e * S) = x
  <2>1. e * S \in Nat \ {0}
    BY <1>1
  <2> QED
    BY <1>5, <1>3, <1>6, <1>7, <2>1, Quotient
<1> QED
  BY <1>1, <1>8 DEF x, q, e

\* The replicas of an element are on different channels, whole: chunks of the
\* size that the channel bit stands for alternate between the channels.
LEMMA ElementOnOwnChannels ==
  ASSUME GoodLayout, NEW k \in L!Indices
  PROVE  L!ReplicasOnOwnChannels(k)
<1> SUFFICES ASSUME L!OffsetIsChannelBit, n <= 2,
                    NEW r \in L!Replicas, NEW s \in L!Replicas,
                    NEW a \in L!Extent(r, k), NEW b \in L!Extent(s, k), r # s
             PROVE  L!compute_channel(a) # L!compute_channel(b)
  BY DEF L!ReplicasOnOwnChannels
<1> DEFINE x == (k \div L!elements_per_chunk) * channels
<1>1. x \in Nat /\ r \in 0..1 /\ s \in 0..1
  <2>1. k \in Nat /\ L!elements_per_chunk \in Nat \ {0} /\ channels \in Nat /\ n \in Nat
    BY LayoutFacts DEF L!Indices
  <2>2. k \div L!elements_per_chunk \in Nat
    BY <2>1, DivMod
  <2>3. x \in Nat
    BY <2>1, <2>2
  <2> QED
    BY <2>1, <2>3 DEF L!Replicas
<1>2. a \div offset = x + r /\ b \div offset = x + s
  BY ByteInChunk
<1>3. L!compute_channel(a) = (x + r) % 2 /\ L!compute_channel(b) = (x + s) % 2
  BY <1>2 DEF L!compute_channel, L!OffsetIsChannelBit
<1> HIDE DEF x
<1>4. (x + r) % 2 # (x + s) % 2
  BY <1>1
<1> QED
  BY <1>3, <1>4

-------------------------------------------------------------------------------
(***************************************************************************)
(* The walk: arguments stay good, and index stays below the capacity.      *)
(***************************************************************************)
LayoutInv == GoodLayout /\ index \in L!Indices

LEMMA InitLayoutInv == ChunksArePowersOfTwo /\ Init => LayoutInv
<1> SUFFICES ASSUME ChunksArePowersOfTwo, Init PROVE LayoutInv
  OBVIOUS
<1>1. GoodLayout
  BY ArgumentsAssumption DEF Init, GoodLayout
<1>2. L!capacity \in Nat \ {0}
  <2>1. L!elements_per_chunk \in Nat \ {0} /\ L!max_strides \in Nat \ {0}
    BY <1>1, LayoutFacts DEF Init
  <2>2. L!max_strides * L!elements_per_chunk \in Nat \ {0}
    BY <2>1
  <2> QED
    BY <2>2 DEF L!capacity
<1>3. index = 0
  BY DEF Init
<1> QED
  BY <1>1, <1>2, <1>3 DEF LayoutInv, L!Indices

LEMMA StepLayoutInv == LayoutInv /\ [Next]_<<args, index>> => LayoutInv'
<1> SUFFICES ASSUME LayoutInv, [Next]_<<args, index>> PROVE LayoutInv'
  OBVIOUS
<1>1. UNCHANGED args
  BY DEF Next, args
<1>2. UNCHANGED <<offset, bit, channels, n, size>>
  BY <1>1 DEF args
<1>3. L!capacity' = L!capacity /\ L!ChunkDecodes' = L!ChunkDecodes
  BY <1>2 DEF L!ChunkDecodes, L!Indices, L!capacity, L!max_strides, L!stride_bytes,
              L!elements_per_chunk, L!chunk_mask, L!chunk_shift
<1>4. GoodLayout'
  BY <1>2, <1>3 DEF LayoutInv, GoodLayout, L!ConstructorAsserts
<1>5. index' \in L!Indices
  <2>1. L!capacity \in Nat
    BY LayoutFacts DEF LayoutInv
  <2>2. CASE UNCHANGED index
    BY <2>2 DEF LayoutInv
  <2>3. CASE Next
    BY <2>1, <2>3 DEF Next, LayoutInv, L!Indices
  <2> QED
    BY <2>2, <2>3
<1> QED
  BY <1>3, <1>4, <1>5 DEF LayoutInv, L!Indices

LEMMA AlwaysLayoutInv == ASSUME ChunksArePowersOfTwo PROVE Spec => []LayoutInv
  BY InitLayoutInv, StepLayoutInv, PTL DEF Spec

\* Every byte of every element is inside the page.
THEOREM AllElementsInPage == ASSUME ChunksArePowersOfTwo PROVE Spec => []ElementsInPage
<1>1. LayoutInv => ElementsInPage
  BY ElementInPage DEF LayoutInv, ElementsInPage
<1> QED
  BY <1>1, AlwaysLayoutInv, PTL

\* No byte belongs to two elements or to two replicas.
THEOREM AllElementsDisjoint == ASSUME ChunksArePowersOfTwo PROVE Spec => []ElementsDisjoint
<1>1. LayoutInv => ElementsDisjoint
  BY ElementDisjoint DEF LayoutInv, ElementsDisjoint
<1> QED
  BY <1>1, AlwaysLayoutInv, PTL

\* The replicas of an element are on different channels, whole.
THEOREM ReplicasAlwaysOnOwnChannels ==
  ASSUME ChunksArePowersOfTwo PROVE Spec => []ReplicasOnOwnChannels
<1>1. LayoutInv => ReplicasOnOwnChannels
  BY ElementOnOwnChannels DEF LayoutInv, ReplicasOnOwnChannels
<1> QED
  BY <1>1, AlwaysLayoutInv, PTL
===============================================================================
