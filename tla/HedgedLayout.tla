----------------------------- MODULE HedgedLayout -----------------------------
(***************************************************************************)
(* The address arithmetic of HedgedReader                                  *)
(* (include/tailslayer/hedged_reader.hpp): where replica r of the element  *)
(* with logical index i lives in the superpage.  Every quantity is a byte  *)
(* offset from replica_page_, which is aligned to the superpage size, so   *)
(* the low bits of an offset are the low bits of the physical address.     *)
(*                                                                         *)
(* The module has no ASSUME: it is instantiated with every combination of  *)
(* constructor arguments, the ones the constructor's asserts accept and    *)
(* the arithmetic nevertheless mishandles included.                        *)
(***************************************************************************)
EXTENDS Integers, FiniteSetsExt

CONSTANTS
  ChannelOffset,   \* channel_offset_, in bytes
  ChannelBit,      \* channel_bit_
  NumChannels,     \* num_channels_
  N,               \* number of replicas (template parameter N)
  SizeofT,         \* sizeof(T)
  SuperpageSize    \* SUPERPAGE_SIZE

AddressBits == 0..29   \* bits of an offset into a superpage of 2^30 bytes

Bit(x, k) == (x \div 2^k) % 2

\* Bitwise AND of two offsets.
BitAnd(x, y) == SumSet({2^k : k \in {b \in AddressBits : Bit(x, b) = 1 /\ Bit(y, b) = 1}})

\* Number of trailing zero bits of x > 0 (__builtin_ctzll).
CountTrailingZeros(x) == CHOOSE k \in 0..x : x % 2^k = 0 /\ x % 2^(k + 1) # 0

-------------------------------------------------------------------------------
(***************************************************************************)
(* The constructor's asserts and what it precomputes.                      *)
(***************************************************************************)

ConstructorAsserts ==
  /\ ChannelOffset % SizeofT = 0
  /\ N <= NumChannels

elements_per_chunk == ChannelOffset \div SizeofT

chunk_mask == elements_per_chunk - 1

chunk_shift == CountTrailingZeros(elements_per_chunk)

\* The stride of a single channel: the other channels' chunks are not skipped.
stride_in_elements_one_channel == ChannelOffset \div SizeofT
stride_in_elements == (NumChannels * ChannelOffset) \div SizeofT

stride_bytes == NumChannels * ChannelOffset

\* Rounded up: the last stride may not fit.
max_strides_rounded_up == (SuperpageSize + stride_bytes - 1) \div stride_bytes
max_strides == SuperpageSize \div stride_bytes

capacity == max_strides * elements_per_chunk

Replicas == 0..(N - 1)
Indices  == 0..(capacity - 1)

-------------------------------------------------------------------------------
(***************************************************************************)
(* get_next_logical_index_address: T* arithmetic on replicas_[r], itself   *)
(* replica_page_ + r * channel_offset_.                                    *)
(***************************************************************************)

ElementOffset(i) ==
  LET chunk_idx       == i \div 2^chunk_shift
      offset_in_chunk == BitAnd(i, chunk_mask)
  IN  chunk_idx * stride_in_elements + offset_in_chunk

\* Replica bases one element apart instead of one channel apart.
ReplicaBaseAdjacent(r) == r * SizeofT
ReplicaBase(r) == r * ChannelOffset

Address(r, i) == ReplicaBase(r) + ElementOffset(i) * SizeofT

\* HardwareUtils::compute_channel, the repository's own notion of a channel.
compute_channel(phys) == (phys \div 2^ChannelBit) % 2

-------------------------------------------------------------------------------
(***************************************************************************)
(* What the layout needs beyond the asserts: shift and mask split an index *)
(* the way division and remainder do.  It is so exactly when a chunk holds *)
(* a power of two of elements.                                             *)
(***************************************************************************)

ChunkDecodes ==
  /\ 2^chunk_shift = elements_per_chunk
  /\ \A i \in Indices : BitAnd(i, chunk_mask) = i % elements_per_chunk

\* The channel offset flips exactly the channel bit.
OffsetIsChannelBit == ChannelOffset = 2^ChannelBit
-------------------------------------------------------------------------------
(***************************************************************************)
(* Properties, of the element with logical index k: what the arithmetic    *)
(* has to give for all k \in Indices.                                      *)
(***************************************************************************)

\* The bytes of replica r of element k.
Extent(r, k) == Address(r, k) .. (Address(r, k) + SizeofT - 1)

\* Every replica of the element lies inside the superpage.
ElementsInPage(k) == \A r \in Replicas : Extent(r, k) \subseteq 0..(SuperpageSize - 1)

\* None of its bytes belongs to an earlier element, nor to two of its replicas:
\* the reader "acts as a hedged vector that uses logical indices".
ElementsDisjoint(k) ==
  \A r, s \in Replicas : \A j \in 0..k :
    <<r, k>> # <<s, j>> => Extent(r, k) \cap Extent(s, j) = {}

\* All bytes of two replicas of the element are on different channels, as
\* compute_channel of the benchmark tells channels apart (it knows two), when the
\* channel offset is the one that belongs to the channel bit.  So no replica
\* straddles a channel boundary either.
ReplicasOnOwnChannels(k) ==
  OffsetIsChannelBit /\ N <= 2 =>
    \A r, s \in Replicas : \A a \in Extent(r, k), b \in Extent(s, k) :
      r # s => compute_channel(a) # compute_channel(b)
===============================================================================
