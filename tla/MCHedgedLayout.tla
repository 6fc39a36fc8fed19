---------------------------- MODULE MCHedgedLayout ----------------------------
(***************************************************************************)
(* HedgedLayout over every combination of constructor and template         *)
(* arguments from small sets that passes the constructor's asserts.  The   *)
(* arguments are variables that never change; index walks through the      *)
(* logical indices as successive inserts do.                               *)
(***************************************************************************)
EXTENDS Integers, FiniteSets

CONSTANTS
  Offsets, Bits, Channels, ReplicaCounts, Sizes, PageSize,
  ChunksArePowersOfTwo    \* TRUE: only arguments for which ChunkDecodes holds

ASSUME ArgumentsAssumption ==
  /\ Offsets \subseteq Nat \ {0} /\ Sizes \subseteq Nat \ {0}
  /\ Channels \subseteq Nat \ {0} /\ ReplicaCounts \subseteq Nat \ {0}
  /\ PageSize \in Nat
  /\ ChunksArePowersOfTwo \in BOOLEAN

VARIABLES offset, bit, channels, n, size, index

args == <<offset, bit, channels, n, size>>

L == INSTANCE HedgedLayout
       WITH ChannelOffset <- offset, ChannelBit <- bit, NumChannels <- channels,
            N <- n, SizeofT <- size, SuperpageSize <- PageSize

Init ==
  /\ offset \in Offsets /\ bit \in Bits /\ channels \in Channels
  /\ n \in ReplicaCounts /\ size \in Sizes
  /\ L!ConstructorAsserts
  /\ L!max_strides > 0
  /\ ChunksArePowersOfTwo => L!ChunkDecodes
  /\ index = 0

Next ==
  /\ index + 1 < L!capacity
  /\ index' = index + 1
  /\ UNCHANGED args

Spec == Init /\ [][Next]_<<args, index>>

-------------------------------------------------------------------------------
\* The element under index is in the page, apart from those before it, and has its
\* replicas on channels of their own.
ElementsInPage        == L!ElementsInPage(index)
ElementsDisjoint      == L!ElementsDisjoint(index)
ReplicasOnOwnChannels == L!ReplicasOnOwnChannels(index)
===============================================================================
