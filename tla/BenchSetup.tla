------------------------------ MODULE BenchSetup ------------------------------
(***************************************************************************)
(* main() of the benchmark (discovery/benchmark/main.cpp) around the arms: *)
(* map a page for the replicas, place one replica per channel, resolve     *)
(* their physical addresses and check the channels, map a page for the     *)
(* stress threads if an arm wants one, run, unmap.  Each step may fail, at *)
(* which main returns 1 after giving back what it holds.                   *)
(*                                                                         *)
(* Physical memory is the environment's: a superpage is contiguous and     *)
(* aligned, the small pages of the fallback lie anywhere.                  *)
(***************************************************************************)
EXTENDS Integers

CONSTANTS
  ChannelCounts,   \* values of --channels
  ChannelOffsets,  \* values of --channel-offset
  ChannelBits,     \* values of --channel-bit
  SuperpageSize,   \* SUPERPAGE_SIZE
  SmallPage,       \* 4096
  Frames,          \* physical page frames of SmallPage bytes
  HwChannels       \* channels of the memory controller, from ChannelBit upwards

PagesPerSuperpage == SuperpageSize \div SmallPage
Pages == 0..(PagesPerSuperpage - 1)

ASSUME SetupAssumption ==
  /\ ChannelCounts \subseteq Nat \ {0} /\ ChannelOffsets \subseteq Nat /\ ChannelBits \subseteq Nat
  /\ SmallPage \in Nat \ {0} /\ SuperpageSize % SmallPage = 0
  /\ Frames \subseteq Nat \ {0}
  /\ \A n \in ChannelCounts, o \in ChannelOffsets : (n - 1) * o < SuperpageSize

VARIABLES
  pc,              \* where main is; "resolve" covers the channel check
  n_channels, channel_offset, channel_bit,
  do_single_stress, do_hedged_stress,
  privileged,      \* whether the kernel shows page frames to the process
  frame,           \* frame[p]: the frame behind page p of the replica page
  mapped,          \* mapped[x]: mmaps of page x less munmaps
  replica_page, stress_page,   \* whether the pointer is set
  i,               \* replica being resolved
  phys_addrs

config == <<n_channels, channel_offset, channel_bit, do_single_stress, do_hedged_stress, privileged>>
vars == <<pc, config, frame, mapped, replica_page, stress_page, i, phys_addrs>>

Init ==
  /\ pc = "map_replica"
  /\ n_channels \in ChannelCounts
  /\ channel_offset \in ChannelOffsets /\ channel_bit \in ChannelBits
  /\ do_single_stress \in BOOLEAN /\ do_hedged_stress \in BOOLEAN
  /\ privileged \in BOOLEAN
  /\ frame = [p \in Pages |-> 0]
  /\ mapped = [x \in {"replica", "stress"} |-> 0]
  /\ replica_page = FALSE /\ stress_page = FALSE
  /\ i = 0
  /\ phys_addrs = <<>>

Goto(from, to) == pc = from /\ pc' = to

Mapped(x) == [mapped EXCEPT ![x] = @ + 1]
Unmapped(x) == [mapped EXCEPT ![x] = @ - 1]

Replicas == 0..(n_channels - 1)

-------------------------------------------------------------------------------
(***************************************************************************)
(* setup_replica_page.                                                     *)
(***************************************************************************)

\* Frames behind the replica page: a superpage's, or those of the fallback.
Superpages ==
  {[p \in Pages |-> base + p] : base \in {f \in Frames : f % PagesPerSuperpage = 0}}
SmallPages == {fs \in [Pages -> Frames] : \A p, q \in Pages : p # q => fs[p] # fs[q]}

MapReplicaPage ==
  /\ Goto("map_replica", "resolve")
  /\ frame' \in Superpages \union SmallPages
  /\ mapped' = Mapped("replica")
  /\ replica_page' = TRUE
  /\ UNCHANGED <<config, stress_page, i, phys_addrs>>

\* Neither mmap succeeds.
MapReplicaPageFails ==
  /\ Goto("map_replica", "exit1")
  /\ UNCHANGED <<config, frame, mapped, replica_page, stress_page, i, phys_addrs>>

PhysicalAddress(r) ==
  LET v == r * channel_offset
  IN  frame[v \div SmallPage] * SmallPage + (v % SmallPage)

\* The page's entry in the pagemap shows an unprivileged process frame number 0.
PagemapAddress(r) ==
  IF privileged THEN PhysicalAddress(r) ELSE (r * channel_offset) % SmallPage

\* virt_to_phys: any call may fail to open or read the pagemap, or find no page.
virt_to_phys(r) == {PagemapAddress(r), 0}

compute_channel(phys) == (phys \div (2^channel_bit)) % 2

\* Give the replica page back and leave.
AbandonReplicas ==
  /\ pc' = "exit1"
  /\ mapped' = Unmapped("replica")
  /\ replica_page' = FALSE

Resolve ==
  /\ pc = "resolve"
  /\ i < n_channels
  /\ \E phys \in virt_to_phys(i) :
       IF phys = 0
       THEN AbandonReplicas /\ UNCHANGED <<i, phys_addrs>>
       ELSE /\ phys_addrs' = [r \in 0..i |-> IF r = i THEN phys ELSE phys_addrs[r]]
            /\ i' = i + 1
            /\ UNCHANGED <<pc, mapped, replica_page>>
  /\ UNCHANGED <<config, frame, stress_page>>

\* Neighbours only compared.
NeighboursShareChannel ==
  \E r \in Replicas : r + 1 \in Replicas /\
    compute_channel(phys_addrs[r]) = compute_channel(phys_addrs[r + 1])
ShareChannel ==
  \E r, s \in Replicas : r < s /\ compute_channel(phys_addrs[r]) = compute_channel(phys_addrs[s])

CheckChannels ==
  /\ pc = "resolve"
  /\ i = n_channels
  /\ IF ShareChannel
     THEN AbandonReplicas
     ELSE pc' = "map_stress" /\ UNCHANGED <<mapped, replica_page>>
  /\ UNCHANGED <<config, frame, stress_page, i, phys_addrs>>

-------------------------------------------------------------------------------
(***************************************************************************)
(* setup_stress_page, and what setup_memory does when it fails.            *)
(***************************************************************************)

WantsStressPage == do_single_stress \/ do_hedged_stress

NoStressPage ==
  /\ ~WantsStressPage
  /\ Goto("map_stress", "run")
  /\ UNCHANGED <<config, frame, mapped, replica_page, stress_page, i, phys_addrs>>

MapStressPage ==
  /\ WantsStressPage
  /\ Goto("map_stress", "run")
  /\ mapped' = Mapped("stress")
  /\ stress_page' = TRUE
  /\ UNCHANGED <<config, frame, replica_page, i, phys_addrs>>

\* The failed setup returned without a munmap of the replicas.
ReplicasKept == pc' = "exit1" /\ UNCHANGED <<mapped, replica_page>>
ReplicasGivenUp == AbandonReplicas

MapStressPageFails ==
  /\ WantsStressPage
  /\ pc = "map_stress"
  /\ ReplicasGivenUp
  /\ UNCHANGED <<config, frame, stress_page, i, phys_addrs>>

-------------------------------------------------------------------------------
(***************************************************************************)
(* The end of main.  Between "run" and "unmap" the arms are run.           *)
(***************************************************************************)

ExecuteBenchmarks ==
  /\ Goto("run", "unmap")
  /\ UNCHANGED <<config, frame, mapped, replica_page, stress_page, i, phys_addrs>>

UnmapAll ==
  /\ Goto("unmap", "exit0")
  /\ mapped' = [x \in {"replica", "stress"} |->
                  IF x = "replica" \/ stress_page THEN mapped[x] - 1 ELSE mapped[x]]
  /\ UNCHANGED <<config, frame, replica_page, stress_page, i, phys_addrs>>

Next ==
  \/ MapReplicaPage \/ MapReplicaPageFails \/ Resolve \/ CheckChannels
  \/ NoStressPage \/ MapStressPage \/ MapStressPageFails
  \/ ExecuteBenchmarks \/ UnmapAll

Spec == Init /\ [][Next]_vars

-------------------------------------------------------------------------------
(***************************************************************************)
(* Properties.                                                             *)
(***************************************************************************)

\* Whichever step fails, main returns with everything given back, once.
NothingLeaks == pc \in {"exit0", "exit1"} => \A x \in {"replica", "stress"} : mapped[x] = 0

\* The arms run only with what they measure: the replicas on different channels
\* in physical memory, be it contiguous or not, shown to the process or not, and
\* a page for the stress threads if any arm has them.
ArmsOnDistinctChannels ==
  pc = "run" =>
    /\ mapped["replica"] = 1
    /\ do_single_stress \/ do_hedged_stress => mapped["stress"] = 1
    /\ \A r, s \in Replicas :
         r # s => compute_channel(PhysicalAddress(r)) # compute_channel(PhysicalAddress(s))

\* The channel of a physical address on a controller with HwChannels channels.
hw_channel(phys) == (phys \div (2^channel_bit)) % HwChannels

\* "full N-way usage is available in the benchmark": replicas whose addresses
\* are known are turned away only if two of them are on one channel.
DistinctChannelsAccepted ==
  [][pc = "resolve" /\ i = n_channels /\ pc' = "exit1" =>
       \E r, s \in Replicas : r # s /\ hw_channel(phys_addrs[r]) = hw_channel(phys_addrs[s])]_vars
===============================================================================
