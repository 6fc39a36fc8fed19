--------------------------- MODULE BenchSetupProofs ---------------------------
(***************************************************************************)
(* Proofs about BenchSetup: whatever fails, main gives back what it holds, *)
(* and the arms find their pages and distinct channels, for all settings   *)
(* and any physical memory.                                                *)
(***************************************************************************)
EXTENDS BenchSetup, TLAPS

Holding == {"resolve", "map_stress", "run", "unmap"}

\* The settings do not change, and they are settings that the program accepts.
ConfigInv ==
  /\ n_channels \in ChannelCounts /\ channel_offset \in ChannelOffsets
  /\ do_single_stress \in BOOLEAN /\ do_hedged_stress \in BOOLEAN
  /\ pc \in Holding \union {"map_replica", "exit0", "exit1"}

\* Where main is tells what it holds.
MappedInv ==
  /\ mapped \in [{"replica", "stress"} -> Int]
  /\ stress_page \in BOOLEAN
  /\ mapped["replica"] = IF pc \in Holding THEN 1 ELSE 0
  /\ mapped["stress"] = IF stress_page /\ pc \in {"run", "unmap"} THEN 1 ELSE 0
  /\ pc \in {"map_replica", "resolve", "map_stress", "exit1"} => ~stress_page
  /\ pc = "run" => (stress_page <=> WantsStressPage)

\* What has been resolved, and that a process which is shown no frame numbers
\* does not get past the first replica.
ResolvedInv ==
  /\ i \in 0..n_channels
  /\ i > 0 => privileged
  /\ pc = "map_replica" => i = 0
  /\ pc \in Holding => \A r \in 0..(i - 1) : phys_addrs[r] = PagemapAddress(r)
  /\ pc \in {"map_stress", "run"} => i = n_channels /\ ~ShareChannel

IInv == ConfigInv /\ MappedInv /\ ResolvedInv

-------------------------------------------------------------------------------
\* The first replica lies at offset 0 of its page: without the right to see
\* frame numbers its address is 0.
LEMMA UnprivilegedIsZero ==
  ASSUME ConfigInv, ~privileged
  PROVE  PagemapAddress(0) = 0
<1>1. channel_offset \in Nat /\ SmallPage \in Nat \ {0}
  BY SetupAssumption DEF ConfigInv, SetupAssumption
<1>2. 0 * channel_offset = 0 /\ 0 % SmallPage = 0
  BY <1>1
<1> QED
  BY <1>2 DEF PagemapAddress

\* At least one replica is asked for.
LEMMA CountIsPositive == ASSUME ConfigInv PROVE n_channels \in Nat \ {0}
  BY SetupAssumption DEF ConfigInv, SetupAssumption

\* main starts holding nothing.
LEMMA InitIInv == Init => IInv
<1> SUFFICES ASSUME Init PROVE IInv
  OBVIOUS
<1>1. ConfigInv
  BY DEF Init, ConfigInv
<1>2. MappedInv
  <2>1. mapped = [x \in {"replica", "stress"} |-> 0]
    BY DEF Init
  <2>2. /\ mapped \in [{"replica", "stress"} -> Int]
        /\ mapped["replica"] = 0 /\ mapped["stress"] = 0
    BY <2>1
  <2> QED
    BY <2>2 DEF Init, MappedInv, Holding
<1>3. ResolvedInv
  BY <1>1, CountIsPositive DEF Init, ResolvedInv, Holding
<1> QED
  BY <1>1, <1>2, <1>3 DEF IInv

\* Resolving a replica records its address, or gives the page back.
LEMMA ResolveIInv == ASSUME IInv, Resolve PROVE IInv'
<1>1. ConfigInv'
  BY DEF IInv, ConfigInv, Resolve, AbandonReplicas, config, Holding
<1>2. MappedInv'
  BY DEF IInv, MappedInv, Resolve, AbandonReplicas, Unmapped, config, Holding,
      WantsStressPage
<1>3. ResolvedInv'
  <2>1. i' \in 0..n_channels /\ n_channels' = n_channels /\ privileged' = privileged
    BY CountIsPositive DEF IInv, ResolvedInv, Resolve, AbandonReplicas, config
  <2>2. i' > 0 => privileged
    BY UnprivilegedIsZero, CountIsPositive
    DEF IInv, ResolvedInv, Resolve, virt_to_phys, AbandonReplicas
  <2>3. ASSUME pc' \in Holding, NEW r \in 0..(i' - 1)
        PROVE  phys_addrs'[r] = PagemapAddress(r)'
    <3>1. PagemapAddress(r)' = PagemapAddress(r)
      BY DEF Resolve, PagemapAddress, PhysicalAddress, config
    <3>2. /\ phys_addrs' = [q \in 0..i |-> IF q = i THEN PagemapAddress(i) ELSE phys_addrs[q]]
          /\ i' = i + 1 /\ i \in Nat /\ pc = "resolve"
      BY <2>3, CountIsPositive
      DEF IInv, ResolvedInv, Resolve, virt_to_phys, AbandonReplicas, Holding
    <3>3. r \in 0..i
      BY <3>2
    <3>4. r # i => phys_addrs[r] = PagemapAddress(r)
      BY <3>2, <3>3 DEF IInv, ResolvedInv, Holding
    <3> QED
      BY <3>1, <3>2, <3>3, <3>4
  <2>4. pc' \notin {"map_replica", "map_stress", "run"}
    BY DEF Resolve, AbandonReplicas
  <2> QED
    BY <2>1, <2>2, <2>3, <2>4 DEF ResolvedInv
<1> QED
  BY <1>1, <1>2, <1>3 DEF IInv

\* The steps that leave the resolved addresses alone.
LEMMA AddressesKept ==
  ASSUME ResolvedInv, UNCHANGED <<config, frame, i, phys_addrs>>,
         pc' \in Holding => pc \in Holding,
         pc' = "map_replica" => pc = "map_replica",
         pc' \in {"map_stress", "run"} => i = n_channels /\ ~ShareChannel
  PROVE  ResolvedInv'
<1>1. \A r : PagemapAddress(r)' = PagemapAddress(r)
  BY DEF PagemapAddress, PhysicalAddress, config
<1>2. ShareChannel' <=> ShareChannel
  BY DEF ShareChannel, Replicas, compute_channel, config
<1> QED
  BY <1>1, <1>2 DEF ResolvedInv, config

\* Every step keeps the invariant.
LEMMA StepIInv == IInv /\ [Next]_vars => IInv'
<1> SUFFICES ASSUME IInv, [Next]_vars PROVE IInv'
  OBVIOUS
<1>1. CASE MapReplicaPage
  <2>1. ConfigInv' /\ MappedInv'
    BY <1>1 DEF IInv, ConfigInv, MappedInv, MapReplicaPage, Goto, Mapped, config,
                Holding, WantsStressPage
  <2>2. ResolvedInv'
    BY <1>1 DEF IInv, ResolvedInv, MapReplicaPage, Goto, config
  <2> QED
    BY <2>1, <2>2 DEF IInv
<1>2. CASE MapReplicaPageFails
  <2>1. ConfigInv' /\ MappedInv'
    BY <1>2 DEF IInv, ConfigInv, MappedInv, MapReplicaPageFails, Goto, config, Holding
  <2>2. ResolvedInv'
    BY <1>2, AddressesKept DEF IInv, MapReplicaPageFails, Goto, Holding
  <2> QED
    BY <2>1, <2>2 DEF IInv
<1>3. CASE Resolve
  BY <1>3, ResolveIInv
<1>4. CASE CheckChannels
  <2>1. ConfigInv' /\ MappedInv'
    BY <1>4 DEF IInv, ConfigInv, MappedInv, CheckChannels, AbandonReplicas, Unmapped,
                config, Holding, WantsStressPage
  <2>2. ResolvedInv'
    BY <1>4, AddressesKept DEF IInv, CheckChannels, AbandonReplicas, Holding
  <2> QED
    BY <2>1, <2>2 DEF IInv
<1>5. CASE NoStressPage
  <2>1. ConfigInv' /\ MappedInv'
    BY <1>5 DEF IInv, ConfigInv, MappedInv, NoStressPage, Goto, config, Holding,
                WantsStressPage
  <2>2. ResolvedInv'
    BY <1>5, AddressesKept DEF IInv, NoStressPage, Goto, Holding, ResolvedInv
  <2> QED
    BY <2>1, <2>2 DEF IInv
<1>6. CASE MapStressPage
  <2>1. /\ ConfigInv' /\ WantsStressPage' /\ stress_page' = TRUE
        /\ pc = "map_stress" /\ pc' = "run" /\ mapped' = Mapped("stress")
    BY <1>6 DEF IInv, ConfigInv, MapStressPage, Goto, config, Holding, WantsStressPage
  <2>2. MappedInv'
    BY <2>1 DEF IInv, MappedInv, Mapped, Holding
  <2>3. ResolvedInv'
    BY <1>6, AddressesKept DEF IInv, MapStressPage, Goto, Holding, ResolvedInv
  <2> QED
    BY <2>1, <2>2, <2>3 DEF IInv
<1>7. CASE MapStressPageFails
  <2>1. ConfigInv' /\ MappedInv'
    BY <1>7 DEF IInv, ConfigInv, MappedInv, MapStressPageFails, ReplicasGivenUp,
                AbandonReplicas, Unmapped, config, Holding, WantsStressPage
  <2>2. ResolvedInv'
    BY <1>7, AddressesKept DEF IInv, MapStressPageFails, ReplicasGivenUp,
                AbandonReplicas, Holding
  <2> QED
    BY <2>1, <2>2 DEF IInv
<1>8. CASE ExecuteBenchmarks
  <2>1. ConfigInv' /\ MappedInv'
    BY <1>8 DEF IInv, ConfigInv, MappedInv, ExecuteBenchmarks, Goto, config, Holding
  <2>2. ResolvedInv'
    BY <1>8, AddressesKept DEF IInv, ExecuteBenchmarks, Goto, Holding
  <2> QED
    BY <2>1, <2>2 DEF IInv
<1>9. CASE UnmapAll
  <2>1. ConfigInv' /\ MappedInv'
    BY <1>9 DEF IInv, ConfigInv, MappedInv, UnmapAll, Goto, config, Holding
  <2>2. ResolvedInv'
    BY <1>9, AddressesKept DEF IInv, UnmapAll, Goto, Holding
  <2> QED
    BY <2>1, <2>2 DEF IInv
<1>10. CASE UNCHANGED vars
  <2>1. ConfigInv' /\ MappedInv'
    BY <1>10 DEF IInv, ConfigInv, MappedInv, vars, config, WantsStressPage
  <2>2. ResolvedInv'
    BY <1>10, AddressesKept DEF IInv, vars, ResolvedInv
  <2> QED
    BY <2>1, <2>2 DEF IInv
<1> QED
  BY <1>1, <1>2, <1>3, <1>4, <1>5, <1>6, <1>7, <1>8, <1>9, <1>10 DEF Next

\* main never leaves the invariant.
LEMMA AlwaysIInv == Spec => []IInv
<1> QED
  BY InitIInv, StepIInv, PTL DEF Spec

-------------------------------------------------------------------------------
\* Whichever step fails, main gives back both pages, each once.
THEOREM GivesEverythingBack == Spec => []NothingLeaks
<1>1. IInv => NothingLeaks
  BY DEF IInv, MappedInv, NothingLeaks, Holding
<1> QED
  BY <1>1, AlwaysIInv, PTL

\* The arms run with their pages mapped and with all replicas on different
\* channels of physical memory, however main was configured.
THEOREM ChannelsAreDistinct == Spec => []ArmsOnDistinctChannels
<1>1. ASSUME IInv, pc = "run"
      PROVE  \A r, s \in Replicas :
               r # s => compute_channel(PhysicalAddress(r)) # compute_channel(PhysicalAddress(s))
  <2>1. /\ i = n_channels /\ privileged /\ ~ShareChannel /\ Replicas \subseteq Int
        /\ \A r \in Replicas : phys_addrs[r] = PhysicalAddress(r)
    BY <1>1, CountIsPositive DEF IInv, ResolvedInv, Replicas, Holding, PagemapAddress
  <2>2. ASSUME NEW r \in Replicas, NEW s \in Replicas, r < s
        PROVE  compute_channel(PhysicalAddress(r)) # compute_channel(PhysicalAddress(s))
    BY <2>1, <2>2 DEF ShareChannel
  <2> QED
    BY <2>1, <2>2
<1>2. IInv => ArmsOnDistinctChannels
  BY <1>1 DEF IInv, MappedInv, ArmsOnDistinctChannels, WantsStressPage, Holding
<1> QED
  BY <1>2, AlwaysIInv, PTL
===============================================================================
