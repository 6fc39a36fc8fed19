------------------------------- MODULE MCFifoArm -------------------------------
(***************************************************************************)
(* FifoArm with every selection of the four arms, two channels, two stress *)
(* threads and two samples a thread, with and without chrt, on five        *)
(* machines: with all cores named, without the second stress core, without *)
(* a measurement core, without CORE_MAIN, and with the stress cores alone. *)
(* --core-b is its default or the first stress core.                       *)
(***************************************************************************)
EXTENDS FifoArm

MCStressCores == <<8, 24>>
MCMachines == {{8, 11, 12, 14, 24}, {8, 11, 12, 14}, {8, 11, 14, 24}, {8, 11, 12, 24}, {8, 24}}
===============================================================================
