----------------------------- MODULE MCBenchSetup -----------------------------
(***************************************************************************)
(* BenchSetup with pages of 8 bytes, superpages of 32 and six frames, two  *)
(* of them outside the one superpage that they hold: channel bits          *)
(* below and at the page size, one to four replicas, offsets that match    *)
(* the channel bit and offsets that do not.                                *)
(***************************************************************************)
EXTENDS BenchSetup
===============================================================================
