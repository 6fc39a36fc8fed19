---------------------------- MODULE MCHedgedReader ----------------------------
(***************************************************************************)
(* HedgedReader on a page of 20 bytes: two channels of 4 bytes, elements   *)
(* of 2 bytes, so 2 elements a chunk, 2 strides, a capacity of 4 and a     *)
(* tail of 4 bytes that no stride uses.                                    *)
(***************************************************************************)
EXTENDS HedgedReader
===============================================================================
