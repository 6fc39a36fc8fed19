------------------------------ MODULE MCFifoReader ------------------------------
(***************************************************************************)
(* FifoReader on a page of 20 bytes: two channels of 4 bytes, elements of  *)
(* 2 bytes, so 2 elements a chunk, 2 strides, a capacity of 4 and a tail   *)
(* of 4 bytes that no stride uses.  Machines: with all cores named,        *)
(* without the second worker's, without the client's, and with the         *)
(* client's core alone.                                                    *)
(***************************************************************************)
EXTENDS FifoReader

CONSTANTS v1, v2

MCMachines == {{11, 12, 14}, {11, 14}, {11, 12}, {14}}
MCExampleInserts == <<v1, v2>>
===============================================================================
