----------------------------- MODULE MCPairSamples -----------------------------
(***************************************************************************)
(* PairSamples on all inputs of a small size: two channels of three        *)
(* samples, stamped in six cycles of the counter, with a gap of two.       *)
(***************************************************************************)
EXTENDS PairSamples

MCTimestamps == 0..5
MCLatencies  == {1, 2}
===============================================================================
