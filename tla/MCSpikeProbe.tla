----------------------------- MODULE MCSpikeProbe -----------------------------
(***************************************************************************)
(* Runs of SpikeProbe.  40 cycles is the usual read, 80 twice that (Mult   *)
(* is 2, so thresholds are met exactly), 120 a refresh.                    *)
(***************************************************************************)
EXTENDS SpikeProbe

MCLatencies == {40, 80, 120}
MCGaps == {1, 7}
MCRequested == {-1, 4}
MCManual == {0, 80}
===============================================================================
