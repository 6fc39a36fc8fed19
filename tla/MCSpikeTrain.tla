----------------------------- MODULE MCSpikeTrain -----------------------------
(***************************************************************************)
(* Runs of SpikeTrain.  T is 40 cycles; a refresh can be seen 2 late, and  *)
(* T be taken for 39, so that three periods can be 5 cycles off what is    *)
(* expected, where 15% is 5.85.  Noise falls near the next refresh (within *)
(* 15%) as well as far from both, half a T away among others.              *)
(***************************************************************************)
EXTENDS SpikeTrain

MCLate == {0, 2}
MCShort == {0, 1}
MCNoiseAt == {8, 20, 36}
===============================================================================
