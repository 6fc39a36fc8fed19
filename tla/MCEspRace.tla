------------------------------ MODULE MCEspRace ------------------------------
(***************************************************************************)
(* EspRace with three rounds: enough for a stop to be missed and for the   *)
(* rounds before and after it to be seen.                                  *)
(***************************************************************************)
EXTENDS EspRace
===============================================================================
