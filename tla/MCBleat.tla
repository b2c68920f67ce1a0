------------------------------ MODULE MCBleat ------------------------------
(***************************************************************************)
(* Bleat with one log of two second periods.                               *)
(***************************************************************************)
EXTENDS Bleat, TLC

CONSTANT a

MCBases == {a}
MCCycle == a :> 2
=============================================================================
