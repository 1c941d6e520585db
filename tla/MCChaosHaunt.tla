---------------------------- MODULE MCChaosHaunt ----------------------------
(* Replay bindings for the run of ChaosHaunt: a window of either turn. *)
EXTENDS ChaosHaunt

Staged == [turn : 1..2, seq : {3}]
=============================================================================
