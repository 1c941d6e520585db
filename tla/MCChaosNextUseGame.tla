------------------------- MODULE MCChaosNextUseGame -------------------------
(* The families of ChaosNextUseGame are treated alike. *)
EXTENDS ChaosNextUseGame, TLC

Alike == Permutations(Families)

=============================================================================
