--------------------------- MODULE MCChaosNextUse ---------------------------
(* Values of ChaosNextUse's constants for TLC. *)
EXTENDS ChaosNextUse

(* Every single-use program, and every broad one that may have two effects. *)
EveryKind == {p \in Declarable : p.uses # 1}

=============================================================================
