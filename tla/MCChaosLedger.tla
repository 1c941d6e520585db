---------------------------- MODULE MCChaosLedger ----------------------------
(* Small request menus for the runs of ChaosLedger. *)
EXTENDS ChaosLedger

Ask(kind, value, duration) == [kind |-> kind, value |-> value, duration |-> duration]

OneDoor == {Ask("door_reluctance", 50, 1)}
AllRules == {Ask("ward_efficacy", 50, 2), Ask("hunger_rate", 2, 2),
             Ask("door_reluctance", 50, 2)}
RulesAndMessages == {Ask("ward_efficacy", 50, 2), Ask("hunger_rate", 2, 2)}
                    \cup {Ask("ambient", v, 0) : v \in {1, 2}}
=============================================================================
