---------------------------- MODULE ChaosAuthored ----------------------------
(****************************************************************************)
(* What a game may count on from model authoring (chaos/lane.py): for one   *)
(* surface -- the curio or the hound -- the model is asked at most once in  *)
(* the game, crashes and restores included; one candidate at most is ever   *)
(* put before the engine, and it never changes; and what the engine reads,  *)
(* it reads once and whole.  ChaosLane is shown to implement this.          *)
(****************************************************************************)
EXTENDS Naturals

VARIABLES
    fallback,   \* whether hand-made content may take the model's place
    requests, content, read

vars == <<fallback, requests, content, read>>

Init == fallback \in BOOLEAN /\ requests = 0 /\ content = "none" /\ read = "none"

Ask == requests = 0 /\ requests' = 1 /\ UNCHANGED <<fallback, content, read>>

Offer ==
    /\ content = "none"
    /\ \/ requests = 1 /\ content' = "model"
       \/ fallback /\ content' = "hand"
    /\ UNCHANGED <<fallback, requests, read>>

Read ==
    /\ content # "none" /\ read = "none" /\ read' = content
    /\ UNCHANGED <<fallback, requests, content>>

Next == Ask \/ Offer \/ Read

Spec == Init /\ [][Next]_vars
=============================================================================
