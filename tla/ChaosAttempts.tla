--------------------------- MODULE ChaosAttempts ---------------------------
(****************************************************************************)
(* What the engine promises of the next-use programs of one game, whatever  *)
(* is published, lost or restored: at most Cap attempts, decided one after   *)
(* the other; none follows a program that runs or whose record is lost; and  *)
(* no attempt is ever taken back, except by going back to what was saved.    *)
(****************************************************************************)
EXTENDS Naturals, Sequences

CONSTANT Cap  \* CHAOS_NEXT_USE_PROGRAM_CAP

VARIABLES
    attempts, \* what became of each attempt, in order
    kept      \* the same in the latest save

vars == <<attempts, kept>>

Init == attempts = <<>> /\ kept = <<>>

Latest == attempts[Len(attempts)]
Becomes(fate) == attempts' = [attempts EXCEPT ![Len(attempts)] = fate]

(* An envelope is decided, perhaps in a game saved in the same instant. *)
Decide ==
    /\ Len(attempts) < Cap
    /\ attempts # <<>> => Latest \in {"refused", "closed"}
    /\ \E fate \in {"refused", "running", "lost"} : attempts' = Append(attempts, fate)
    /\ kept' \in {kept, attempts'}

(* The program ends with its record whole, or its record fails. *)
Finish ==
    /\ attempts # <<>> /\ Latest = "running"
    /\ \E fate \in {"closed", "lost"} : Becomes(fate)
    /\ UNCHANGED kept

Keep == kept' = attempts /\ UNCHANGED attempts

GoBack == attempts' = kept /\ UNCHANGED kept

(* The record a restored program needs is not the one it left. *)
Disown ==
    /\ attempts # <<>> /\ Latest \in {"running", "closed"}
    /\ Becomes("lost") /\ UNCHANGED kept

Next == Decide \/ Finish \/ Keep \/ GoBack \/ Disown

Spec == Init /\ [][Next]_vars
=============================================================================
