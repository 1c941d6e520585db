----------------------------- MODULE ChaosHaunt -----------------------------
(****************************************************************************)
(* The hound (src/chaos_haunt.c): the engine looks for one candidate, tries *)
(* it once in a forked child (src/chaos_shadow.c), and only then lets it    *)
(* into the game.  The looks can be found again by a replay; the trial is   *)
(* two processes, a pipe and two deadlines; and the game may be saved, hung *)
(* up, killed or restored around all of it.                                 *)
(****************************************************************************)
EXTENDS Naturals

CONSTANTS
    MaxSeq,     \* CHAOS_MAX_COUNTER, the last event number
    MaxTurn,    \* bound: turns
    HuntTurns,  \* how long a hunt lasts (60)
    MaxRuns,    \* bound: processes of one game
    Bindings,   \* replay bindings to consider: windows of haunting-due
    Lossy       \* whether a write may fail

VARIABLES
    game,       \* what a save carries: moves, u.chaos.seq, u.haunt and the debit
    saved,      \* the save file or the latest checkpoint
    proc,       \* the engine's process: where it is, and its static variables
    candidate,  \* haunting.lua
    due,        \* haunting-due: the window a replay is bound to
    used,       \* haunting-used.lua
    receipt,    \* dreamlands.json: what the trial said
    trial,      \* the child, its report and its end
    log,        \* events.jsonl, as far as the candidate is concerned
    look,       \* history: the latest look, and whether it was the first in its window
    trials      \* history: children forked

engine == <<game, proc, log, look>>
inbox == <<candidate, due>>
evidence == <<used, receipt>>
vars == <<engine, saved, inbox, evidence, trial, trials>>

Window == [turn : 0..MaxTurn, seq : 0..(MaxSeq + 1)]
NoWindow == [turn |-> 0, seq |-> 0]
Invalid == [turn |-> 0, seq |-> 1]      \* a haunting-due that does not parse

ASSUME HauntAssumption ==
    /\ MaxSeq \in Nat \ {0} /\ MaxTurn \in Nat \ {0} /\ HuntTurns \in Nat \ {0}
    /\ MaxRuns \in Nat \ {0}
    /\ Bindings \subseteq Window /\ Lossy \in BOOLEAN

Before(v, w) == v.turn < w.turn \/ (v.turn = w.turn /\ v.seq < w.seq)

NoFirst == [at |-> NoWindow, fresh |-> FALSE, straight |-> FALSE]
NoLook == [at |-> NoWindow, fresh |-> FALSE]
NoTrial == [child |-> "none", status |-> "none", boxed |-> FALSE, report |-> "none",
            piped |-> FALSE, killed |-> FALSE]
Down == [at |-> "down", mute |-> FALSE, empty |-> NoWindow, budgetLogged |-> FALSE,
         run |-> 1]

Game == [turn : 1..MaxTurn, seq : 0..MaxSeq, checked : BOOLEAN, backtracks : BOOLEAN,
         tick : 0..MaxTurn, active : BOOLEAN, until : 0..(MaxTurn + HuntTurns),
         echo : {"none", "pending", "told"}, charged : 0..1]
Process == [at : {"down", "play", "tick", "trial", "reaping", "announce"},
            mute : BOOLEAN, empty : Window, budgetLogged : BOOLEAN, run : 1..MaxRuns]
Trial == [child : {"none", "setup", "trying", "leaving", "gone"},
          status : {"none", "clean", "error", "signal"}, boxed : BOOLEAN,
          report : {"none", "passed", "failed", "died"},
          piped : BOOLEAN, killed : BOOLEAN]
Log == [first : [at : Window, fresh : BOOLEAN, straight : BOOLEAN],
        preAdmitted : BOOLEAN, straight : BOOLEAN]

TypeOK ==
    /\ game \in Game /\ saved \in Game /\ proc \in Process /\ trial \in Trial
    /\ candidate \in {"none", "good", "bad"} /\ due \in Window
    /\ used \in {"none", "torn", "whole"} /\ receipt \in {"none", "torn", "passed", "failed"}
    /\ log \in Log /\ look \in [at : Window, fresh : BOOLEAN] /\ trials \in Nat

(* a candidate installed before the play, or published during it; a replay is
   staged with its candidate and its binding                                  *)
Init ==
    /\ game = [turn |-> 1, seq |-> 0, checked |-> FALSE, backtracks |-> FALSE, tick |-> 0,
               active |-> FALSE, until |-> 0, echo |-> "none", charged |-> 0]
    /\ saved = game /\ proc = [Down EXCEPT !.at = "play"]
    /\ \/ due = NoWindow /\ candidate \in {"none", "good", "bad"}
       \/ due \in Bindings \cup {Invalid} /\ candidate \in {"good", "bad"}
    /\ used = "none" /\ receipt = "none" /\ trial = NoTrial
    /\ log = [first |-> NoFirst, preAdmitted |-> FALSE, straight |-> TRUE]
    /\ look = NoLook /\ trials = 0

-----------------------------------------------------------------------------
(* An event about the candidate, or any other (the name is "" then).  The engine's
   part of the state is carried through a handler as one record.                *)

Now == [game |-> game, proc |-> proc, log |-> log, look |-> look]

Becomes(w) == game' = w.game /\ proc' = w.proc /\ log' = w.log /\ look' = w.look

(* (turn, next event number) *)
Here(g) == [turn |-> g.turn, seq |-> g.seq + 1]

FirstEvents == {"budget", "pre_admitted", "rejected", "shadow_failed", "source_rejected"}

Line(w, name) ==
    [w EXCEPT !.log.first = IF name \in FirstEvents /\ @ = NoFirst
                            THEN [at |-> Here(w.game), fresh |-> w.look.fresh,
                                  straight |-> w.log.straight]
                            ELSE @,
              !.log.preAdmitted = @ \/ name = "pre_admitted"]

Counted(w, name) == [Line(w, name) EXCEPT !.game.seq = @ + 1]
Lost(w) == [w EXCEPT !.proc.mute = TRUE]
Landed(w, name) == [Line(w, name) EXCEPT !.proc.mute = TRUE, !.log.straight = FALSE]

(* Wrong: the counter goes past its last value. *)
Overflows(w) == w.proc.mute

Silent(w) == w.proc.mute \/ w.game.seq = MaxSeq

(* chaos_event: counted; or nothing at all; or its write fails, perhaps landed *)
Said(w, name) ==
    IF Silent(w) THEN {w}
    ELSE {Counted(w, name)} \cup (IF Lossy THEN {Lost(w), Landed(w, name)} ELSE {})

Going(w, at) == [w EXCEPT !.proc.at = at]

-----------------------------------------------------------------------------
(* The game between two ticks, and its saves *)

Rest == UNCHANGED <<inbox, evidence, trial, trials>>

(* a child whose report nobody will read any more: it has nothing else to write to *)
Forgotten == trial' = NoTrial

Orphaned ==
    /\ IF proc.at \in {"trial", "reaping"} THEN Forgotten ELSE UNCHANGED trial
    /\ UNCHANGED <<inbox, evidence, trials>>

Passes ==
    /\ proc.at = "play" /\ game.turn < MaxTurn /\ game' = [game EXCEPT !.turn = @ + 1]
    /\ UNCHANGED <<saved, proc, log, look>> /\ Rest

(* an event of another part of the engine *)
Elsewhere ==
    /\ proc.at = "play" /\ \E w \in Said(Now, "") : Becomes(w)
    /\ UNCHANGED saved /\ Rest

(* chaos_haunt_died *)
HoundDies ==
    /\ proc.at = "play" /\ game.active
    /\ \E w \in Said([Now EXCEPT !.game.active = FALSE], "killed") : Becomes(w)
    /\ UNCHANGED saved /\ Rest

(* savestateinlock, or a save that is followed by a Crash (bound: of the last
   process none is looked at)                                                  *)
Checkpoint ==
    /\ proc.at = "play" /\ proc.run < MaxRuns /\ saved' = game
    /\ UNCHANGED engine /\ Rest

(* a hangup where the engine waits: for the player, the child, or a --More-- *)
Hangup ==
    /\ proc.at \in {"play", "trial", "announce"}
    /\ saved' = game /\ proc' = [Down EXCEPT !.run = proc.run]
    /\ UNCHANGED <<game, log, look>> /\ Orphaned

(* the play is one that can be recorded only if it goes on where it was *)
Crash ==
    /\ proc.at # "down" /\ proc' = [Down EXCEPT !.run = proc.run]
    /\ game' = saved /\ log' = [log EXCEPT !.straight = @ /\ Here(saved) = Here(game)]
    /\ UNCHANGED <<saved, look>> /\ Orphaned

(* chaos_start, with its session event *)
Restore ==
    /\ proc.at = "down" /\ proc.run < MaxRuns
    /\ \E w \in Said([Now EXCEPT !.proc = [Down EXCEPT !.at = "play", !.run = proc.run + 1]],
                      "session") : Becomes(w)
    /\ UNCHANGED saved /\ Rest

(* haunting.lua is renamed into place while the game is played (ChaosLane) *)
Publish ==
    /\ due = NoWindow /\ candidate = "none" /\ candidate' = "good"
    /\ UNCHANGED <<engine, saved, due, evidence, trial, trials>>

-----------------------------------------------------------------------------
(* chaos_haunt_tick *)

(* recollect: the echo of a trial is told once, when the hero may be told *)
Recollected(g) == {g} \cup (IF g.echo = "pending" THEN {[g EXCEPT !.echo = "told"]} ELSE {})

(* its first half: the end of the hunt, the hero's trail, the echo.  Whether the
   log may be written was asked before it, and is not asked again.           *)
Ended(w, over) == IF over THEN Said([w EXCEPT !.game.active = FALSE], "expired") ELSE {w}
Trailed(w, back) == IF back THEN Said([w EXCEPT !.game.backtracks = TRUE], "") ELSE {w}

TickBegins ==
    /\ proc.at = "play"
    /\ \E over, back \in BOOLEAN :
         /\ over => game.active      \* its time is up, or the hero left the level
         /\ game.active /\ game.turn >= game.until => over
         /\ back => game.tick # game.turn
         /\ \E v \in Ended(Now, over) :
            \E w \in Trailed([v EXCEPT !.game.tick = game.turn], back) :
            \E g \in Recollected(w.game) :
              Becomes(Going([w EXCEPT !.game = g], IF proc.mute THEN "play" ELSE "tick"))
    /\ UNCHANGED saved /\ Rest

(* a short trail, a helpless hero, no square for the hound *)
TickPasses ==
    /\ proc.at = "tick" /\ Becomes(Going(Now, "play"))
    /\ UNCHANGED saved /\ Rest

MayLook == proc.at = "tick" /\ ~game.checked /\ game.backtracks

(* Wrong: absence is looked at again in the same window. *)
SightAgain(w) ==
    IF due = Invalid THEN "invalid"
    ELSE IF ~Before(Here(w.game), due) /\ candidate # "none" THEN "seen"
    ELSE "absent"

(* candidate_look *)
Sight(w) ==
    IF Here(w.game) = w.proc.empty THEN "absent"
    ELSE IF due = Invalid THEN "invalid"
    ELSE IF ~Before(Here(w.game), due) /\ candidate # "none" THEN "seen"
    ELSE "absent"

Looked(w) ==
    [w EXCEPT !.look = [at |-> Here(w.game), fresh |-> Before(@.at, Here(w.game))],
              !.proc.empty = IF Sight(w) = "absent" THEN Here(w.game) ELSE @]

(* another spender got the budget first: said once, nothing is consumed *)
BudgetRefuses ==
    /\ MayLook /\ ~proc.budgetLogged
    /\ IF Sight(Now) = "seen"
       THEN \E w \in Said([Looked(Now) EXCEPT !.proc.budgetLogged = TRUE], "budget") :
              Becomes(Going(w, "play"))
       ELSE Becomes(Going(Looked(Now), "play"))
    /\ UNCHANGED saved /\ Rest

FindsNothing ==
    /\ MayLook /\ Sight(Now) = "absent" /\ Becomes(Going(Looked(Now), "play"))
    /\ UNCHANGED saved /\ Rest

Checked(w) == [w EXCEPT !.game.checked = TRUE]

RejectsSource ==
    /\ MayLook
    /\ Sight(Now) = "invalid" \/ (Sight(Now) = "seen" /\ candidate = "bad")
    /\ \E w \in Said(Checked(Looked(Now)), "source_rejected") : Becomes(Going(w, "play"))
    /\ UNCHANGED saved /\ Rest

Sees == MayLook /\ Sight(Now) = "seen" /\ candidate = "good"

(* haunting-used.lua is there already, or cannot be written whole *)
NoEvidence ==
    /\ Sees /\ Becomes(Going(Checked(Looked(Now)), "play"))
    /\ \/ used # "none" /\ UNCHANGED used
       \/ used = "none" /\ Lossy /\ used' \in {"none", "torn", "whole"}
    /\ UNCHANGED <<saved, inbox, receipt, trial, trials>>

(* Wrong: the evidence of an earlier trial is written over. *)
TriesAgain ==
    /\ Sees /\ used' = "whole" /\ trials' = trials + 1
    /\ Becomes(Going(Checked(Looked(Now)), "trial")) /\ trial' = [NoTrial EXCEPT !.child = "setup"]
    /\ UNCHANGED <<saved, inbox, receipt>>

(* chaos_shadow_run, up to the fork *)
Tries ==
    /\ Sees /\ used = "none" /\ used' = "whole" /\ trials' = trials + 1
    /\ Becomes(Going(Checked(Looked(Now)), "trial")) /\ trial' = [NoTrial EXCEPT !.child = "setup"]
    /\ UNCHANGED <<saved, inbox, receipt>>

(* pipe or fork fails *)
CannotTry ==
    /\ Sees /\ used = "none" /\ used' = "whole" /\ Lossy
    /\ \E w \in Said(Checked(Looked(Now)), "shadow_failed") : Becomes(Going(w, "play"))
    /\ UNCHANGED <<saved, inbox, receipt, trial, trials>>

-----------------------------------------------------------------------------
(* The child.  Its own deadlines are set when it has left "setup". *)

Childs == UNCHANGED <<engine, saved, inbox, evidence, trials>>

Reading == proc.at = "trial"  \* the parent has not closed its end of the pipe

ChildSetsUp ==
    /\ trial.child = "setup"
    /\ \/ trial' = [trial EXCEPT !.child = "gone", !.status = "error"]
       \/ trial' = [trial EXCEPT !.child = "leaving", !.report = "failed", !.piped = Reading]
       \/ trial' = [trial EXCEPT !.child = "trying", !.boxed = TRUE]
    /\ Childs

(* trial returns, or the hero dies in it: chaos_shadow_end *)
ChildReports ==
    /\ trial.child = "trying"
    /\ \E report \in {"passed", "failed", "died"} :
         trial' = [trial EXCEPT !.child = "leaving", !.report = report, !.piped = Reading]
    /\ Childs

ChildExits ==
    /\ trial.child = "leaving" /\ trial' = [trial EXCEPT !.child = "gone", !.status = "clean"]
    /\ Childs

(* its alarm, its limits, the parent's SIGKILL; or a hangup it handles itself *)
ChildDies ==
    /\ trial.child \in {"setup", "trying", "leaving"}
    /\ \E status \in {"signal", "error"} :
         trial' = [trial EXCEPT !.child = "gone", !.status = status]
    /\ Childs

(* ... which is sure to come *)
Doomed == (trial.killed \/ trial.child \in {"trying", "leaving"}) /\ ChildDies

-----------------------------------------------------------------------------
(* The parent *)

(* Wrong: the child is left to itself. *)
PollsOnly ==
    /\ proc.at = "trial" /\ proc' = [proc EXCEPT !.at = "reaping"]
    /\ UNCHANGED <<game, log, look, saved, inbox, evidence, trial, trials>>

(* poll and read: a whole report, or none in time or by a signal, and then kill *)
ParentPolls ==
    /\ proc.at = "trial" /\ proc' = [proc EXCEPT !.at = "reaping"]
    /\ \E got \in BOOLEAN :
         (got => trial.piped) /\ trial' = [trial EXCEPT !.killed = ~got]
    /\ UNCHANGED <<game, log, look, saved, inbox, evidence, trials>>

(* Wrong: a report is believed whatever became of its writer. *)
BelievedAnyway == trial.piped /\ ~trial.killed /\ trial.boxed

(* a whole report, a clean exit, a sandbox *)
Believed == trial.piped /\ ~trial.killed /\ trial.status = "clean" /\ trial.boxed

Reaped == proc.at = "reaping" /\ trial.child = "gone"

ShadowFails ==
    /\ Reaped /\ ~Believed
    /\ \E w \in Said(Now, "shadow_failed") : Becomes(Going(w, "play"))
    /\ Forgotten /\ UNCHANGED <<saved, inbox, evidence, trials>>

(* dreamlands.json is there already, or cannot be written whole *)
NoReceipt ==
    /\ Reaped /\ Believed /\ Lossy
    /\ receipt' \in {"none", "torn", IF trial.report = "passed" THEN "passed" ELSE "failed"}
    /\ Becomes(Going(Now, "play"))
    /\ Forgotten /\ UNCHANGED <<saved, inbox, used, trials>>

(* a trial that did something leaves an echo *)
Echoing(g) ==
    IF trial.report = "failed" THEN {g, [g EXCEPT !.echo = "pending"]}
    ELSE {[g EXCEPT !.echo = "pending"]}

Rejects ==
    /\ Reaped /\ Believed /\ trial.report # "passed" /\ receipt' = "failed"
    /\ \E g \in Echoing(game) : \E w \in Said([Now EXCEPT !.game = g], "rejected") :
       \E h \in Recollected(w.game) : Becomes(Going([w EXCEPT !.game = h], "play"))
    /\ Forgotten /\ UNCHANGED <<saved, inbox, used, trials>>

(* without its event there is no hound; with it, the staged debit and the message *)
PreAdmits ==
    /\ Reaped /\ Believed /\ trial.report = "passed" /\ receipt' = "passed"
    /\ \E g \in Echoing(game) : \E w \in Said([Now EXCEPT !.game = g], "pre_admitted") :
         Becomes(Going(w, IF w.game.seq > game.seq THEN "announce" ELSE "play"))
    /\ UNCHANGED <<saved, inbox, used, trial, trials>>

(* the hound is made, and only then charged; or no monster can be made *)
Spawns ==
    /\ proc.at = "announce"
    /\ \E made \in BOOLEAN :
         LET w == IF made THEN [Now EXCEPT !.game.active = TRUE, !.game.charged = 1,
                                           !.game.until = game.turn + HuntTurns]
                  ELSE Now
         IN  \E v \in Said(w, IF made THEN "accepted" ELSE "spawn_failed") :
             \E g \in Recollected(v.game) : Becomes(Going([v EXCEPT !.game = g], "play"))
    /\ UNCHANGED saved /\ Rest

-----------------------------------------------------------------------------
Tick == \/ TickBegins \/ TickPasses \/ BudgetRefuses \/ FindsNothing \/ RejectsSource
        \/ NoEvidence \/ CannotTry \/ Tries
        \/ ParentPolls \/ ShadowFails \/ NoReceipt \/ Rejects \/ PreAdmits \/ Spawns

Child == ChildSetsUp \/ ChildReports \/ ChildExits \/ ChildDies

Next ==
    \/ Passes \/ Elsewhere \/ HoundDies \/ Checkpoint \/ Hangup \/ Crash \/ Restore \/ Publish
    \/ Tick \/ Child

Spec == Init /\ [][Next]_vars

(* poll has a timeout, waitpid returns once the child is gone; SIGKILL, the alarm
   and the limits are the kernel's.  Nothing is assumed of the child's own steps. *)
FairSpec == Spec /\ WF_vars(Doomed) /\ WF_vars(proc.at \in {"trial", "reaping"} /\ Tick)

-----------------------------------------------------------------------------
(* "A setup fault, signal, timeout or incomplete report rejects rather than     *)
(* admitting a candidate without evidence", and "failed pre-admission logging   *)
(* prevents live installation": whatever was saved, killed and restored, a game *)
(* with a hound, or charged for one, is one whose candidate had the one trial   *)
(* of its run, in a sandbox, reported whole by a child that left of its own     *)
(* accord; its evidence, receipt and event are written.  An echo has a receipt. *)
HoundWasTried ==
    /\ trials <= 1
    /\ \A g \in {game, saved} :
         /\ g.active \/ g.charged > 0 =>
              /\ trials = 1 /\ trial.child = "gone" /\ trial.status = "clean"
              /\ trial.boxed /\ trial.report = "passed"
              /\ used = "whole" /\ receipt = "passed" /\ log.preAdmitted
         /\ g.echo # "none" => receipt \in {"passed", "failed"}

(* "The window of the first haunting event that concerns the candidate ... names *)
(* the first tick that saw it": a replay that counts the candidate as absent     *)
(* before that window looks at it in the very same tick, because every earlier   *)
(* look of the recorded game was in an earlier window; and a replay never sees   *)
(* it before its binding.                                                        *)
WindowNamesTheLook ==
    due # Invalid /\ log.first # NoFirst /\ log.first.straight =>
        log.first.fresh /\ ~Before(log.first.at, due)

(* The engine waits for its child, and always goes on: a child that hangs before *)
(* it has set its own deadlines is the parent's to kill.                         *)
TrialReturns == proc.at \in {"trial", "reaping"} ~> proc.at \notin {"trial", "reaping"}
=============================================================================
