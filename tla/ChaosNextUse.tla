---------------------------- MODULE ChaosNextUse ----------------------------
(****************************************************************************)
(* The runtime of one admitted next-use program                             *)
(* (chaos_next_use_runtime.c): what answers the player's next whistle and   *)
(* the next fountain, the open window in which the companion may be drawn,  *)
(* the boundaries that end the program, and the value a save carries.       *)
(*                                                                          *)
(* rt is struct runtime_state.  Handlers are functions on it: each one is   *)
(* the source's function with its early returns, and an action is what the  *)
(* game does between two of them.  A turn of the main loop is the observe   *)
(* at its top, the monsters, one command; an action that reached the        *)
(* program's callback is a place of its own until its result is reported,   *)
(* because a message of the game can be interrupted there.                  *)
(*                                                                          *)
(* Time counts from the admission move.  The run token and the origins'     *)
(* live flags never change between an install and its end: every caller in  *)
(* the game passes the stored ones back, so the eviction branch is left     *)
(* out.                                                                     *)
(****************************************************************************)
EXTENDS Naturals, FiniteSets

CONSTANTS
    Programs,      \* what an envelope may declare
    Deadlines,     \* the moves after which a bound origin is too old
    Lifetime,      \* CHAOS_NEXT_USE_LIFETIME_FIRST or _LATER
    WindowOpen,    \* 5: the companion may be drawn from A+5
    WindowEnd,     \* 10: the window ends at A+10
    DelayMoves,    \* 10
    Callbacks,     \* CHAOS_NEXT_USE_BROAD_CALLBACKS
    PrivateMax,    \* CHAOS_RUNTIME_PRIVATE_MAX
    Levels,
    Hangups,       \* explore the saves of a hangup at a prompt of an action
    MaxTime        \* bound: the last move explored

Families == {"W", "F"}

(* schema_envelope: a single-use program declares one or both families and
   has no effect bound; a broad one declares one family and 1..2 effects; a
   ring is a broad whistle.                                                 *)
Declarable ==
    {p \in [fams : (SUBSET Families) \ {{}}, uses : 0..2, ring : BOOLEAN] :
        /\ p.uses > 0 => Cardinality(p.fams) = 1
        /\ p.ring => p.uses > 0 /\ p.fams = {"W"}}

ASSUME NextUseAssumption ==
    /\ Programs \subseteq Declarable /\ Programs # {}
    /\ Deadlines \subseteq Nat /\ Deadlines # {}
    /\ Lifetime \in Nat \ {0} /\ MaxTime \in Nat
    /\ WindowOpen \in Nat /\ WindowEnd \in Nat /\ WindowOpen < WindowEnd
    /\ DelayMoves \in Nat \ {0} /\ Callbacks \in Nat \ {0}
    /\ PrivateMax \in Nat /\ Levels # {} /\ 0 \notin Levels
    \* the carrier holds every row a program can write, its two header rows too
    /\ PrivateMax >= 9 /\ PrivateMax >= 3 * Callbacks + 5
    /\ Hangups \in BOOLEAN

VARIABLES
    rt,      \* live_runtime
    now,     \* monstermoves since the admission
    level,   \* u.uz
    pc,      \* where the main loop is
    asked,   \* history: callbacks made for each family
    felt     \* history: effects the player got from each family

vars == <<rt, now, level, pc, asked, felt>>

Places == {"observe", "monsters", "command", "whistle", "fountain",
           "manifest", "out", "refused"}

SlotW == {"undeclared", "pending", "armed", "quiet", "delay", "invalid",
          "suppressed", "expiry", "level", "rang"}
SlotF == {"undeclared", "pending", "applied", "nonremappable", "quiet",
          "delay", "invalid", "suppressed", "expiry", "level"}
WRuntime == {"inactive", "armed", "window_ended", "expired", "departed",
             "identity_unsafe", "invalid_terminated"}
Intents == {"quiet", "delay", "act", "fail"}

Runtimes ==
    [phase : {"committed", "terminated"}, slot_w : SlotW, slot_f : SlotF,
     w_runtime : WRuntime, uses : 0..2, ring : BOOLEAN, delivered : 0..2,
     delay_used : BOOLEAN, delay_until : Nat, callback_ordinal : Nat,
     callback : [Families -> BOOLEAN], deadline : Nat,
     level_token : Levels, current : Levels, armed_level : Levels \cup {0},
     armed_m_id : BOOLEAN, activation : Nat, witnessed : BOOLEAN,
     claimed : BOOLEAN, unsafe : BOOLEAN, next_seq : Nat,
     pending_w : BOOLEAN, f_inflight : BOOLEAN, expected_m_id : BOOLEAN,
     manifest_root : BOOLEAN, notice : BOOLEAN]

TypeOK ==
    /\ rt \in Runtimes /\ now \in 0..MaxTime /\ level \in Levels
    /\ pc \in Places /\ asked \in [Families -> Nat] /\ felt \in [Families -> Nat]

-----------------------------------------------------------------------------
(* Records and endings *)

Committed(r) == r.phase = "committed"
Armed(r) == r.w_runtime = "armed"
Broad(r) == r.uses > 0

Row(r) == [r EXCEPT !.next_seq = @ + 1]

SlotsTerminal(r) ==
    r.slot_w # "pending" /\ r.slot_f # "pending" /\ ~Armed(r)

AppendTermination(r) ==
    IF ~Committed(r) \/ ~SlotsTerminal(r) THEN r
    ELSE [Row(r) EXCEPT !.phase = "terminated"]

(* Wrong: only the callbacks bound a broad program. *)
BroadFinishedByCalls(r) == r.callback_ordinal >= Callbacks

BroadFinished(r) == r.delivered >= r.uses \/ r.callback_ordinal >= Callbacks

Between(r) == ~Armed(r) /\ ~r.pending_w /\ ~r.f_inflight

FinishUse(r) ==
    IF Broad(r) /\ ~(Between(r) /\ BroadFinished(r)) THEN r
    ELSE AppendTermination(r)

(* Wrong: the fountain slot is left open. *)
TerminalizeWhistle(r, slot) ==
    [r EXCEPT !.slot_w = IF @ = "pending" THEN slot ELSE @]

Terminalize(r, slot) ==
    [r EXCEPT !.slot_w = IF @ = "pending" THEN slot ELSE @,
              !.slot_f = IF @ = "pending" THEN slot ELSE @]

EndSlots(r, reason) ==
    CASE reason = "level" -> Terminalize(r, "level")
      [] reason \in {"origin", "program"} -> Terminalize(r, "expiry")
      [] OTHER -> r

WindowOutcome ==
    [window |-> "window_ended", level |-> "departed", origin |-> "expired",
     program |-> "expired", invalid |-> "invalid_terminated",
     unsafe |-> "identity_unsafe"]

(* The invalid callback defers the termination to its caller. *)
EndW(r, reason) ==
    LET ended == Row([EndSlots(r, reason) EXCEPT !.w_runtime = WindowOutcome[reason]])
    IN  IF ~Armed(r) THEN r
        ELSE IF reason = "invalid" THEN ended
        ELSE IF Broad(r) /\ reason \in {"window", "level"} THEN FinishUse(ended)
        ELSE AppendTermination(ended)

Expire(r, reason) ==
    IF ~Committed(r) THEN r
    ELSE IF Armed(r) THEN EndW(EndSlots(r, reason), reason)
    ELSE AppendTermination(EndSlots(r, reason))

(* The part of the boundary that looks at the clock. *)
TimeBoundary(r) ==
    IF ~Committed(r) THEN r
    ELSE IF now > r.deadline THEN Expire(r, "origin")
    ELSE IF now >= Lifetime THEN Expire(r, "program")
    ELSE IF Armed(r) /\ now >= r.activation + WindowEnd THEN EndW(r, "window")
    ELSE r

(* Wrong: a broad program's window outlives its level. *)
BoundaryByDescent(r, there) ==
    LET seen == [r EXCEPT !.current = there] IN
    IF ~Committed(r) THEN r
    ELSE IF ~Broad(r) /\ there # r.level_token THEN Expire(seen, "level")
    ELSE TimeBoundary(seen)

Boundary(r, there) ==
    LET seen == [r EXCEPT !.current = there] IN
    IF ~Committed(r) THEN r
    ELSE IF ~Broad(r) /\ there # r.level_token THEN Expire(seen, "level")
    ELSE IF Broad(r) /\ Armed(r) /\ there # r.armed_level
         THEN TimeBoundary(EndW(seen, "level"))
    ELSE TimeBoundary(seen)

-----------------------------------------------------------------------------
(* A use *)

Slot(r, f) == IF f = "W" THEN r.slot_w ELSE r.slot_f

FamilyOpen(r, f) ==
    /\ Committed(r)
    /\ IF Broad(r)
       THEN Between(r) /\ ~BroadFinished(r) /\ Slot(r, f) # "undeclared"
       ELSE Slot(r, f) = "pending"

(* chaos_next_use_action_preflight: the boundary first, on the stored level *)
Bounded(r) == Boundary(r, r.current)
Ready(r, f) == FamilyOpen(r, f) /\ (r.delay_until > 0 => now >= r.delay_until)

TakeUnsafe(r) ==
    IF Committed(r) /\ Armed(r) /\ r.unsafe
    THEN EndW([r EXCEPT !.unsafe = FALSE], "unsafe")
    ELSE r

SetSlot(r, f, value) ==
    IF f = "W" THEN [r EXCEPT !.slot_w = value] ELSE [r EXCEPT !.slot_f = value]

(* Wrong: the attention of the previous window stays claimed. *)
ClearWindowClaimed(r) ==
    [r EXCEPT !.w_runtime = "inactive", !.armed_m_id = FALSE, !.activation = 0,
              !.armed_level = 0, !.witnessed = FALSE, !.expected_m_id = FALSE]

(* A new use of a broad whistle closes the record of the previous window. *)
ClearWindow(r) ==
    [r EXCEPT !.w_runtime = "inactive", !.armed_m_id = FALSE, !.activation = 0,
              !.armed_level = 0, !.witnessed = FALSE, !.claimed = FALSE,
              !.expected_m_id = FALSE]

Called(r, f) ==
    [(IF Broad(r) /\ f = "W" THEN ClearWindow(r) ELSE r)
        EXCEPT !.callback_ordinal = @ + 1, !.callback[f] = TRUE]

InvalidCallback(r, f) ==
    LET spoiled(slot, g) == IF slot = "pending" \/ (Broad(r) /\ f = g)
                            THEN "invalid" ELSE slot
        slots == [Row(r) EXCEPT !.slot_w = spoiled(@, "W"), !.slot_f = spoiled(@, "F")]
    IN  AppendTermination(EndW(slots, "invalid"))

Answer(r, f, intent) ==
    CASE intent = "fail" \/ (intent = "delay" /\ r.delay_used) -> InvalidCallback(r, f)
      [] intent = "quiet" -> FinishUse(SetSlot(Row(r), f, "quiet"))
      [] intent = "delay" /\ ~r.delay_used ->
            FinishUse(SetSlot([Row(r) EXCEPT !.delay_used = TRUE,
                                             !.delay_until = now + DelayMoves],
                              f, "delay"))
      [] OTHER -> IF f = "W" THEN [Row(r) EXCEPT !.pending_w = TRUE]
                             ELSE [Row(r) EXCEPT !.f_inflight = TRUE]

(* chaos_next_use_on_action *)
BeforeCall(r) == Bounded(TakeUnsafe(r))
OnAction(r, f, intent) ==
    LET b == BeforeCall(r)
    IN  IF Ready(b, f) THEN Answer(Called(b, f), f, intent) ELSE b

(* runtime_whistle_unavailable_impl: a broad program is not consumed by a
   whistle that never reached its callback.                                 *)
Suppressed(r) ==
    IF Committed(r) /\ (IF Broad(r) THEN r.pending_w ELSE r.slot_w = "pending")
    THEN FinishUse([Row(r) EXCEPT !.pending_w = FALSE, !.slot_w = "suppressed"])
    ELSE r

(* Wrong: a ring is not counted. *)
RingUncounted(r, guarded) ==
    FinishUse([Row(r) EXCEPT !.pending_w = FALSE,
                             !.slot_w = IF guarded THEN "suppressed" ELSE "rang"])

Ring(r, guarded) ==
    IF guarded THEN FinishUse([Row(r) EXCEPT !.pending_w = FALSE, !.slot_w = "suppressed"])
    ELSE FinishUse([Row(r) EXCEPT !.pending_w = FALSE, !.slot_w = "rang",
                                  !.delivered = @ + 1])

Capture(r) ==
    [Row(r) EXCEPT !.pending_w = FALSE, !.slot_w = "armed", !.w_runtime = "armed",
                   !.armed_m_id = TRUE, !.activation = now,
                   !.armed_level = IF Broad(r) THEN r.current ELSE 0,
                   !.witnessed = FALSE, !.claimed = FALSE, !.expected_m_id = FALSE]

FountainSlot ==
    [natural |-> "nonremappable", early_return |-> "nonremappable",
     native_19_30 |-> "nonremappable", remapped |-> "applied"]

FountainResult(r, outcome) ==
    FinishUse([Row(r) EXCEPT !.slot_f = FountainSlot[outcome], !.f_inflight = FALSE,
                             !.delivered = @ + (IF outcome = "remapped" /\ Broad(r)
                                                THEN 1 ELSE 0)])

-----------------------------------------------------------------------------
(* The companion's move *)

OnItsLevel(r) == r.current = (IF Broad(r) THEN r.armed_level ELSE r.level_token)

WindowOver(r) == Armed(r) /\ now >= r.activation + WindowEnd

(* Wrong: the window opens a move early. *)
DecisionReadyEarly(r) ==
    /\ OnItsLevel(r) /\ Armed(r)
    /\ \/ r.unsafe
       \/ /\ ~WindowOver(r) /\ ~r.witnessed /\ ~r.claimed
          /\ now + 1 >= r.activation + WindowOpen

(* chaos_next_use_whistle_decision_ready, its result and its effect *)
DecisionReady(r) ==
    /\ OnItsLevel(r) /\ Armed(r)
    /\ \/ r.unsafe
       \/ ~WindowOver(r) /\ ~r.witnessed /\ ~r.claimed /\ now >= r.activation + WindowOpen
AfterReady(r) ==
    IF OnItsLevel(r) /\ ~r.unsafe /\ WindowOver(r) THEN EndW(r, "window") ELSE r

(* No exclusive observation could begin: the attention is spent all the same. *)
NoRoot(r) ==
    IF ~r.witnessed /\ ~r.claimed /\ ~WindowOver(r) /\ now >= r.activation + WindowOpen
    THEN [r EXCEPT !.claimed = TRUE] ELSE r

Attention(r) ==
    IF r.unsafe THEN EndW([r EXCEPT !.unsafe = FALSE], "unsafe")
    ELSE [r EXCEPT !.claimed = TRUE, !.expected_m_id = TRUE]

ManifestationBegin(r) ==
    IF Armed(r) /\ r.claimed /\ ~r.witnessed /\ r.expected_m_id /\ ~r.manifest_root
    THEN [r EXCEPT !.manifest_root = TRUE, !.notice = FALSE] ELSE r

Closed(r) == [r EXCEPT !.manifest_root = FALSE, !.notice = FALSE]

(* manifestation_complete with a published, noticed and finished root *)
Witness(r) ==
    IF Armed(r) /\ ~r.witnessed /\ r.expected_m_id
    THEN [Row(Closed(r)) EXCEPT !.witnessed = TRUE,
                                !.delivered = @ + (IF Broad(r) THEN 1 ELSE 0)]
    ELSE r
-----------------------------------------------------------------------------
(* What a save carries *)

(* chaos_next_use_snapshot_validate, without the digests and the journal *)
WindowKept(r) ==
    /\ r.witnessed => r.claimed
    /\ IF r.slot_w = "armed"
       THEN r.w_runtime # "inactive" /\ r.armed_m_id /\ r.activation < Lifetime
       ELSE /\ r.w_runtime = "inactive" /\ ~r.armed_m_id /\ r.activation = 0
            /\ ~r.witnessed /\ ~r.claimed

KindKept(r) ==
    /\ IF r.ring
       THEN /\ r.slot_f = "undeclared" /\ r.w_runtime = "inactive" /\ ~r.claimed
            /\ r.slot_w = "rang" => r.callback["W"] /\ r.delivered > 0
       ELSE r.slot_w # "rang"
    /\ IF Broad(r)
       THEN /\ r.delivered <= r.uses
            /\ (r.armed_level # 0) <=> (r.w_runtime # "inactive")
            /\ Committed(r) \/ ~Armed(r)
       ELSE /\ r.delivered = 0 /\ r.armed_level = 0
            /\ SlotsTerminal(r) <=> ~Committed(r)

CallbacksKept(r) ==
    LET called == Cardinality({f \in Families : r.callback[f]}) IN
    /\ IF Broad(r) THEN r.callback_ordinal \in called..Callbacks
                   ELSE r.callback_ordinal = called
    /\ \A f \in Families : Slot(r, f) \in {"pending", "undeclared"} => ~r.callback[f]
    /\ r.slot_w \in {"armed", "quiet", "delay"} => r.callback["W"]
    /\ r.slot_f \in {"applied", "nonremappable", "quiet", "delay"} => r.callback["F"]

SnapshotValid(r) ==
    /\ KindKept(r) /\ WindowKept(r) /\ CallbacksKept(r)
    /\ IF r.delay_used THEN r.delay_until >= DelayMoves ELSE r.delay_until = 0
    /\ r.next_seq \in 3..PrivateMax + 1

(* chaos_next_use_save_status: no unfinished handshake, and a valid value *)
SaveStatus(r) ==
    /\ ~r.pending_w /\ ~r.f_inflight /\ (r.manifest_root => r.witnessed)
    /\ SnapshotValid(r)

(* restore_level_bound_ok, asked of an unterminated program only *)
RestoreAccepts(r, there) ==
    Committed(r) => IF Broad(r) THEN Armed(r) => r.armed_level = there
                                ELSE r.level_token = there

(* snapshot_import: the handshakes are not saved *)
Import(r, there) ==
    [r EXCEPT !.current = there, !.expected_m_id = FALSE, !.manifest_root = FALSE,
              !.notice = FALSE]

-----------------------------------------------------------------------------
(* The game around it *)

Installed(p, deadline, there) ==
    LET slot(f) == IF f \in p.fams THEN "pending" ELSE "undeclared"
    IN  [phase |-> "committed", slot_w |-> slot("W"), slot_f |-> slot("F"),
         w_runtime |-> "inactive", uses |-> p.uses, ring |-> p.ring, delivered |-> 0,
         delay_used |-> FALSE, delay_until |-> 0, callback_ordinal |-> 0,
         callback |-> [f \in Families |-> FALSE], deadline |-> deadline,
         level_token |-> there, current |-> there, armed_level |-> 0,
         armed_m_id |-> FALSE, activation |-> 0, witnessed |-> FALSE,
         claimed |-> FALSE, unsafe |-> FALSE, next_seq |-> 3,
         pending_w |-> FALSE, f_inflight |-> FALSE, expected_m_id |-> FALSE,
         manifest_root |-> FALSE, notice |-> FALSE]

(* chaos_next_use_runtime_install, at a safe point of a turn *)
Init ==
    /\ level \in Levels
    /\ \E p \in Programs, d \in Deadlines : rt = Installed(p, d, level)
    /\ now = 0 /\ pc = "command"
    /\ asked = [f \in Families |-> 0] /\ felt = [f \in Families |-> 0]

(* chaos_observe at the top of the main loop *)
Observe ==
    /\ pc = "observe"
    /\ rt' = Boundary(rt, level)
    /\ pc' = "monsters"
    /\ UNCHANGED <<now, level, asked, felt>>

Tick ==
    /\ pc = "monsters" /\ now < MaxTime
    /\ now' = now + 1
    /\ UNCHANGED <<rt, level, pc, asked, felt>>

(* The armed companion moves (dog_move).  Its decision may find no root, be
   classified as no attention, or begin a manifestation, whose message is
   told or not.                                                             *)
CompanionMoves ==
    /\ pc = "monsters" /\ Armed(rt)
    /\ IF ~DecisionReady(rt)
       THEN rt' = AfterReady(rt) /\ pc' = pc
       ELSE \/ rt' = NoRoot(rt) /\ pc' = pc
            \/ rt' = Attention(rt) /\ pc' = pc
            \/ /\ ~rt.unsafe
               /\ \E told \in BOOLEAN :
                     rt' = [ManifestationBegin(Attention(rt)) EXCEPT !.notice = told]
               /\ pc' = "manifest"
    /\ UNCHANGED <<now, level, asked, felt>>

(* chaos_whistle_witness_finalize: published only when its message was told
   and the companion is seen to have moved.                                 *)
Finalize ==
    /\ pc = "manifest"
    /\ \/ /\ rt.notice
          /\ rt' = Witness(rt)
          /\ felt' = [felt EXCEPT !["W"] = @ + 1]
       \/ rt' = Closed(rt) /\ felt' = felt
    /\ pc' = "monsters"
    /\ UNCHANGED <<now, level, asked>>

(* Wrong: a program that is over is marked as well. *)
MarkAnyIdentityUnsafe ==
    /\ pc \in {"monsters", "manifest", "command", "fountain"}
    /\ rt' = [rt EXCEPT !.unsafe = TRUE]
    /\ UNCHANGED <<now, level, pc, asked, felt>>

(* next_ident issued the armed companion's number, or wrapped. *)
MarkIdentityUnsafe ==
    /\ pc \in {"monsters", "manifest", "command", "fountain"}
    /\ Committed(rt)
    /\ rt' = [rt EXCEPT !.unsafe = TRUE]
    /\ UNCHANGED <<now, level, pc, asked, felt>>

(* A monster or a trap moves the hero in the middle of the turn. *)
CarriedOff ==
    /\ pc = "monsters"
    /\ level' \in Levels \ {level}
    /\ UNCHANGED <<rt, now, pc, asked, felt>>

MonstersDone ==
    /\ pc = "monsters"
    /\ pc' = "command"
    /\ UNCHANGED <<rt, now, level, asked, felt>>

Ask(r, f) == IF Ready(BeforeCall(r), f) THEN [asked EXCEPT ![f] = @ + 1] ELSE asked

(* chaos_next_use_whistle_completed, up to the callback.  A ring program
   looks for no companion; another one that finds none is suppressed.       *)
Whistle ==
    /\ pc = "command"
    /\ LET b == Bounded(rt) IN
       IF ~Ready(b, "W")
       THEN rt' = b /\ asked' = asked /\ pc' = "observe"
       ELSE \/ /\ ~b.ring
               /\ rt' = Suppressed(b) /\ asked' = asked /\ pc' = "observe"
            \/ \E intent \in Intents :
                  /\ rt' = OnAction(b, "W", intent)
                  /\ asked' = Ask(b, "W")
                  /\ pc' = IF rt'.pending_w THEN "whistle" ELSE "observe"
    /\ UNCHANGED <<now, level, felt>>

(* The rest of it: the companion is captured, or no longer qualifies. *)
WhistleBinds ==
    /\ pc = "whistle" /\ ~rt.ring
    /\ rt' \in {Capture(rt), Suppressed(rt)}
    /\ pc' = "observe"
    /\ UNCHANGED <<now, level, asked, felt>>

WhistleRings ==
    /\ pc = "whistle" /\ rt.ring
    /\ \E guarded \in BOOLEAN :
          /\ rt' = Ring(rt, guarded)
          /\ felt' = IF guarded THEN felt ELSE [felt EXCEPT !["W"] = @ + 1]
    /\ pc' = "observe"
    /\ UNCHANGED <<now, level, asked>>

(* dodrink: no root, and so no callback, unless the fountain slot is open *)
Drink ==
    /\ pc = "command" /\ FamilyOpen(rt, "F")
    /\ \E intent \in Intents :
          /\ rt' = OnAction(rt, "F", intent)
          /\ asked' = Ask(rt, "F")
          /\ pc' = IF rt'.f_inflight THEN "fountain" ELSE "observe"
    /\ UNCHANGED <<now, level, felt>>

(* drinkfountain reports what it did with the token. *)
DrinkEnds ==
    /\ pc = "fountain"
    /\ \E outcome \in DOMAIN FountainSlot :
          /\ rt' = FountainResult(rt, outcome)
          /\ felt' = IF outcome = "remapped" THEN [felt EXCEPT !["F"] = @ + 1] ELSE felt
    /\ pc' = "observe"
    /\ UNCHANGED <<now, level, asked>>

(* Any other command; it may take the hero to another level. *)
OtherCommand ==
    /\ pc = "command"
    /\ level' \in Levels
    /\ pc' = "observe"
    /\ UNCHANGED <<rt, now, asked, felt>>

(* dosave0, by command or by a hangup at any prompt.  rt stands for the file
   while the game is out.                                                   *)
Save ==
    /\ pc \in (IF Hangups THEN Places \ {"out", "refused"} ELSE {"command"})
    /\ SaveStatus(rt)
    /\ pc' = "out"
    /\ UNCHANGED <<rt, now, level, asked, felt>>

Restore ==
    /\ pc = "out"
    /\ IF RestoreAccepts(rt, level)
       THEN rt' = Import(rt, level) /\ pc' = "observe"
       ELSE rt' = rt /\ pc' = "refused"
    /\ UNCHANGED <<now, level, asked, felt>>

Next ==
    \/ Observe \/ Tick \/ CompanionMoves \/ Finalize \/ MarkIdentityUnsafe
    \/ CarriedOff \/ MonstersDone \/ Whistle \/ WhistleBinds \/ WhistleRings
    \/ Drink \/ DrinkEnds \/ OtherCommand \/ Save \/ Restore

Spec == Init /\ [][Next]_vars

(* The loop goes round and its clock advances; an action in flight returns;
   the player comes back to a saved game.  A player who hangs up at every
   prompt cannot keep a turn from ever being taken.                         *)
FairSpec ==
    /\ Spec
    /\ SF_vars(Observe) /\ SF_vars(Tick) /\ WF_vars(MonstersDone) /\ WF_vars(Restore)
    /\ WF_vars(Finalize) /\ WF_vars(WhistleBinds \/ WhistleRings) /\ WF_vars(DrinkEnds)
    /\ WF_vars(Whistle \/ Drink \/ OtherCommand)

-----------------------------------------------------------------------------
(* Correctness *)

(* Wherever no use and no manifestation is in flight, the game can be saved:
   every way a whistle, a drink or a companion's move may end leaves a value
   that chaos_next_use_snapshot_validate accepts.  A program that could get
   past it would make the game unsavable ("Cannot save during an incomplete
   next-use action").                                                       *)
AtRestSavable ==
    pc \in {"observe", "monsters", "command"} => SaveStatus(rt)

(* A game saved where the boundary has seen the hero's level, or with its
   program over, is accepted by the restore.                                *)
SeenSaveRestores ==
    pc = "out" /\ rt.current = level => RestoreAccepts(rt, level)

(* tests/chaos/next_use_broad.c:318 "without a boundary in between (not
   reachable in play: foreign state)", and 332 "cannot come from play on
   level 2": no save the game itself wrote is refused.                      *)
OwnSaveRestores == pc # "refused"

(* The player is never given more than was declared, nor is the program asked
   more often, whatever was saved and restored in between: a single-use
   program once for each family, a broad one its effects within its bound of
   callbacks.                                                               *)
GivesWhatWasDeclared ==
    \A f \in Families :
        IF Broad(rt) THEN asked[f] <= Callbacks /\ felt[f] <= rt.uses
                     ELSE asked[f] <= 1 /\ felt[f] <= asked[f]

(* An effect is felt only while its program lives, and the companion's only in
   the second half of the window, and once a window.                        *)
WitnessInWindow ==
    [][\A f \in Families : felt'[f] # felt[f] =>
          /\ Committed(rt)
          /\ f = "W" /\ ~rt.ring =>
                /\ Armed(rt) /\ ~rt.witnessed /\ rt'.witnessed
                /\ now \in rt.activation + WindowOpen .. rt.activation + WindowEnd - 1]_vars

(* A terminated program is over: no later whistle, drink, boundary, companion
   or restore changes its value or adds a record.                           *)
TerminatedIsFinal ==
    [][~Committed(rt) => rt' \in {rt, Import(rt, level)}]_vars

(* Every program ends, unless its save was refused. *)
ProgramEnds == <>(~Committed(rt) \/ pc = "refused")
=============================================================================
