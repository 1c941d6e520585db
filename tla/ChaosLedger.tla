----------------------------- MODULE ChaosLedger -----------------------------
(****************************************************************************)
(* u.chaos as the running game spends it.  Four features debit the one      *)
(* lifetime account -- the whisper mailbox (chaos_io_safe), the curio       *)
(* (chaos_curio_safe), the haunting (chaos_haunt_tick) and the next-use     *)
(* programs (chaos_next_use_safe_try) -- each on a staged copy of the       *)
(* record, published by a rule of its own.  Three features earn pacing      *)
(* credit.  The engine is one thread, so the handlers interleave only where *)
(* one calls the next: `phase` is the place inside chaos_safe or            *)
(* chaos_observe, and "play" is the game loop between them.                 *)
(*                                                                          *)
(* Files, the mailbox's index discipline and the director are ChaosWhisper; *)
(* here a request, a lost write and a failed spawn are nondeterministic.    *)
(****************************************************************************)
EXTENDS ChaosProtocol, Sequences

CONSTANTS
    Pacings,        \* SUBSET {0, 1}: the choices of NYARLATHACK_PACING explored
    Installed,      \* SUBSET {"whisper", "curio", "haunt", "next_use"}: the candidates
                    \* the director puts in the run directory
    Requests,       \* {[kind, value, duration]}: what a director may ask for
    Sanities,       \* values u.usanity takes
    MaxId,          \* bound: request ids explored
    MaxTurn,        \* bound: last turn explored (may pass MaxCounter)
    MaxReached,     \* bound: deepest level explored
    CurioMaxDepth,  \* CHAOS_CURIO_ADMIT_MAX_DEPTH
    CurioExpireDepth \* CHAOS_CURIO_EXPIRE_DEPTH

ASSUME ExplorationAssumption ==
    /\ Pacings \subseteq {0, 1}
    /\ Installed \subseteq {"whisper", "curio", "haunt", "next_use"}
    /\ Sanities \subseteq Nat /\ MaxId \in Nat /\ MaxTurn \in Nat
    /\ MaxReached \in Nat \ {0} /\ CurioMaxDepth \in Nat /\ CurioExpireDepth \in Nat
    /\ \A q \in Requests :
         /\ q.kind \in Kinds
         /\ IF q.kind = "ambient" THEN q.value \in Messages /\ q.duration = 0
            ELSE q.value = Magnitude[q.kind] /\ q.duration \in 1..DurationMax[q.kind]

VARIABLES
    s,          \* u.chaos
    turn,       \* moves
    sanity,     \* u.usanity
    oldsanity,  \* oldsanity, the Sanity chaos_observe last saw
    reached,    \* deepest_lev_reached(FALSE)
    phase,      \* where the engine is: "play", or the next part of a handler
    resume,     \* what runs after chaos_safe returns: "play" or "haunt" (locals of
                \* a handler, like `advanced`: at rest between handlers)
    advanced,   \* chaos_safe: this safe point counted and the transport is healthy
    curio,      \* u.curio.phase
    checked,    \* u.haunt.checked
    hound,      \* u.haunt.active
    told,       \* history: the ambient messages shown, [value, turn] in order
    delivered   \* history: the sources that delivered something

vars == <<s, turn, sanity, oldsanity, reached, phase, resume, advanced,
          curio, checked, hound, told, delivered>>
world == <<turn, sanity, reached>>
story == <<told, delivered>>

CurioPhases == {"virgin", "rejected", "admitted", "placed", "expired"}

TypeOK ==
    /\ s \in State
    /\ turn \in 0..MaxTurn /\ sanity \in Sanities /\ oldsanity \in Sanities
    /\ reached \in 1..MaxReached
    /\ phase \in {"play", "safe", "curio", "next_use", "haunt"}
    /\ resume \in {"play", "haunt"} /\ advanced \in BOOLEAN
    /\ curio \in CurioPhases /\ checked \in BOOLEAN /\ hound \in BOOLEAN
    /\ told \in Seq([value : Messages, turn : Nat])
    /\ delivered \subseteq Sources

Init ==
    /\ s \in {InitState(p) : p \in Pacings}
    /\ turn = 0 /\ sanity \in Sanities /\ oldsanity = sanity /\ reached = 1
    /\ phase = "safe" /\ resume = "play" /\ advanced = FALSE
    /\ curio = "virgin" /\ checked = FALSE /\ hound = FALSE
    /\ told = <<>> /\ delivered = {}

-----------------------------------------------------------------------------
(* Between the handlers: the clock, the hero's mind and the dungeon. *)

(* Up to n events follow st in the log; a lost or refused one leaves no number *)
Logged(st, n) ==
    {[st EXCEPT !.seq = Min2(st.seq + m, MaxCounter)] : m \in {0, n}}

Tick ==
    /\ phase = "play" /\ turn < MaxTurn
    /\ turn' = turn + 1
    /\ UNCHANGED <<s, sanity, oldsanity, reached, phase, resume, advanced,
                   curio, checked, hound, story>>

SanityChanges ==
    /\ phase = "play"
    /\ \E v \in Sanities : sanity' = v
    /\ UNCHANGED <<s, turn, oldsanity, reached, phase, resume, advanced,
                   curio, checked, hound, story>>

(* goto_level reaches a new level; its chaos_safe("level_enter") follows *)
Descend ==
    /\ phase = "play" /\ reached < MaxReached
    /\ reached' = reached + 1
    /\ phase' = "safe"
    /\ UNCHANGED <<s, turn, sanity, oldsanity, resume, advanced, curio, checked,
                   hound, story>>

(* chaos_safe("level_enter" on a level seen before, "sleep", "pray") *)
GameSafePoint ==
    /\ phase = "play"
    /\ phase' = "safe"
    /\ UNCHANGED <<s, world, oldsanity, resume, advanced, curio, checked, hound, story>>

(* chaos_observe: expire, publish what changed, a safe point when Sanity crossed
   a threshold, then the haunting *)
Observe ==
    /\ phase = "play"
    /\ s' \in Logged(Expire(s, turn),
                     Cardinality(ExpiredKinds(s, turn)) + IF sanity # oldsanity THEN 1 ELSE 0)
    /\ phase' = IF oldsanity \div 20 # sanity \div 20 THEN "safe" ELSE "haunt"
    /\ resume' = IF phase' = "safe" THEN "haunt" ELSE "play"
    /\ oldsanity' = sanity
    /\ UNCHANGED <<world, advanced, curio, checked, hound, story>>

-----------------------------------------------------------------------------
(* chaos_safe.  Its first part: the depth, then the whisper mailbox. *)

Leave == phase' = "curio" /\ UNCHANGED <<world, oldsanity, resume, curio, checked, hound>>

(* The transport is closed or failed, or the safe counter is at its limit: the
   pacing level still moves, nothing is read.                                *)
WhisperSkipped ==
    /\ phase = "safe"
    /\ s' = PacingLevel(s, reached)
    /\ advanced' = FALSE
    /\ Leave /\ UNCHANGED story

(* chaos_io_safe's state at the point where it reads the mailbox *)
OpenPoint == LET leveled == PacingLevel(s, reached)
             IN  [Expire(leveled, turn) EXCEPT !.safe = @ + 1]

(* No whisper, a malformed one, or one whose index is still ahead *)
WhisperIdle ==
    /\ phase = "safe" /\ s.safe < MaxCounter
    /\ s' \in Logged(OpenPoint, 2)
    /\ advanced' \in BOOLEAN
    /\ Leave /\ UNCHANGED story

(* What chaos_admit may answer here: to a whisper due at this point, or missed
   (of the earlier indices only the last is explored, all are refused alike)  *)
Verdicts ==
    {Admit(OpenPoint, [id |-> id, at |-> at, kind |-> q.kind, value |-> q.value,
                       duration |-> q.duration], turn, sanity, eligible) :
       q \in Requests, id \in 1..MaxId, at \in Max2(1, s.safe)..(s.safe + 1),
       eligible \in 0..2}

WhisperRead == phase = "safe" /\ s.safe < MaxCounter /\ "whisper" \in Installed

(* Refused, or admitted and then dropped because the journal, the telegraph event
   or the message failed: either way the whisper leaves only its id.             *)
WhisperDropped ==
    /\ WhisperRead
    /\ \E verdict \in Verdicts :
         s' \in Logged([OpenPoint EXCEPT !.last_id = verdict.state.last_id], 3)
    /\ advanced' \in BOOLEAN
    /\ Leave /\ UNCHANGED story

(* Admitted, journalled and shown: the staged copy is published. *)
WhisperApplied ==
    /\ WhisperRead
    /\ \E verdict \in Verdicts :
         /\ verdict.result = "ok"
         /\ s' \in Logged(verdict.state, 3)
         /\ LET shown == verdict.state.cosmetic_seen \ s.cosmetic_seen
            IN  IF shown = {} THEN told' = told
                ELSE \E v \in shown : told' = Append(told, [value |-> v, turn |-> turn])
    /\ advanced' \in BOOLEAN
    /\ Leave /\ UNCHANGED delivered

-----------------------------------------------------------------------------
(* Second part: chaos_curio_safe on the level the hero stands on. *)

CurioMayAdmit(depth) ==
    /\ "curio" \in Installed /\ advanced /\ curio = "virgin" /\ depth \in 1..CurioMaxDepth
    /\ Budget(s, sanity) >= SpendCost["curio"]

(* chaos_safe returns to its caller *)
Return == phase' = resume /\ resume' = "play" /\ advanced' = FALSE

AfterCurio == /\ phase = "curio"
              /\ IF advanced THEN phase' = "next_use" /\ UNCHANGED <<resume, advanced>>
                 ELSE Return
              /\ UNCHANGED <<world, oldsanity, checked, hound, story>>

(* Nothing at the expiry depth or below is admitted, and an admitted curio lapses *)
CurioExpires ==
    /\ AfterCurio
    /\ curio \in {"virgin", "admitted"} /\ reached >= CurioExpireDepth
    /\ curio' = "expired"
    /\ s' \in Logged(s, 1)

(* No candidate yet, its index not due, or a guard refuses: nothing changes *)
CurioWaits ==
    /\ AfterCurio
    /\ UNCHANGED <<s, curio>>

(* The one attempt.  It is REJECTED from the start; only after the evidence file
   and the pre_admitted event does the staged debit count.                      *)
CurioAttempt ==
    /\ AfterCurio
    /\ \E depth \in 1..reached : CurioMayAdmit(depth)
    /\ LET charged == SpendNonEffect(s, sanity, "curio")
       IN  \/ curio' = "rejected" /\ s' \in Logged(s, 2)
           \/ /\ charged.result = "ok"
              /\ curio' = "admitted"
              /\ \E warned \in Logged(s, 2) : s' = CommitCharge(warned, charged.state)

(* chaos_curio_finish: a new level holds the object the admitted curio is bound to *)
CurioPlaced ==
    /\ phase = "play" /\ curio = "admitted" /\ reached > 1
    /\ curio' = "placed"
    /\ UNCHANGED <<s, world, oldsanity, phase, resume, advanced, checked, hound, story>>

(* chaos_curio_apply: a use is a delivery, and it may move Sanity *)
CurioUsed ==
    /\ phase = "play" /\ curio = "placed"
    /\ s' \in Logged(PacingCredit(s, "curio"), 1)
    /\ delivered' = delivered \cup {"curio"}
    /\ \E v \in Sanities : sanity' = v
    /\ UNCHANGED <<turn, oldsanity, reached, phase, resume, advanced, curio,
                   checked, hound, told>>

-----------------------------------------------------------------------------
(* Third part: chaos_next_use_on_safe. *)

AfterNextUse == /\ phase = "next_use" /\ Return
                /\ UNCHANGED <<world, oldsanity, curio, checked, hound, story>>

(* settle_attempt: the attempt is counted and terminal before it is judged *)
Settle(st, id) ==
    [st EXCEPT !.next_use_count = @ + 1, !.next_use_ordinal = st.next_use_count + 1,
               !.next_use_id = id, !.next_use_terminal = 1,
               !.next_use_terminal_seq = st.seq]

(* programs run strictly one after another, never more than the cap *)
NextUseOpen == /\ "next_use" \in Installed
               /\ s.next_use_count < ProgramCap
               /\ s.next_use_count > 0 => s.next_use_terminal = 1

NextUseWaits == AfterNextUse /\ UNCHANGED s

NextUseRejected ==
    /\ AfterNextUse /\ NextUseOpen
    /\ \E id \in 0..MaxId : s' = Settle(s, id)

(* chaos_next_use_debit, the receipt and the install.  A receipt or an install
   that fails does not give the price back.                                    *)
NextUseAdmitted ==
    /\ AfterNextUse /\ NextUseOpen
    /\ \E id \in 1..MaxId, cost \in 1..2, installed \in BOOLEAN :
         LET settled == Settle(s, id)
         IN  /\ cost <= Budget(settled, sanity) /\ cost <= BudgetCeiling - settled.spent
             /\ s' = IF installed
                     THEN [Charge(settled, cost) EXCEPT !.next_use_terminal = 0,
                                                        !.next_use_terminal_seq = 0]
                     ELSE Charge(settled, cost)

ProgramRuns == s.next_use_count > 0 /\ s.next_use_terminal = 0

(* a witnessed, rung or remapped effect of the live program *)
ProgramDelivers ==
    /\ phase = "play" /\ ProgramRuns
    /\ s' \in Logged(PacingCredit(s, "next_use"), 1)
    /\ delivered' = delivered \cup {"next_use"}
    /\ UNCHANGED <<world, oldsanity, phase, resume, advanced, curio, checked, hound, told>>

(* chaos_next_use_safe_terminal *)
ProgramEnds ==
    /\ phase = "play" /\ ProgramRuns
    /\ s' = [s EXCEPT !.next_use_terminal = 1, !.next_use_terminal_seq = s.seq]
    /\ UNCHANGED <<world, oldsanity, phase, resume, advanced, curio, checked, hound, story>>

-----------------------------------------------------------------------------
(* chaos_haunt_tick. *)

AfterHaunt == /\ phase = "haunt" /\ phase' = "play"
              /\ UNCHANGED <<world, oldsanity, resume, advanced, curio, story>>

(* a guard refuses, or there is no candidate or no place for it *)
HauntWaits == AfterHaunt /\ UNCHANGED <<s, checked, hound>>

(* the one look: the source, its evidence, the shadow run or the receipt fails *)
HauntRefused ==
    /\ AfterHaunt /\ "haunt" \in Installed /\ ~checked
    /\ Budget(s, sanity) >= SpendCost["haunt"]
    /\ checked' = TRUE /\ s' \in Logged(s, 1) /\ UNCHANGED hound

(* The staged debit is published only if the hound appears; the native spawn may
   log events in between, so nothing but the accounting is copied back.         *)
HauntAdmitted ==
    /\ AfterHaunt /\ "haunt" \in Installed /\ ~checked
    /\ LET charged == SpendNonEffect(s, sanity, "haunt")
       IN  /\ charged.result = "ok"
           /\ checked' = TRUE
           /\ \E spawned \in BOOLEAN, after \in Logged(s, 3) :
                IF spawned THEN hound' = TRUE /\ s' = CommitCharge(after, charged.state)
                ELSE UNCHANGED hound /\ s' = after

(* chaos_haunt_commit: a step the hero sees *)
HoundStep ==
    /\ phase = "play" /\ hound
    /\ s' \in Logged(PacingCredit(s, "haunt"), 1)
    /\ delivered' = delivered \cup {"haunt"}
    /\ UNCHANGED <<world, oldsanity, phase, resume, advanced, curio, checked, hound, told>>

(* chaos_haunt_died, or the end of the hunt chaos_haunt_tick finds *)
HoundEnds ==
    /\ hound /\ phase \in {"play", "haunt"}
    /\ hound' = FALSE
    /\ s' \in Logged(s, 1)
    /\ UNCHANGED <<world, oldsanity, phase, resume, advanced, curio, checked, story>>

-----------------------------------------------------------------------------
Next ==
    \/ Tick \/ SanityChanges \/ Descend \/ GameSafePoint \/ Observe
    \/ WhisperSkipped \/ WhisperIdle \/ WhisperDropped \/ WhisperApplied
    \/ CurioExpires \/ CurioWaits \/ CurioAttempt \/ CurioPlaced \/ CurioUsed
    \/ NextUseWaits \/ NextUseRejected \/ NextUseAdmitted \/ ProgramDelivers \/ ProgramEnds
    \/ HauntWaits \/ HauntRefused \/ HauntAdmitted \/ HoundStep \/ HoundEnds

Spec == Init /\ [][Next]_vars

-----------------------------------------------------------------------------
(****************************************************************************)
(* What the account promises.                                               *)
(****************************************************************************)

(* Restore rejects the whole save when chaos_state_valid fails or the last     *)
(* cosmetic turn lies after the restored clock (restore.c): no sequence of the *)
(* game's own handlers may produce a record its own restore refuses.           *)
SaveIsAccepted == StateValid(s) /\ s.cosmetic_last_turn <= turn

(* "at most 3 points are spent between one new deepest level and the next"     *)
(* (docs/chaos-protocol.md, Per-level cap), over all four spenders together,   *)
(* so a game that reached depth d never spent more than d + 1 allowances.      *)
WithinAllowance(st) ==
    st.pacing = 1 => /\ st.level_spent <= LevelCap
                     /\ st.spent - st.level_spent <= LevelCap * st.deepest

LevelAllowance == WithinAllowance(s)

(* Credit is earned by a delivery and by nothing else, and no staged record    *)
(* published later takes it back (chaos_commit_charge against *s = next).      *)
CreditIsDelivery == s.pacing = 1 => s.credited = delivered

(* The ambient messages of a whole game: distinct, at most three, spaced by    *)
(* CHAOS_COSMETIC_SPACING turns, and the mask remembers exactly those shown.   *)
CosmeticsArePaced ==
    /\ s.cosmetic_seen = {told[i].value : i \in DOMAIN told}
    /\ \A i, j \in DOMAIN told :
         i < j => /\ told[i].value # told[j].value
                  /\ told[j].turn >= told[i].turn + CosmeticSpacing

(* Every debit fits the capacity the hero has when it is made, and nothing is  *)
(* ever refunded: not by expiry, a rejected program, a failed spawn or a lost  *)
(* receipt.                                                                    *)
NoOverdraftNoRefund ==
    [][ /\ s'.spent >= s.spent
        /\ s'.spent > s.spent => s'.spent <= Capacity(s', sanity) ]_vars

(* An effect the game feels (chaos_rule) begins only with the request that asks *)
(* for it, at the turn of its admission and for the duration asked; "no stacking *)
(* or refresh": it is the same effect on every turn it is felt; and it stops     *)
(* being felt at its turn of expiry, on no earlier turn and on no later one.     *)
Felt(k) == RuleApplies(s, k, turn)

Begins(k) ==
    \E q \in Requests : q.kind = k /\ s'.effects[k].expires = turn + q.duration

FeltForItsTerm(k) ==
    /\ ~Felt(k) /\ Felt(k)' => Begins(k)
    /\ Felt(k) /\ Felt(k)' => s'.effects[k] = s.effects[k] /\ turn' < s.effects[k].expires
    /\ Felt(k) /\ ~Felt(k)' => turn' = s.effects[k].expires

(* no effect is still held at its turn of expiry or after it *)
NoneOverdue(st, now) ==
    \A k \in PersistentKinds : Active(st.effects[k]) => now < st.effects[k].expires

(* ... and its reservation goes with it: neither a safe point that is counted nor *)
(* chaos_observe leaves an effect behind whose turn has come.                     *)
EffectRunsItsTerm ==
    [][ /\ \A k \in PersistentKinds : FeltForItsTerm(k)
        /\ Observe \/ s'.safe # s.safe => NoneOverdue(s', turn) ]_vars

(* A whisper acts only under a fresh id: whatever installs an effect or shows a *)
(* message consumes an id no earlier request had ("Duplicate/stale requests     *)
(* never apply again").                                                         *)
FreshIdPerEffect ==
    [][ (\/ told' # told
         \/ \E k \in PersistentKinds : Active(s'.effects[k]) /\ s'.effects[k] # s.effects[k])
        => s'.last_id > s.last_id ]_vars

(* docs/chaos-protocol.md:268 "At most two active effects, at most one of each  *)
(* rule type" -- said of the effects whose rule still applies at this turn.     *)
AtMostTwoActive == Cardinality({k \in PersistentKinds : RuleApplies(s, k, turn)}) <= 2
=============================================================================
