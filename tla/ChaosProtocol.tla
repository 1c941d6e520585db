---------------------------- MODULE ChaosProtocol ----------------------------
(****************************************************************************)
(* The engine-independent core of NyarlatHack's chaos protocol              *)
(* (src/src/chaos_protocol.c, src/include/chaos_protocol.h): the saved      *)
(* accounting record u.chaos, its validity check, the budget formula and    *)
(* the functions that admit a request, charge a debit and expire an effect. *)
(* Every operator is a pure function of its arguments, as the C functions   *)
(* are; the modules that hold u.chaos as a variable apply them.             *)
(****************************************************************************)
EXTENDS Integers, FiniteSets

CONSTANTS
    MaxCounter,        \* CHAOS_MAX_COUNTER: last value of seq, safe and a cosmetic turn
    MaxDepth,          \* CHAOS_PACING_MAX_DEPTH
    SanityMax,         \* CHAOS_BUDGET_SANITY_MAX (the minimum is 0)
    BudgetBase,        \* CHAOS_BUDGET_BASE
    BudgetStep,        \* CHAOS_BUDGET_STEP
    BudgetCeiling,     \* CHAOS_BUDGET_CEILING
    DescentFrom,       \* CHAOS_PACING_DESCENT_FROM
    DescentCap,        \* CHAOS_PACING_DESCENT_CAP
    LevelCap,          \* CHAOS_PACING_LEVEL_CAP
    WitnessedCap,      \* CHAOS_PACING_WITNESSED_CAP
    CosmeticSpacing,   \* CHAOS_COSMETIC_SPACING, in turns
    ProgramCap         \* CHAOS_NEXT_USE_PROGRAM_CAP

(****************************************************************************)
(* The policy numbers the generated contract fixes.  The last conjunct is   *)
(* relied on without a check by chaos_budget: a policy-2 (pacing 0) state   *)
(* may spend up to the Sanity formula's largest value, so that value must   *)
(* not pass the ceiling chaos_state_valid enforces.                         *)
(****************************************************************************)
ASSUME PolicyAssumption ==
    /\ MaxCounter \in Nat \ {0} /\ MaxDepth \in Nat /\ SanityMax \in Nat
    /\ BudgetBase \in Nat /\ BudgetStep \in Nat \ {0} /\ BudgetCeiling \in Nat
    /\ DescentFrom \in Nat /\ DescentCap \in Nat /\ LevelCap \in Nat
    /\ WitnessedCap \in Nat /\ CosmeticSpacing \in Nat /\ ProgramCap \in Nat
    /\ BudgetBase + SanityMax \div BudgetStep <= BudgetCeiling

-----------------------------------------------------------------------------
(* The mutation table, CHAOS_MUTATION_ROWS.  A sanity limit of -1 is none. *)

PersistentKinds == {"ward_efficacy", "hunger_rate", "door_reluctance"}
Kinds == {"ambient"} \cup PersistentKinds
Messages == 1..3                       \* ambient values; CHAOS_COSMETIC_MASK = all

Cost == [ambient |-> 0, ward_efficacy |-> 3, hunger_rate |-> 3, door_reluctance |-> 1]
Magnitude == [ward_efficacy |-> 50, hunger_rate |-> 2, door_reluctance |-> 50]
DurationMax == [ward_efficacy |-> 50, hunger_rate |-> 50, door_reluctance |-> 300]
SanityLimit == [ambient |-> -1, ward_efficacy |-> 80, hunger_rate |-> 90,
                door_reluctance |-> -1]
NeedsOrdinaryFood(kind) == kind = "hunger_rate"

Spenders == {"curio", "haunt"}         \* enum of chaos_spend_non_effect
SpendCost == [curio |-> 1, haunt |-> 2]
Sources == {"haunt", "curio", "next_use"}   \* enum chaos_pacing_source, one bit each

Min2(a, b) == IF a <= b THEN a ELSE b
Max2(a, b) == IF a >= b THEN a ELSE b

-----------------------------------------------------------------------------
(* struct chaos_state: bit masks are sets, a zeroed effect is NoEffect. *)

NoEffect == [value |-> 0, cost |-> 0, expires |-> 0]
Active(e) == e.value # 0

State == [spent : Nat, reserved : Nat, last_id : Nat, seq : Nat, safe : Nat,
          effects : [PersistentKinds -> [value : Nat, cost : Nat, expires : Nat]],
          cosmetic_seen : SUBSET Messages, cosmetic_last_turn : Nat,
          pacing : {0, 1}, deepest : Nat, credited : SUBSET Sources,
          level_spent : Nat,
          next_use_count : Nat, next_use_ordinal : Nat, next_use_id : Nat,
          next_use_terminal : {0, 1}, next_use_terminal_seq : Nat]

(* chaos_state_init, and the pacing choice chaos_start makes for a new game *)
InitState(pacing) ==
    [spent |-> 0, reserved |-> 0, last_id |-> 0, seq |-> 0, safe |-> 0,
     effects |-> [k \in PersistentKinds |-> NoEffect],
     cosmetic_seen |-> {}, cosmetic_last_turn |-> 0,
     pacing |-> pacing, deepest |-> 0, credited |-> {}, level_spent |-> 0,
     next_use_count |-> 0, next_use_ordinal |-> 0, next_use_id |-> 0,
     next_use_terminal |-> 0, next_use_terminal_seq |-> 0]

EffectCosts(s) == s.effects["ward_efficacy"].cost + s.effects["hunger_rate"].cost
                    + s.effects["door_reluctance"].cost

EffectValid(k, e) ==
    IF Active(e) THEN e.value = Magnitude[k] /\ e.cost = Cost[k] /\ e.expires >= 1
                 ELSE e = NoEffect

(* chaos_state_valid: what restore accepts and every spender insists on *)
StateValid(s) ==
    /\ s.spent <= BudgetCeiling
    /\ s.safe <= MaxCounter /\ s.seq <= MaxCounter /\ s.cosmetic_last_turn <= MaxCounter
    /\ s.cosmetic_seen = {} => s.cosmetic_last_turn = 0
    /\ s.next_use_count <= ProgramCap /\ s.next_use_ordinal = s.next_use_count
    /\ s.next_use_terminal_seq <= s.seq
    /\ s.next_use_count = 0 => s.next_use_id = 0 /\ s.next_use_terminal = 0
    /\ s.next_use_terminal = 0 => s.next_use_terminal_seq = 0
    /\ s.pacing = 0 => s.deepest = 0 /\ s.credited = {} /\ s.level_spent = 0
    /\ s.deepest <= MaxDepth
    /\ s.level_spent <= s.spent
    /\ \A k \in PersistentKinds : EffectValid(k, s.effects[k])
    /\ EffectCosts(s) = s.reserved
    /\ s.reserved <= s.spent

-----------------------------------------------------------------------------
(* Capacity and debits. *)

(* chaos_pacing_extra *)
PacingExtra(s) ==
    IF s.pacing = 0 THEN 0
    ELSE Min2(Max2(s.deepest - DescentFrom, 0), DescentCap)
           + Min2(Cardinality(s.credited), WitnessedCap)

SanityCapacity(sanity) ==
    BudgetBase + (SanityMax - Max2(0, Min2(sanity, SanityMax))) \div BudgetStep

(* chaos_budget's lifetime capacity, before what is spent is taken off *)
Capacity(s, sanity) ==
    IF s.pacing = 0 THEN SanityCapacity(sanity)
    ELSE Min2(SanityCapacity(sanity) + PacingExtra(s), BudgetCeiling)

(* Wrong: what was spent before is forgotten. *)
BudgetForgetsSpent(s, sanity) ==
    Max2(0, IF s.pacing = 0 THEN Capacity(s, sanity)
            ELSE Min2(Capacity(s, sanity), LevelCap - s.level_spent))

(* chaos_budget *)
Budget(s, sanity) ==
    LET left == Capacity(s, sanity) - s.spent
    IN  Max2(0, IF s.pacing = 0 THEN left ELSE Min2(left, LevelCap - s.level_spent))

(* chaos_charge *)
Charge(s, cost) ==
    [s EXCEPT !.spent = @ + cost,
              !.level_spent = IF s.pacing = 1 THEN @ + cost ELSE @]

(* chaos_commit_charge: publish a staged debit's accounting and nothing else *)
CommitCharge(dst, src) ==
    [dst EXCEPT !.spent = src.spent, !.level_spent = src.level_spent]

(* Wrong: coming back to the deepest level opens its allowance again. *)
PacingLevelRevisited(s, reached) ==
    IF s.pacing = 1 /\ Min2(reached, MaxDepth) >= s.deepest
    THEN [s EXCEPT !.deepest = Min2(reached, MaxDepth), !.level_spent = 0]
    ELSE s

(* chaos_pacing_level: only a new deepest level opens an allowance *)
PacingLevel(s, reached) ==
    IF s.pacing = 1 /\ Min2(reached, MaxDepth) > s.deepest
    THEN [s EXCEPT !.deepest = Min2(reached, MaxDepth), !.level_spent = 0]
    ELSE s

(* Wrong: the bit is toggled instead of set. *)
PacingCreditToggled(s, source) ==
    IF s.pacing = 0 THEN s
    ELSE [s EXCEPT !.credited = IF source \in @ THEN @ \ {source} ELSE @ \cup {source}]

(* chaos_pacing_credit *)
PacingCredit(s, source) ==
    IF s.pacing = 1 THEN [s EXCEPT !.credited = @ \cup {source}] ELSE s

(* chaos_spend_non_effect: a result and the state it leaves *)
SpendNonEffect(s, sanity, spender) ==
    LET cost == SpendCost[spender] IN
    IF ~StateValid(s) THEN [result |-> "schema", state |-> s]
    ELSE IF cost > Budget(s, sanity) \/ cost > BudgetCeiling - s.spent
         THEN [result |-> "budget", state |-> s]
    ELSE [result |-> "ok", state |-> Charge(s, cost)]

-----------------------------------------------------------------------------
(* Effects and requests. *)

(* Wrong: the last turn is swept one turn late. *)
ExpiredLate(e, turn) == Active(e) /\ turn > e.expires

Expired(e, turn) == Active(e) /\ turn >= e.expires
ExpiredKinds(s, turn) == {k \in PersistentKinds : Expired(s.effects[k], turn)}

FreedCost(s, turn, k) == IF Expired(s.effects[k], turn) THEN s.effects[k].cost ELSE 0

(* Wrong: the effect is cleared and its reservation kept. *)
ExpireKeepsReserved(s, turn) ==
    [s EXCEPT !.effects = [k \in PersistentKinds |->
                             IF Expired(s.effects[k], turn) THEN NoEffect ELSE s.effects[k]]]

(* chaos_expire *)
Expire(s, turn) ==
    [s EXCEPT !.reserved = @ - FreedCost(s, turn, "ward_efficacy")
                             - FreedCost(s, turn, "hunger_rate")
                             - FreedCost(s, turn, "door_reluctance"),
              !.effects = [k \in PersistentKinds |->
                             IF Expired(s.effects[k], turn) THEN NoEffect ELSE s.effects[k]]]

(* request_valid: what chaos_parse lets through.  Version, telegraph and the *)
(* text around them are not represented: a request whose text is wrong is    *)
(* "malformed" to the readers of the mailbox.                                *)
RequestValid(r) ==
    /\ r.id \in Nat \ {0} /\ r.at \in Nat \ {0} /\ r.kind \in Kinds
    /\ r.kind = "ambient" => r.value \in Messages /\ r.duration = 0
    /\ r.kind # "ambient" => /\ r.value = Magnitude[r.kind]
                             /\ r.duration \in 1..DurationMax[r.kind]

(* Wrong: the cooldown ends one turn early. *)
AdmitAmbientEarly(s, r, turn) ==
    IF turn > MaxCounter THEN [result |-> "ineligible", state |-> s]
    ELSE IF r.value \in s.cosmetic_seen
            \/ (s.cosmetic_seen # {} /\ turn + 1 < s.cosmetic_last_turn + CosmeticSpacing)
         THEN [result |-> "cosmetic_cooldown", state |-> s]
    ELSE [result |-> "ok",
          state |-> [s EXCEPT !.cosmetic_seen = @ \cup {r.value}, !.cosmetic_last_turn = turn]]

(* Wrong: a turn past the last one a cosmetic timestamp can hold is stored. *)
AdmitAmbientUnbounded(s, r, turn) ==
    IF r.value \in s.cosmetic_seen
       \/ (s.cosmetic_seen # {} /\ turn < s.cosmetic_last_turn + CosmeticSpacing)
    THEN [result |-> "cosmetic_cooldown", state |-> s]
    ELSE [result |-> "ok",
          state |-> [s EXCEPT !.cosmetic_seen = @ \cup {r.value}, !.cosmetic_last_turn = turn]]

(* the ambient arm of chaos_admit: three distinct messages, spaced apart *)
AdmitAmbient(s, r, turn) ==
    IF turn > MaxCounter THEN [result |-> "ineligible", state |-> s]
    ELSE IF s.cosmetic_seen = Messages THEN [result |-> "cosmetic_budget", state |-> s]
    ELSE IF r.value \in s.cosmetic_seen THEN [result |-> "cosmetic_repeat", state |-> s]
    ELSE IF s.cosmetic_seen # {} /\ turn < s.cosmetic_last_turn + CosmeticSpacing
         THEN [result |-> "cosmetic_cooldown", state |-> s]
    ELSE [result |-> "ok",
          state |-> [s EXCEPT !.cosmetic_seen = @ \cup {r.value}, !.cosmetic_last_turn = turn]]

(* Wrong: an active effect is replaced, and its reservation with it. *)
AdmitEffectRefreshed(s, r, turn, sanity) ==
    LET cost == Cost[r.kind]
    IN  IF cost > Budget(s, sanity) THEN [result |-> "budget", state |-> s]
        ELSE [result |-> "ok",
              state |-> [Charge(s, cost) EXCEPT
                           !.reserved = @ - s.effects[r.kind].cost + cost,
                           !.effects[r.kind] = [value |-> r.value, cost |-> cost,
                                                expires |-> turn + r.duration]]]

(* the persistent arm of chaos_admit *)
AdmitEffect(s, r, turn, sanity) ==
    LET cost == Cost[r.kind]
        effect == [value |-> r.value, cost |-> cost, expires |-> turn + r.duration]
    IN  IF Active(s.effects[r.kind]) THEN [result |-> "active", state |-> s]
        ELSE IF cost > Budget(s, sanity) THEN [result |-> "budget", state |-> s]
        ELSE [result |-> "ok",
              state |-> [Charge(s, cost) EXCEPT !.reserved = @ + cost,
                                                !.effects[r.kind] = effect]]

Suitable(r, sanity, eligible) ==
    /\ eligible # 0
    /\ SanityLimit[r.kind] # -1 => sanity <= SanityLimit[r.kind]
    /\ NeedsOrdinaryFood(r.kind) => eligible = 1

(* Wrong: the last consumed id is accepted again. *)
AdmitReplayed(s, r, turn, sanity, eligible) ==
    IF r.id < s.last_id THEN [result |-> "duplicate", state |-> s]
    ELSE LET current == Expire([s EXCEPT !.last_id = r.id], turn)
         IN  IF r.at # s.safe THEN [result |-> "schedule", state |-> current]
             ELSE IF ~Suitable(r, sanity, eligible)
                  THEN [result |-> "ineligible", state |-> current]
             ELSE IF r.kind = "ambient" THEN AdmitAmbient(current, r, turn)
             ELSE AdmitEffect(current, r, turn, sanity)

(* chaos_admit.  The id is consumed before anything else can refuse. *)
Admit(s, r, turn, sanity, eligible) ==
    IF ~StateValid(s) \/ ~RequestValid(r) THEN [result |-> "schema", state |-> s]
    ELSE IF r.id <= s.last_id THEN [result |-> "duplicate", state |-> s]
    ELSE IF r.at > s.safe THEN [result |-> "future", state |-> s]
    ELSE LET claimed == [s EXCEPT !.last_id = r.id]
             current == Expire(claimed, turn)
         IN  IF r.at # s.safe THEN [result |-> "schedule", state |-> claimed]
             ELSE IF ~Suitable(r, sanity, eligible)
                  THEN [result |-> "ineligible", state |-> current]
             ELSE IF r.kind = "ambient" THEN AdmitAmbient(current, r, turn)
             ELSE AdmitEffect(current, r, turn, sanity)

(* Wrong: the turn of expiry still counts. *)
RuleAppliesOnExpiry(s, kind, turn) ==
    Active(s.effects[kind]) /\ turn <= s.effects[kind].expires

(* chaos_rule: whether an effect still changes the rule it is about *)
RuleApplies(s, kind, turn) == Active(s.effects[kind]) /\ turn < s.effects[kind].expires
=============================================================================
