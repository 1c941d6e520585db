------------------------- MODULE ChaosLedger_proofs -------------------------
(****************************************************************************)
(* Type correctness, SaveIsAccepted, LevelAllowance, NoOverdraftNoRefund,   *)
(* EffectRunsItsTerm, FreshIdPerEffect and CosmeticsArePaced of             *)
(* ChaosLedger, for every policy, request menu and bound the assumptions    *)
(* admit.                                                                   *)
(*                                                                          *)
(* The account is only ever changed through the operators of ChaosProtocol, *)
(* so the argument has two layers: each operator keeps a record Sound       *)
(* (typed, valid, within its allowance), and each action applies operators  *)
(* to the current record.  What a step may not do is argued the same way:   *)
(* each operator relates its record to the next one (Kept where nothing is  *)
(* paid for, Honest where something is), and the relations compose.         *)
(****************************************************************************)
EXTENDS ChaosLedger, TLAPS, FiniteSetTheorems

Sound(st) == st \in State /\ StateValid(st) /\ WithinAllowance(st)

-----------------------------------------------------------------------------
(* Arithmetic *)

LEMMA DivMonotone ==
  ASSUME NEW a \in Nat, NEW b \in Nat, NEW d \in Nat \ {0}, a <= b
  PROVE  a \div d <= b \div d /\ a \div d \in Nat
<1> DEFINE p == a \div d
           q == b \div d
<1>1. p \in Nat /\ q \in Nat /\ p * d <= a /\ b < q * d + d
  BY SMT
<1>2. CASE p <= q BY <1>1, <1>2
<1>3. CASE q + 1 <= p
  <2>1. (q + 1) * d <= p * d BY <1>1, <1>3, SMT
  <2>2. (q + 1) * d = q * d + d BY <1>1, SMT
  <2> QED BY <1>1, <2>1, <2>2, SMT
<1> QED BY <1>1, <1>2, <1>3

LEMMA ProductStep ==
  ASSUME NEW a \in Nat, NEW b \in Nat, NEW c \in Nat, a < b
  PROVE  c * a + c <= c * b
BY SMT

-----------------------------------------------------------------------------
(* chaos_budget: never more than the ceiling leaves, nor the level allows *)

LEMMA SanityCapacityBound ==
  ASSUME NEW v \in Nat
  PROVE  SanityCapacity(v) \in Nat /\ SanityCapacity(v) <= BudgetCeiling
<1> DEFINE lost == SanityMax - Max2(0, Min2(v, SanityMax))
<1>1. lost \in Nat /\ lost <= SanityMax
  BY PolicyAssumption DEF Max2, Min2
<1>2. lost \div BudgetStep <= SanityMax \div BudgetStep /\ lost \div BudgetStep \in Nat
  BY <1>1, DivMonotone, PolicyAssumption
<1> HIDE DEF lost
<1>3. SanityMax \div BudgetStep \in Nat
  BY DivMonotone, PolicyAssumption
<1> QED BY <1>2, <1>3, PolicyAssumption DEF SanityCapacity, lost

LEMMA BudgetBound ==
  ASSUME NEW st \in State, NEW v \in Nat
  PROVE  /\ Budget(st, v) \in Nat
         /\ Budget(st, v) > 0 => Budget(st, v) <= BudgetCeiling - st.spent
         /\ Budget(st, v) > 0 /\ st.pacing = 1
              => Budget(st, v) <= LevelCap - st.level_spent
<1>1. SanityCapacity(v) \in Nat /\ SanityCapacity(v) <= BudgetCeiling
  BY SanityCapacityBound
<1>2. st.spent \in Nat /\ st.level_spent \in Nat /\ st.pacing \in {0, 1} /\ st.deepest \in Nat
  BY DEF State
<1>3. Cardinality(st.credited) \in Nat
  <2>1. IsFiniteSet({"haunt"}) BY FS_Singleton
  <2>2. IsFiniteSet({"haunt"} \cup {"curio"}) BY <2>1, FS_AddElement
  <2>3. IsFiniteSet(({"haunt"} \cup {"curio"}) \cup {"next_use"}) BY <2>2, FS_AddElement
  <2>4. st.credited \subseteq ({"haunt"} \cup {"curio"}) \cup {"next_use"}
    BY DEF State, Sources
  <2> QED BY <2>3, <2>4, FS_Subset, FS_CardinalityType
<1>4. PacingExtra(st) \in Nat
  BY <1>2, <1>3, PolicyAssumption DEF PacingExtra, Min2, Max2
<1>5. Capacity(st, v) \in Nat /\ Capacity(st, v) <= BudgetCeiling
  BY <1>1, <1>4, PolicyAssumption DEF Capacity, Min2
<1> QED BY <1>2, <1>5, PolicyAssumption DEF Budget, Min2, Max2

-----------------------------------------------------------------------------
(* Each operator keeps the record sound, and none but chaos_pacing_credit and *)
(* the ambient arm of chaos_admit touches what Carries names.                 *)

Carries(st, u) == /\ u.pacing = st.pacing /\ u.credited = st.credited
                  /\ u.cosmetic_last_turn = st.cosmetic_last_turn

(* chaos_charge, when the caller has compared the cost with chaos_budget *)
LEMMA ChargeSound ==
  ASSUME NEW st, Sound(st), NEW v \in Nat, NEW cost \in Nat, cost <= Budget(st, v)
  PROVE  Sound(Charge(st, cost)) /\ Carries(st, Charge(st, cost))
<1> DEFINE a == st.spent + cost
           b == IF st.pacing = 1 THEN st.level_spent + cost ELSE st.level_spent
           u == [st EXCEPT !.spent = a, !.level_spent = b]
<1>1. st \in State /\ st.spent \in Nat /\ st.level_spent \in Nat /\ st.pacing \in {0, 1}
  BY DEF Sound, State
<1>2. a <= BudgetCeiling /\ (st.pacing = 1 => st.level_spent + cost <= LevelCap)
  <2>1. CASE cost = 0 BY <1>1, <2>1 DEF Sound, StateValid, WithinAllowance
  <2>2. CASE cost > 0 BY <1>1, <2>2, BudgetBound, PolicyAssumption
  <2> QED BY <2>1, <2>2
<1>3. a \in Nat /\ b \in Nat /\ a >= st.spent
  BY <1>1
<1>4. Charge(st, cost) = u BY <1>1 DEF Charge, State
<1> HIDE DEF a, b
<1>5. u \in State BY <1>1, <1>3 DEF State
<1>6. StateValid(u)
  BY <1>1, <1>2, <1>3 DEF a, b, Sound, State, StateValid, EffectCosts, EffectValid
<1>7. WithinAllowance(u)
  BY <1>1, <1>2, <1>3, PolicyAssumption DEF a, b, Sound, State, WithinAllowance
<1>8. Carries(st, u) BY <1>1 DEF Carries, State
<1> QED BY <1>4, <1>5, <1>6, <1>7, <1>8 DEF Sound

(* chaos_pacing_level *)
LEMMA PacingLevelSound ==
  ASSUME NEW st, Sound(st), NEW depth \in Nat
  PROVE  Sound(PacingLevel(st, depth)) /\ Carries(st, PacingLevel(st, depth))
<1> DEFINE d == Min2(depth, MaxDepth)
           u == [st EXCEPT !.deepest = d, !.level_spent = 0]
<1>1. /\ st \in State /\ st.spent \in Nat /\ st.level_spent \in Nat
      /\ st.deepest \in Nat /\ st.pacing \in {0, 1}
  BY DEF Sound, State
<1>2. d \in Nat /\ d <= MaxDepth BY PolicyAssumption DEF Min2
<1>3. CASE ~(st.pacing = 1 /\ d > st.deepest)
  BY <1>3 DEF PacingLevel, Carries
<1>4. CASE st.pacing = 1 /\ d > st.deepest
  <2>1. PacingLevel(st, depth) = u BY <1>4 DEF PacingLevel
  <2>2. st.spent <= LevelCap * st.deepest + LevelCap
    <3>1. LevelCap * st.deepest \in Nat BY <1>1, PolicyAssumption
    <3> QED BY <1>1, <1>4, <3>1, PolicyAssumption DEF Sound, WithinAllowance
  <2>3. LevelCap * st.deepest + LevelCap <= LevelCap * d
    BY <1>1, <1>2, <1>4, ProductStep, PolicyAssumption
  <2>4. st.spent <= LevelCap * d
    <3>1. LevelCap * st.deepest \in Nat /\ LevelCap * d \in Nat
      BY <1>1, <1>2, PolicyAssumption
    <3> QED BY <1>1, <2>2, <2>3, <3>1, PolicyAssumption
  <2> HIDE DEF d
  <2>5. u \in State BY <1>1, <1>2 DEF State
  <2>6. StateValid(u)
    BY <1>1, <1>2, <1>4 DEF Sound, State, StateValid, EffectCosts, EffectValid
  <2>7. WithinAllowance(u)
    BY <1>1, <2>4, PolicyAssumption DEF State, WithinAllowance
  <2>8. Carries(st, u) BY <1>1 DEF Carries, State
  <2> QED BY <2>1, <2>5, <2>6, <2>7, <2>8 DEF Sound
<1> QED BY <1>3, <1>4

(* chaos_pacing_credit *)
LEMMA PacingCreditSound ==
  ASSUME NEW st, Sound(st), NEW source \in Sources
  PROVE  /\ Sound(PacingCredit(st, source))
         /\ PacingCredit(st, source).pacing = st.pacing
         /\ PacingCredit(st, source).cosmetic_last_turn = st.cosmetic_last_turn
         /\ st.pacing = 1 => PacingCredit(st, source).credited = st.credited \cup {source}
<1> DEFINE u == [st EXCEPT !.credited = st.credited \cup {source}]
<1>1. st \in State /\ st.credited \in SUBSET Sources BY DEF Sound, State
<1>2. CASE st.pacing # 1 BY <1>2 DEF PacingCredit
<1>3. CASE st.pacing = 1
  <2>1. PacingCredit(st, source) = u BY <1>1, <1>3 DEF PacingCredit, State
  <2>2. st.credited \cup {source} \in SUBSET Sources BY <1>1
  <2>3. u \in State BY <1>1, <2>2 DEF State
  <2>4. StateValid(u)
    BY <1>1, <1>3 DEF Sound, State, StateValid, EffectCosts, EffectValid
  <2>5. WithinAllowance(u) BY <1>1 DEF Sound, State, WithinAllowance
  <2> QED BY <1>1, <2>1, <2>3, <2>4, <2>5 DEF Sound, State
<1> QED BY <1>2, <1>3

(* chaos_expire: what an expired effect held leaves the reservation with it *)
LEMMA ExpireSound ==
  ASSUME NEW st, Sound(st), NEW now \in Nat
  PROVE  Sound(Expire(st, now)) /\ Carries(st, Expire(st, now))
<1> DEFINE freed(k) == FreedCost(st, now, k)
           left == st.reserved - freed("ward_efficacy") - freed("hunger_rate")
                     - freed("door_reluctance")
           effs == [k \in PersistentKinds |->
                      IF Expired(st.effects[k], now) THEN NoEffect ELSE st.effects[k]]
           u == [st EXCEPT !.reserved = left, !.effects = effs]
           E == [value : Nat, cost : Nat, expires : Nat]
<1>1. st \in State /\ st.effects \in [PersistentKinds -> E] /\ st.reserved \in Nat
  BY DEF Sound, State
<1>2. NoEffect \in E BY DEF NoEffect
<1>3. effs \in [PersistentKinds -> E] BY <1>1, <1>2
<1>4. \A k \in PersistentKinds : /\ freed(k) \in Nat
                                 /\ st.effects[k].cost \in Nat
                                 /\ effs[k].cost = st.effects[k].cost - freed(k)
  BY <1>1 DEF FreedCost, NoEffect
<1>5. {"ward_efficacy", "hunger_rate", "door_reluctance"} = PersistentKinds
  BY DEF PersistentKinds
<1>6. left = effs["ward_efficacy"].cost + effs["hunger_rate"].cost
               + effs["door_reluctance"].cost
  <2>1. st.reserved = EffectCosts(st) BY DEF Sound, StateValid
  <2> HIDE DEF freed, effs
  <2> QED BY <1>4, <1>5, <2>1 DEF EffectCosts
<1>7. left \in Nat /\ left <= st.reserved
  <2>1. \A k \in PersistentKinds : effs[k].cost \in Nat BY <1>3
  <2> HIDE DEF freed, effs
  <2>2. left \in Nat BY <1>5, <1>6, <2>1
  <2>3. left <= st.reserved BY <1>1, <1>4, <1>5
  <2> QED BY <2>2, <2>3
<1>8. \A k \in PersistentKinds : EffectValid(k, effs[k])
  <2>1. \A k \in PersistentKinds : EffectValid(k, st.effects[k])
    BY DEF Sound, StateValid
  <2> QED BY <2>1 DEF EffectValid, NoEffect, Active
<1>9. Expire(st, now) = u BY <1>1 DEF Expire, State
<1> HIDE DEF left, effs
<1>10. u \in State BY <1>1, <1>3, <1>7 DEF State
<1>11. StateValid(u)
  BY <1>1, <1>5, <1>6, <1>7, <1>8 DEF Sound, State, StateValid, EffectCosts
<1>12. WithinAllowance(u) BY <1>1 DEF Sound, State, WithinAllowance
<1>13. Carries(st, u) BY <1>1 DEF State, Carries
<1> QED BY <1>9, <1>10, <1>11, <1>12, <1>13 DEF Sound

(* chaos_io_safe counts the point it opens, if the counter has room *)
LEMMA CountPointSound ==
  ASSUME NEW st, Sound(st), st.safe < MaxCounter
  PROVE  LET u == [st EXCEPT !.safe = @ + 1] IN Sound(u) /\ Carries(st, u)
<1> DEFINE u == [st EXCEPT !.safe = st.safe + 1]
<1>1. st \in State /\ st.safe \in Nat BY DEF Sound, State
<1>2. u \in State BY <1>1 DEF State
<1>3. StateValid(u)
  BY <1>1, PolicyAssumption DEF Sound, State, StateValid, EffectCosts, EffectValid
<1>4. WithinAllowance(u) BY <1>1 DEF Sound, State, WithinAllowance
<1> QED BY <1>1, <1>2, <1>3, <1>4 DEF Sound, State, Carries

(* consuming an id is free of every other field *)
LEMMA ClaimSound ==
  ASSUME NEW st, Sound(st), NEW id \in Nat
  PROVE  LET u == [st EXCEPT !.last_id = id] IN Sound(u) /\ Carries(st, u)
<1> DEFINE u == [st EXCEPT !.last_id = id]
<1>1. st \in State BY DEF Sound
<1>2. u \in State BY <1>1 DEF State
<1>3. StateValid(u)
  BY <1>1 DEF Sound, State, StateValid, EffectCosts, EffectValid
<1>4. WithinAllowance(u) BY <1>1 DEF Sound, State, WithinAllowance
<1> QED BY <1>1, <1>2, <1>3, <1>4 DEF Sound, State, Carries

(* event numbers only fill up to their limit *)
LEMMA LoggedSound ==
  ASSUME NEW st, Sound(st), NEW n \in Nat, NEW u \in Logged(st, n)
  PROVE  Sound(u) /\ Carries(st, u) /\ u.spent = st.spent /\ u.level_spent = st.level_spent
<1>1. PICK m \in {0, n} : u = [st EXCEPT !.seq = Min2(st.seq + m, MaxCounter)]
  BY DEF Logged
<1> DEFINE q == Min2(st.seq + m, MaxCounter)
<1>2. st \in State /\ st.seq \in Nat /\ st.seq <= MaxCounter
  BY DEF Sound, State, StateValid
<1>3. q \in Nat /\ q <= MaxCounter /\ st.seq <= q
  BY <1>2, PolicyAssumption DEF Min2
<1> HIDE DEF q
<1>4. u = [st EXCEPT !.seq = q] BY <1>1 DEF q
<1>5. u \in State BY <1>2, <1>3, <1>4 DEF State
<1>6. StateValid(u)
  BY <1>2, <1>3, <1>4, PolicyAssumption
     DEF Sound, State, StateValid, EffectCosts, EffectValid
<1>7. WithinAllowance(u) BY <1>2, <1>4 DEF Sound, State, WithinAllowance
<1> QED BY <1>2, <1>4, <1>5, <1>6, <1>7 DEF Sound, State, Carries

(* chaos_admit, both arms *)
LEMMA AdmitAmbientSound ==
  ASSUME NEW st, Sound(st), NEW r, r.value \in Messages, NEW now \in Nat,
         NEW verdict, verdict = AdmitAmbient(st, r, now)
  PROVE  /\ Sound(verdict.state)
         /\ verdict.state.pacing = st.pacing /\ verdict.state.credited = st.credited
         /\ verdict.state.cosmetic_last_turn \in {st.cosmetic_last_turn, now}
<1> DEFINE u == [st EXCEPT !.cosmetic_seen = st.cosmetic_seen \cup {r.value},
                           !.cosmetic_last_turn = now]
<1>1. st \in State BY DEF Sound
<1>2. CASE verdict.state = st BY <1>1, <1>2
<1>3. CASE now <= MaxCounter /\ verdict.state = u
  <2>1. st.cosmetic_seen \cup {r.value} \in SUBSET Messages BY <1>1 DEF State
  <2>2. u \in State BY <1>1, <2>1 DEF State
  <2>3. StateValid(u)
    BY <1>1, <1>3 DEF Sound, State, StateValid, EffectCosts, EffectValid
  <2>4. WithinAllowance(u) BY <1>1 DEF Sound, State, WithinAllowance
  <2> QED BY <1>1, <1>3, <2>2, <2>3, <2>4 DEF Sound, State
<1>4. verdict.state = st \/ (now <= MaxCounter /\ verdict.state = u)
  BY <1>1, PolicyAssumption DEF AdmitAmbient, State
<1> QED BY <1>2, <1>3, <1>4

LEMMA CostIsNat == \A k \in Kinds : Cost[k] \in Nat
BY DEF Cost, Kinds, PersistentKinds

LEMMA AdmitEffectSound ==
  ASSUME NEW st, Sound(st), NEW r, r.kind \in PersistentKinds,
         r.value = Magnitude[r.kind], r.duration \in Nat \ {0},
         NEW now \in Nat, NEW v \in Nat,
         NEW verdict, verdict = AdmitEffect(st, r, now, v)
  PROVE  Sound(verdict.state) /\ Carries(st, verdict.state)
<1> DEFINE cost == Cost[r.kind]
           paid == Charge(st, cost)
           effect == [value |-> r.value, cost |-> cost, expires |-> now + r.duration]
           effs == [paid.effects EXCEPT ![r.kind] = effect]
           u == [paid EXCEPT !.reserved = paid.reserved + cost, !.effects = effs]
           E == [value : Nat, cost : Nat, expires : Nat]
<1>1. st \in State /\ st.effects \in [PersistentKinds -> E] BY DEF Sound, State
<1>2. CASE verdict.state = st BY <1>1, <1>2 DEF Carries
<1>3. CASE /\ ~Active(st.effects[r.kind]) /\ cost <= Budget(st, v)
           /\ verdict.state = u
  <2>1. cost \in Nat BY CostIsNat DEF Kinds
  <2>2. Sound(paid) /\ Carries(st, paid) BY <1>3, <2>1, ChargeSound
  <2>3. /\ paid \in State /\ paid.effects = st.effects /\ paid.reserved = st.reserved
        /\ paid.spent = st.spent + cost
    BY <1>1, <2>2 DEF Sound, State, Charge
  <2>4. effect \in E /\ EffectValid(r.kind, effect)
    <3>1. r.value \in Nat /\ r.value # 0 BY DEF Magnitude, PersistentKinds
    <3> QED BY <2>1, <3>1 DEF EffectValid, Active
  <2>5. /\ effs \in [PersistentKinds -> E]
        /\ \A k \in PersistentKinds : effs[k] = IF k = r.kind THEN effect ELSE st.effects[k]
    BY <1>1, <2>3, <2>4
  <2>6. \A k \in PersistentKinds : EffectValid(k, effs[k])
    BY <2>4, <2>5 DEF Sound, StateValid
  <2>7. st.effects[r.kind].cost = 0
    BY <1>1, <1>3 DEF Sound, StateValid, EffectValid, NoEffect
  <2>8. /\ \A k \in PersistentKinds : st.effects[k].cost \in Nat
        /\ effect.cost = cost
    BY <1>1
  <2> HIDE DEF effs, effect, cost, paid
  <2>9. effs["ward_efficacy"].cost + effs["hunger_rate"].cost + effs["door_reluctance"].cost
          = EffectCosts(st) + cost
    BY <2>1, <2>5, <2>7, <2>8 DEF EffectCosts, PersistentKinds
  <2>10. /\ EffectCosts(st) = st.reserved /\ st.reserved \in Nat /\ st.spent \in Nat
         /\ st.reserved <= st.spent
    BY <1>1 DEF Sound, State, StateValid
  <2>11. u \in State
    <3>1. paid.reserved + cost \in Nat BY <2>1, <2>3, <2>10
    <3> QED BY <2>3, <2>5, <3>1 DEF State
  <2>12. StateValid(u)
    BY <2>1, <2>2, <2>3, <2>6, <2>9, <2>10 DEF Sound, State, StateValid, EffectCosts
  <2>13. WithinAllowance(u) BY <2>2, <2>3 DEF Sound, State, WithinAllowance
  <2>14. Carries(paid, u) BY <2>3 DEF State, Carries
  <2> QED BY <1>3, <2>2, <2>11, <2>12, <2>13, <2>14 DEF Sound, Carries
<1>4. \/ verdict.state = st
      \/ /\ ~Active(st.effects[r.kind]) /\ cost <= Budget(st, v)
         /\ verdict.state = u
  BY <1>1, BudgetBound, CostIsNat DEF AdmitEffect, Kinds
<1> QED BY <1>2, <1>3, <1>4

LEMMA AdmitSound ==
  ASSUME NEW st, Sound(st), NEW r, NEW now \in Nat, NEW v \in Nat, NEW food \in 0..2
  PROVE  LET next == Admit(st, r, now, v, food).state
         IN  /\ Sound(next)
             /\ next.pacing = st.pacing /\ next.credited = st.credited
             /\ next.cosmetic_last_turn \in {st.cosmetic_last_turn, now}
<1> DEFINE verdict == Admit(st, r, now, v, food)
           claimed == [st EXCEPT !.last_id = r.id]
           current == Expire(claimed, now)
<1>1. CASE verdict.state = st BY <1>1
<1>2. CASE RequestValid(r) /\ verdict.state # st
  <2>1. Sound(claimed) /\ Carries(st, claimed)
    BY <1>2, ClaimSound DEF RequestValid
  <2> HIDE DEF claimed
  <2>2. Sound(current) /\ Carries(st, current)
    BY <2>1, ExpireSound DEF Carries
  <2> HIDE DEF current
  <2>3. CASE verdict.state \in {claimed, current}
    BY <2>1, <2>2, <2>3 DEF Carries
  <2>4. CASE r.kind = "ambient" /\ verdict = AdmitAmbient(current, r, now)
    <3>1. r.value \in Messages BY <1>2, <2>4 DEF RequestValid
    <3>2. /\ Sound(verdict.state)
          /\ verdict.state.pacing = current.pacing
          /\ verdict.state.credited = current.credited
          /\ verdict.state.cosmetic_last_turn \in {current.cosmetic_last_turn, now}
      BY <2>2, <2>4, <3>1, AdmitAmbientSound
    <3> QED BY <2>2, <3>2 DEF Carries
  <2>5. CASE r.kind # "ambient" /\ verdict = AdmitEffect(current, r, now, v)
    <3>1. r.kind \in PersistentKinds BY <1>2, <2>5 DEF RequestValid, Kinds
    <3>2. DurationMax[r.kind] \in Nat BY <3>1 DEF DurationMax, PersistentKinds
    <3>3. r.value = Magnitude[r.kind] /\ r.duration \in Nat \ {0}
      BY <1>2, <2>5, <3>2 DEF RequestValid
    <3>4. Sound(verdict.state) /\ Carries(current, verdict.state)
      BY <2>2, <2>5, <3>1, <3>3, AdmitEffectSound
    <3> QED BY <2>2, <3>4 DEF Carries
  <2> QED BY <1>2, <2>3, <2>4, <2>5 DEF Admit, current, claimed
<1>3. verdict.state = st \/ RequestValid(r)
  BY DEF Admit, Sound
<1> HIDE DEF verdict
<1> QED BY <1>1, <1>2, <1>3

(* settle_attempt, when the cap leaves room for one more attempt *)
LEMMA SettleSound ==
  ASSUME NEW st, Sound(st), st.next_use_count < ProgramCap, NEW id \in Nat
  PROVE  /\ Sound(Settle(st, id)) /\ Carries(st, Settle(st, id))
         /\ Settle(st, id).next_use_count > 0
<1> DEFINE n == st.next_use_count + 1
           u == [st EXCEPT !.next_use_count = n, !.next_use_ordinal = n,
                           !.next_use_id = id, !.next_use_terminal = 1,
                           !.next_use_terminal_seq = st.seq]
<1>1. st \in State /\ st.next_use_count \in Nat /\ st.seq \in Nat BY DEF Sound, State
<1>2. Settle(st, id) = u BY <1>1 DEF Settle, State
<1>3. n \in Nat /\ n > 0 /\ n <= ProgramCap BY <1>1, PolicyAssumption
<1> HIDE DEF n
<1>4. u \in State BY <1>1, <1>3 DEF State
<1>5. StateValid(u)
  BY <1>1, <1>3 DEF Sound, State, StateValid, EffectCosts, EffectValid
<1>6. WithinAllowance(u) BY <1>1 DEF Sound, State, WithinAllowance
<1> QED BY <1>1, <1>2, <1>3, <1>4, <1>5, <1>6 DEF Sound, State, Carries

(* installing a program, or ending it, moves only the terminal boundary *)
Boundary(st, b, q) == [st EXCEPT !.next_use_terminal = b, !.next_use_terminal_seq = q]

LEMMA TerminalSound ==
  ASSUME NEW st, Sound(st), NEW b \in {0, 1}, NEW q \in Nat, q <= st.seq,
         b = 0 => q = 0, st.next_use_count > 0
  PROVE  Sound(Boundary(st, b, q)) /\ Carries(st, Boundary(st, b, q))
<1> DEFINE u == [st EXCEPT !.next_use_terminal = b, !.next_use_terminal_seq = q]
<1>1. st \in State BY DEF Sound
<1>2. u \in State BY <1>1 DEF State
<1>3. StateValid(u)
  BY <1>1 DEF Sound, State, StateValid, EffectCosts, EffectValid
<1>4. WithinAllowance(u) BY <1>1 DEF Sound, State, WithinAllowance
<1> QED BY <1>1, <1>2, <1>3, <1>4 DEF Boundary, Sound, State, Carries

(* a staged debit published over a record that logged events meanwhile *)
LEMMA CommitSound ==
  ASSUME NEW st, Sound(st), NEW v \in Nat, NEW spender \in Spenders,
         SpendNonEffect(st, v, spender).result = "ok",
         NEW n \in Nat, NEW dst \in Logged(st, n)
  PROVE  LET u == CommitCharge(dst, SpendNonEffect(st, v, spender).state)
         IN  Sound(u) /\ Carries(st, u)
<1> DEFINE cost == SpendCost[spender]
           src == Charge(st, cost)
           u == CommitCharge(dst, src)
<1>1. cost \in Nat BY DEF SpendCost, Spenders
<1>2. /\ SpendNonEffect(st, v, spender).state = src
      /\ ~(cost > Budget(st, v))
  BY DEF SpendNonEffect
<1>3. st \in State /\ st.spent \in Nat /\ st.level_spent \in Nat BY DEF Sound, State
<1>4. cost <= Budget(st, v) BY <1>1, <1>2, <1>3, BudgetBound
<1>5. Sound(src) /\ Carries(st, src) BY <1>1, <1>4, ChargeSound
<1>6. PICK m \in {0, n} : dst = [st EXCEPT !.seq = Min2(st.seq + m, MaxCounter)]
  BY DEF Logged
<1> DEFINE q == Min2(st.seq + m, MaxCounter)
           w == [src EXCEPT !.seq = q]
<1>7. w \in Logged(src, n)
  <2>1. src.seq = st.seq BY <1>3 DEF Charge, State
  <2> QED BY <2>1, <1>6 DEF Logged
<1>8. Sound(w) /\ Carries(src, w) BY <1>5, <1>7, LoggedSound
<1>9. u = w
  <2>1. src = [st EXCEPT !.spent = src.spent, !.level_spent = src.level_spent]
    BY <1>3 DEF Charge, State
  <2>2. src \in State BY <1>5 DEF Sound
  <2> HIDE DEF src, q
  <2>3. dst = [st EXCEPT !.seq = q] BY <1>6 DEF q
  <2> QED BY <1>3, <2>1, <2>2, <2>3 DEF CommitCharge, State
<1> QED BY <1>2, <1>5, <1>8, <1>9 DEF Carries

-----------------------------------------------------------------------------
(* The inductive invariant.  SaveIsAccepted needs LevelAllowance (the debit of *)
(* a level must not outgrow it when a deeper one resets the count) and the     *)
(* clock bound on the last cosmetic turn; CreditIsDelivery rides along.        *)

IInv == TypeOK /\ Sound(s) /\ s.cosmetic_last_turn <= turn /\ CreditIsDelivery

LEMMA InitIInv == Init => IInv
<1> SUFFICES ASSUME Init PROVE IInv OBVIOUS
<1>1. PICK p \in Pacings : s = InitState(p) BY DEF Init
<1>2. p \in {0, 1} BY ExplorationAssumption
<1>3. s \in State
  BY <1>1, <1>2 DEF InitState, State, NoEffect
<1>4. StateValid(s)
  BY <1>1, PolicyAssumption
     DEF InitState, StateValid, EffectValid, EffectCosts, NoEffect, Active, PersistentKinds
<1>5. WithinAllowance(s)
  <2>1. s.spent = 0 /\ s.level_spent = 0 /\ s.deepest = 0 BY <1>1 DEF InitState
  <2> QED BY <2>1, PolicyAssumption DEF WithinAllowance
<1>6. TypeOK
  <2>1. turn \in 0..MaxTurn /\ reached \in 1..MaxReached
    BY ExplorationAssumption DEF Init
  <2>2. told \in Seq([value : Messages, turn : Nat]) BY DEF Init
  <2> QED BY <1>3, <2>1, <2>2 DEF Init, TypeOK, CurioPhases
<1>7. s.cosmetic_last_turn <= turn /\ CreditIsDelivery
  BY <1>1 DEF Init, InitState, CreditIsDelivery
<1> QED BY <1>3, <1>4, <1>5, <1>6, <1>7 DEF IInv, Sound

(* What an action must show of the account when it shows no message and *)
(* delivers nothing.                                                    *)
LEMMA QuietStep ==
  ASSUME IInv, Sound(s'), Carries(s, s'), turn' \in {turn, turn + 1},
         delivered' = delivered
  PROVE  Sound(s') /\ s'.cosmetic_last_turn <= turn' /\ CreditIsDelivery'
<1>1. s.cosmetic_last_turn \in Nat /\ turn \in Nat /\ s.cosmetic_last_turn <= turn
  BY ExplorationAssumption DEF IInv, TypeOK, Sound, State
<1>2. s'.cosmetic_last_turn <= turn' BY <1>1 DEF Carries
<1>3. CreditIsDelivery' BY DEF IInv, CreditIsDelivery, Carries
<1> QED BY <1>2, <1>3

LEMMA OpenPointSound ==
  ASSUME IInv, s.safe < MaxCounter
  PROVE  Sound(OpenPoint) /\ Carries(s, OpenPoint)
<1> DEFINE leveled == PacingLevel(s, reached)
           current == Expire(leveled, turn)
<1>1. reached \in Nat /\ turn \in Nat /\ Sound(s) BY DEF IInv, TypeOK
<1>2. Sound(leveled) /\ Carries(s, leveled) BY <1>1, PacingLevelSound
<1>3. Sound(current) /\ Carries(leveled, current) BY <1>1, <1>2, ExpireSound
<1>4. current.safe = s.safe
  <2>1. s \in State /\ leveled \in State BY <1>1, <1>2 DEF Sound
  <2>2. leveled.safe = s.safe BY <2>1 DEF PacingLevel, State
  <2>3. current.safe = leveled.safe BY <2>1 DEF Expire, State
  <2> QED BY <2>2, <2>3
<1> HIDE DEF leveled, current
<1>5. OpenPoint = [current EXCEPT !.safe = @ + 1] BY DEF OpenPoint, leveled, current
<1>6. Sound(OpenPoint) /\ Carries(current, OpenPoint)
  BY <1>3, <1>4, <1>5, CountPointSound
<1> QED BY <1>2, <1>3, <1>6 DEF Carries

LEMMA VerdictSound ==
  ASSUME IInv, s.safe < MaxCounter, NEW verdict \in Verdicts
  PROVE  /\ Sound(verdict.state)
         /\ verdict.state.pacing = s.pacing /\ verdict.state.credited = s.credited
         /\ verdict.state.cosmetic_last_turn \in {s.cosmetic_last_turn, turn}
<1>1. PICK q \in Requests, id \in 1..MaxId, at \in Max2(1, s.safe)..(s.safe + 1),
           eligible \in 0..2 :
        verdict = Admit(OpenPoint, [id |-> id, at |-> at, kind |-> q.kind,
                                    value |-> q.value, duration |-> q.duration],
                        turn, sanity, eligible)
  BY DEF Verdicts
<1> DEFINE r == [id |-> id, at |-> at, kind |-> q.kind, value |-> q.value,
                 duration |-> q.duration]
<1>2. turn \in Nat /\ sanity \in Nat BY ExplorationAssumption DEF IInv, TypeOK
<1>3. Sound(OpenPoint) /\ Carries(s, OpenPoint) BY OpenPointSound
<1>5. verdict = Admit(OpenPoint, r, turn, sanity, eligible) BY <1>1
<1> HIDE DEF r
<1>4. /\ Sound(verdict.state)
      /\ verdict.state.pacing = OpenPoint.pacing
      /\ verdict.state.credited = OpenPoint.credited
      /\ verdict.state.cosmetic_last_turn \in {OpenPoint.cosmetic_last_turn, turn}
  BY <1>2, <1>3, <1>5, AdmitSound, SMTT(30)
<1> QED BY <1>3, <1>4 DEF Carries

(* The part of TypeOK that is not about the account *)
RestOK ==
    /\ turn \in 0..MaxTurn /\ sanity \in Sanities /\ oldsanity \in Sanities
    /\ reached \in 1..MaxReached
    /\ phase \in {"play", "safe", "curio", "next_use", "haunt"}
    /\ resume \in {"play", "haunt"} /\ advanced \in BOOLEAN
    /\ curio \in CurioPhases /\ checked \in BOOLEAN /\ hound \in BOOLEAN
    /\ told \in Seq([value : Messages, turn : Nat])
    /\ delivered \subseteq Sources

LEMMA RestStep == RestOK /\ s \in State /\ s' \in State /\ Next => RestOK'
<1> SUFFICES ASSUME RestOK, s \in State, s' \in State, Next PROVE RestOK'
  OBVIOUS
<1> USE ExplorationAssumption DEF RestOK, vars, world, story, CurioPhases, Sources
<1>1. CASE Tick BY <1>1 DEF Tick
<1>2. CASE SanityChanges BY <1>2 DEF SanityChanges
<1>3. CASE Descend BY <1>3 DEF Descend
<1>4. CASE GameSafePoint BY <1>4 DEF GameSafePoint
<1>5. CASE Observe BY <1>5 DEF Observe
<1>6. CASE WhisperSkipped BY <1>6 DEF WhisperSkipped, Leave
<1>7. CASE WhisperIdle BY <1>7 DEF WhisperIdle, Leave
<1>8. CASE WhisperDropped BY <1>8 DEF WhisperDropped, WhisperRead, Leave
<1>9. CASE WhisperApplied
  <2>1. told' \in Seq([value : Messages, turn : Nat])
    <3>1. PICK verdict \in Verdicts :
            /\ s' \in Logged(verdict.state, 3)
            /\ LET shown == verdict.state.cosmetic_seen \ s.cosmetic_seen
               IN  IF shown = {} THEN told' = told
                   ELSE \E v \in shown : told' = Append(told, [value |-> v, turn |-> turn])
      BY <1>9 DEF WhisperApplied
    <3>2. CASE told' = told BY <3>2
    <3>3. CASE \E v \in verdict.state.cosmetic_seen \ s.cosmetic_seen :
                 told' = Append(told, [value |-> v, turn |-> turn])
      <4>1. PICK v \in verdict.state.cosmetic_seen :
              told' = Append(told, [value |-> v, turn |-> turn])
        BY <3>3
      <4>2. PICK m \in {0, 3} :
              s' = [verdict.state EXCEPT !.seq = Min2(verdict.state.seq + m, MaxCounter)]
        BY <3>1 DEF Logged
      <4>3. v \in Messages
        <5>1. DOMAIN s' = DOMAIN verdict.state BY <4>2
        <5>2. "cosmetic_seen" \in DOMAIN s' BY DEF State
        <5>3. s'.cosmetic_seen = verdict.state.cosmetic_seen BY <4>2, <5>1, <5>2
        <5> QED BY <4>1, <5>3 DEF State
      <4>4. [value |-> v, turn |-> turn] \in [value : Messages, turn : Nat] BY <4>3
      <4> QED BY <4>1, <4>4
    <3> QED BY <3>1, <3>2, <3>3
  <2> QED BY <1>9, <2>1 DEF WhisperApplied, WhisperRead, Leave
<1>10. CASE CurioExpires BY <1>10 DEF CurioExpires, AfterCurio, Return
<1>11. CASE CurioWaits BY <1>11 DEF CurioWaits, AfterCurio, Return
<1>12. CASE CurioAttempt BY <1>12 DEF CurioAttempt, AfterCurio, Return
<1>13. CASE CurioPlaced BY <1>13 DEF CurioPlaced
<1>14. CASE CurioUsed BY <1>14 DEF CurioUsed
<1>15. CASE NextUseWaits BY <1>15 DEF NextUseWaits, AfterNextUse, Return
<1>16. CASE NextUseRejected BY <1>16 DEF NextUseRejected, AfterNextUse, Return
<1>17. CASE NextUseAdmitted BY <1>17 DEF NextUseAdmitted, AfterNextUse, Return
<1>18. CASE ProgramDelivers BY <1>18 DEF ProgramDelivers
<1>19. CASE ProgramEnds BY <1>19 DEF ProgramEnds
<1>20. CASE HauntWaits BY <1>20 DEF HauntWaits, AfterHaunt
<1>21. CASE HauntRefused BY <1>21 DEF HauntRefused, AfterHaunt
<1>22. CASE HauntAdmitted BY <1>22 DEF HauntAdmitted, AfterHaunt
<1>23. CASE HoundStep BY <1>23 DEF HoundStep
<1>24. CASE HoundEnds BY <1>24 DEF HoundEnds
<1> QED BY <1>1, <1>2, <1>3, <1>4, <1>5, <1>6, <1>7, <1>8, <1>9, <1>10, <1>11, <1>12,
           <1>13, <1>14, <1>15, <1>16, <1>17, <1>18, <1>19, <1>20, <1>21, <1>22, <1>23,
           <1>24 DEF Next

(* Every action leaves the account sound, its cosmetic clock in the past and *)
(* its credit earned.                                                        *)
AccountOK == Sound(s) /\ s.cosmetic_last_turn <= turn /\ CreditIsDelivery

LEMMA AccountStep == IInv /\ Next => AccountOK'
<1> SUFFICES ASSUME IInv, Next PROVE AccountOK'
  OBVIOUS
<1> USE DEF AccountOK, world, story
<1>0. /\ Sound(s) /\ Carries(s, s) /\ s \in State /\ s.seq \in Nat
      /\ turn \in Nat /\ sanity \in Nat /\ reached \in Nat
  <2>1. Sound(s) /\ s \in State BY DEF IInv, TypeOK
  <2>2. turn \in Nat /\ sanity \in Nat /\ reached \in Nat
    BY ExplorationAssumption DEF IInv, TypeOK
  <2> QED BY <2>1, <2>2 DEF Carries, State
<1>1. CASE Tick BY <1>1, <1>0, QuietStep DEF Tick
<1>2. CASE SanityChanges BY <1>2, <1>0, QuietStep DEF SanityChanges
<1>3. CASE Descend BY <1>3, <1>0, QuietStep DEF Descend
<1>4. CASE GameSafePoint BY <1>4, <1>0, QuietStep DEF GameSafePoint
<1>5. CASE CurioWaits BY <1>5, <1>0, QuietStep DEF CurioWaits, AfterCurio
<1>6. CASE CurioPlaced BY <1>6, <1>0, QuietStep DEF CurioPlaced
<1>7. CASE NextUseWaits BY <1>7, <1>0, QuietStep DEF NextUseWaits, AfterNextUse
<1>8. CASE HauntWaits BY <1>8, <1>0, QuietStep DEF HauntWaits, AfterHaunt
<1>9. CASE CurioExpires
  <2>1. s' \in Logged(s, 1) /\ turn' = turn /\ delivered' = delivered
    BY <1>9 DEF CurioExpires, AfterCurio
  <2> QED BY <1>0, <2>1, LoggedSound, QuietStep
<1>10. CASE HauntRefused
  <2>1. s' \in Logged(s, 1) /\ turn' = turn /\ delivered' = delivered
    BY <1>10 DEF HauntRefused, AfterHaunt
  <2> QED BY <1>0, <2>1, LoggedSound, QuietStep
<1>11. CASE HoundEnds
  <2>1. s' \in Logged(s, 1) /\ turn' = turn /\ delivered' = delivered
    BY <1>11 DEF HoundEnds
  <2> QED BY <1>0, <2>1, LoggedSound, QuietStep
<1>12. CASE Observe
  <2> DEFINE k == Cardinality(ExpiredKinds(s, turn)) + (IF sanity # oldsanity THEN 1 ELSE 0)
  <2>1. s' \in Logged(Expire(s, turn), k) /\ turn' = turn /\ delivered' = delivered
    BY <1>12 DEF Observe
  <2>2. k \in Nat
    <3>1. IsFiniteSet({"ward_efficacy"}) BY FS_Singleton
    <3>2. IsFiniteSet({"ward_efficacy"} \cup {"hunger_rate"}) BY <3>1, FS_AddElement
    <3>3. IsFiniteSet(({"ward_efficacy"} \cup {"hunger_rate"}) \cup {"door_reluctance"})
      BY <3>2, FS_AddElement
    <3>4. ExpiredKinds(s, turn)
            \subseteq ({"ward_efficacy"} \cup {"hunger_rate"}) \cup {"door_reluctance"}
      BY DEF ExpiredKinds, PersistentKinds
    <3> QED BY <3>3, <3>4, FS_Subset, FS_CardinalityType
  <2> HIDE DEF k
  <2>3. Sound(Expire(s, turn)) /\ Carries(s, Expire(s, turn)) BY <1>0, ExpireSound
  <2>4. Sound(s') /\ Carries(Expire(s, turn), s') BY <2>1, <2>2, <2>3, LoggedSound
  <2> QED BY <2>1, <2>3, <2>4, QuietStep DEF Carries
<1>13. CASE WhisperSkipped
  <2>1. Sound(s') /\ Carries(s, s') BY <1>13, <1>0, PacingLevelSound DEF WhisperSkipped
  <2> QED BY <1>13, <2>1, QuietStep DEF WhisperSkipped, Leave
<1>14. CASE WhisperIdle
  <2>1. s.safe < MaxCounter /\ s' \in Logged(OpenPoint, 2) /\ turn' = turn
        /\ delivered' = delivered
    BY <1>14 DEF WhisperIdle, Leave
  <2>2. Sound(OpenPoint) /\ Carries(s, OpenPoint) BY <2>1, OpenPointSound
  <2>3. Sound(s') /\ Carries(OpenPoint, s') BY <2>1, <2>2, LoggedSound
  <2> QED BY <2>1, <2>2, <2>3, QuietStep DEF Carries
<1>15. CASE WhisperDropped
  <2>1. PICK verdict \in Verdicts :
          s' \in Logged([OpenPoint EXCEPT !.last_id = verdict.state.last_id], 3)
    BY <1>15 DEF WhisperDropped
  <2>2. s.safe < MaxCounter /\ turn' = turn /\ delivered' = delivered
    BY <1>15 DEF WhisperDropped, WhisperRead, Leave
  <2> DEFINE u == [OpenPoint EXCEPT !.last_id = verdict.state.last_id]
  <2>3. Sound(OpenPoint) /\ Carries(s, OpenPoint) BY <2>2, OpenPointSound
  <2>4. verdict.state.last_id \in Nat BY <2>2, VerdictSound DEF Sound, State
  <2>5. Sound(u) /\ Carries(OpenPoint, u) BY <2>3, <2>4, ClaimSound
  <2> HIDE DEF u
  <2>6. s' \in Logged(u, 3) BY <2>1 DEF u
  <2>7. Sound(s') /\ Carries(u, s') BY <2>5, <2>6, LoggedSound
  <2> QED BY <2>2, <2>3, <2>5, <2>7, QuietStep DEF Carries
<1>16. CASE WhisperApplied
  <2>1. PICK verdict \in Verdicts : s' \in Logged(verdict.state, 3)
    BY <1>16 DEF WhisperApplied
  <2>2. s.safe < MaxCounter /\ turn' = turn /\ delivered' = delivered
    BY <1>16 DEF WhisperApplied, WhisperRead, Leave
  <2>3. /\ Sound(verdict.state)
        /\ verdict.state.pacing = s.pacing /\ verdict.state.credited = s.credited
        /\ verdict.state.cosmetic_last_turn \in {s.cosmetic_last_turn, turn}
    BY <2>2, VerdictSound
  <2>4. Sound(s') /\ Carries(verdict.state, s') BY <2>1, <2>3, LoggedSound
  <2>5. s'.cosmetic_last_turn <= turn'
    BY <1>0, <2>2, <2>3, <2>4 DEF IInv, Carries
  <2>6. CreditIsDelivery'
    BY <2>2, <2>3, <2>4 DEF IInv, Carries, CreditIsDelivery
  <2> QED BY <2>4, <2>5, <2>6
<1>17. CASE CurioAttempt
  <2>1. turn' = turn /\ delivered' = delivered
    BY <1>17 DEF CurioAttempt, AfterCurio
  <2>2. CASE s' \in Logged(s, 2) BY <1>0, <2>1, <2>2, LoggedSound, QuietStep
  <2>3. CASE /\ SpendNonEffect(s, sanity, "curio").result = "ok"
             /\ \E warned \in Logged(s, 2) :
                  s' = CommitCharge(warned, SpendNonEffect(s, sanity, "curio").state)
    <3>1. "curio" \in Spenders BY DEF Spenders
    <3>2. Sound(s') /\ Carries(s, s') BY <1>0, <2>3, <3>1, CommitSound
    <3> QED BY <2>1, <3>2, QuietStep
  <2> QED BY <1>17, <2>2, <2>3 DEF CurioAttempt
<1>18. CASE HauntAdmitted
  <2>1. turn' = turn /\ delivered' = delivered
    BY <1>18 DEF HauntAdmitted, AfterHaunt
  <2>2. PICK after \in Logged(s, 3) :
          /\ SpendNonEffect(s, sanity, "haunt").result = "ok"
          /\ \/ s' = CommitCharge(after, SpendNonEffect(s, sanity, "haunt").state)
             \/ s' = after
    BY <1>18 DEF HauntAdmitted
  <2>3. CASE s' = after BY <1>0, <2>1, <2>3, LoggedSound, QuietStep
  <2>4. CASE s' = CommitCharge(after, SpendNonEffect(s, sanity, "haunt").state)
    <3>1. "haunt" \in Spenders BY DEF Spenders
    <3>2. Sound(s') /\ Carries(s, s') BY <1>0, <2>2, <2>4, <3>1, CommitSound
    <3> QED BY <2>1, <3>2, QuietStep
  <2> QED BY <2>2, <2>3, <2>4
<1>19. CASE CurioUsed
  <2> DEFINE paid == PacingCredit(s, "curio")
  <2>1. s' \in Logged(paid, 1) /\ turn' = turn /\ delivered' = delivered \cup {"curio"}
    BY <1>19 DEF CurioUsed
  <2>2. "curio" \in Sources BY DEF Sources
  <2>3. /\ Sound(paid) /\ paid.pacing = s.pacing
        /\ paid.cosmetic_last_turn = s.cosmetic_last_turn
        /\ s.pacing = 1 => paid.credited = s.credited \cup {"curio"}
    BY <1>0, <2>2, PacingCreditSound
  <2> HIDE DEF paid
  <2>4. Sound(s') /\ Carries(paid, s') BY <2>1, <2>3, LoggedSound
  <2> QED BY <2>1, <2>3, <2>4 DEF IInv, Carries, CreditIsDelivery
<1>20. CASE ProgramDelivers
  <2> DEFINE paid == PacingCredit(s, "next_use")
  <2>1. s' \in Logged(paid, 1) /\ turn' = turn /\ delivered' = delivered \cup {"next_use"}
    BY <1>20 DEF ProgramDelivers
  <2>2. "next_use" \in Sources BY DEF Sources
  <2>3. /\ Sound(paid) /\ paid.pacing = s.pacing
        /\ paid.cosmetic_last_turn = s.cosmetic_last_turn
        /\ s.pacing = 1 => paid.credited = s.credited \cup {"next_use"}
    BY <1>0, <2>2, PacingCreditSound
  <2> HIDE DEF paid
  <2>4. Sound(s') /\ Carries(paid, s') BY <2>1, <2>3, LoggedSound
  <2> QED BY <2>1, <2>3, <2>4 DEF IInv, Carries, CreditIsDelivery
<1>21. CASE HoundStep
  <2> DEFINE paid == PacingCredit(s, "haunt")
  <2>1. s' \in Logged(paid, 1) /\ turn' = turn /\ delivered' = delivered \cup {"haunt"}
    BY <1>21 DEF HoundStep
  <2>2. "haunt" \in Sources BY DEF Sources
  <2>3. /\ Sound(paid) /\ paid.pacing = s.pacing
        /\ paid.cosmetic_last_turn = s.cosmetic_last_turn
        /\ s.pacing = 1 => paid.credited = s.credited \cup {"haunt"}
    BY <1>0, <2>2, PacingCreditSound
  <2> HIDE DEF paid
  <2>4. Sound(s') /\ Carries(paid, s') BY <2>1, <2>3, LoggedSound
  <2> QED BY <2>1, <2>3, <2>4 DEF IInv, Carries, CreditIsDelivery
<1>22. CASE NextUseRejected
  <2>1. turn' = turn /\ delivered' = delivered
    BY <1>22 DEF NextUseRejected, AfterNextUse
  <2>2. PICK id \in 0..MaxId : s' = Settle(s, id) BY <1>22 DEF NextUseRejected
  <2>3. s.next_use_count < ProgramCap BY <1>22 DEF NextUseRejected, NextUseOpen
  <2> QED BY <1>0, <2>1, <2>2, <2>3, SettleSound, QuietStep
<1>23. CASE NextUseAdmitted
  <2>1. turn' = turn /\ delivered' = delivered
    BY <1>23 DEF NextUseAdmitted, AfterNextUse
  <2>2. PICK id \in 1..MaxId, cost \in 1..2 :
          /\ cost <= Budget(Settle(s, id), sanity)
          /\ \/ s' = [Charge(Settle(s, id), cost) EXCEPT !.next_use_terminal = 0,
                                                         !.next_use_terminal_seq = 0]
             \/ s' = Charge(Settle(s, id), cost)
    BY <1>23 DEF NextUseAdmitted
  <2> DEFINE settled == Settle(s, id)
             paid == Charge(settled, cost)
  <2>3. s.next_use_count < ProgramCap BY <1>23 DEF NextUseAdmitted, NextUseOpen
  <2>4. Sound(settled) /\ Carries(s, settled) /\ settled.next_use_count > 0
    BY <1>0, <2>3, SettleSound
  <2> HIDE DEF settled
  <2>5. Sound(paid) /\ Carries(settled, paid)
    BY <1>0, <2>2, <2>4, ChargeSound DEF settled
  <2>6. paid.next_use_count > 0 /\ paid.seq \in Nat
    BY <2>4, <2>5 DEF Charge, Sound, State
  <2> HIDE DEF paid
  <2>7. CASE s' = paid BY <2>1, <2>4, <2>5, <2>7, QuietStep DEF Carries
  <2>8. CASE s' = [paid EXCEPT !.next_use_terminal = 0, !.next_use_terminal_seq = 0]
    <3>0. s' = Boundary(paid, 0, 0) BY <2>8 DEF Boundary
    <3>1. Sound(s') /\ Carries(paid, s') BY <2>5, <2>6, <3>0, TerminalSound
    <3> QED BY <2>1, <2>4, <2>5, <3>1, QuietStep DEF Carries
  <2> QED BY <2>2, <2>7, <2>8 DEF paid, settled
<1>24. CASE ProgramEnds
  <2>1. /\ s.next_use_count > 0 /\ turn' = turn /\ delivered' = delivered
        /\ s' = [s EXCEPT !.next_use_terminal = 1, !.next_use_terminal_seq = s.seq]
    BY <1>24 DEF ProgramEnds, ProgramRuns
  <2>2. s' = Boundary(s, 1, s.seq) BY <2>1 DEF Boundary
  <2>3. Sound(s') /\ Carries(s, s') BY <1>0, <2>1, <2>2, TerminalSound
  <2> QED BY <2>1, <2>3, QuietStep
<1> QED BY <1>1, <1>2, <1>3, <1>4, <1>5, <1>6, <1>7, <1>8, <1>9, <1>10, <1>11, <1>12,
           <1>13, <1>14, <1>15, <1>16, <1>17, <1>18, <1>19, <1>20, <1>21,
           <1>22, <1>23, <1>24 DEF Next

-----------------------------------------------------------------------------
(* The inductive invariant holds: its three facts, and the temporal step. *)
THEOREM InductiveInvariant == Spec => []IInv
<1>1. Init => IInv BY InitIInv
<1>2. IInv /\ [Next]_vars => IInv'
  <2> SUFFICES ASSUME IInv, [Next]_vars PROVE IInv' OBVIOUS
  <2>1. CASE Next
    <3>1. AccountOK' BY <2>1, AccountStep
    <3>2. s \in State /\ s' \in State BY <3>1 DEF AccountOK, Sound, IInv
    <3>3. RestOK' BY <2>1, <3>2, RestStep DEF IInv, TypeOK, RestOK
    <3> QED BY <3>1, <3>2, <3>3 DEF IInv, TypeOK, RestOK, AccountOK
  <2>2. CASE UNCHANGED vars
    <3>1. s' = s /\ turn' = turn /\ delivered' = delivered BY <2>2 DEF vars
    <3>2. Sound(s') /\ s'.cosmetic_last_turn <= turn' BY <3>1 DEF IInv
    <3>3. CreditIsDelivery' BY <3>1 DEF IInv, CreditIsDelivery
    <3>4. TypeOK' BY <2>2 DEF vars, IInv, TypeOK
    <3> QED BY <3>2, <3>3, <3>4 DEF IInv
  <2> QED BY <2>1, <2>2
<1> QED BY <1>1, <1>2, PTL DEF Spec

(* The account and the engine state around it are always of their types. *)
THEOREM TypeCorrect == Spec => []TypeOK
<1>1. IInv => TypeOK BY DEF IInv
<1> QED BY <1>1, InductiveInvariant, PTL

(* chaos_state_valid and the restore clock check accept every state a game can *)
(* be saved in, whatever the policy numbers, bounds and request menu.          *)
THEOREM SaveAccepted == Spec => []SaveIsAccepted
<1>1. IInv => SaveIsAccepted BY DEF IInv, Sound, SaveIsAccepted
<1> QED BY <1>1, InductiveInvariant, PTL

(* No interleaving of the four spenders passes the per-level cap. *)
THEOREM AllowanceKept == Spec => []LevelAllowance
<1>1. IInv => LevelAllowance BY DEF IInv, Sound, LevelAllowance
<1> QED BY <1>1, InductiveInvariant, PTL

(* Pacing credit is exactly what has been delivered. *)
THEOREM CreditEarned == Spec => []CreditIsDelivery
<1>1. IInv => CreditIsDelivery BY DEF IInv
<1> QED BY <1>1, InductiveInvariant, PTL

-----------------------------------------------------------------------------
(* What a change of the record may do to the points, to a running effect, to a  *)
(* new one and to the ids: the action properties, as relations of a record and  *)
(* the next.                                                                    *)

Paid(st, u, v) == /\ u.spent >= st.spent
                  /\ u.spent > st.spent => u.spent <= Capacity(u, v)

Runs(st, u, now) ==
    \A k \in PersistentKinds :
      Active(st.effects[k]) /\ u.effects[k] # st.effects[k] => now >= st.effects[k].expires

Asked(k, expires, now) == \E q \in Requests : q.kind = k /\ expires = now + q.duration

Grants(st, u, now) ==
    \A k \in PersistentKinds :
      Active(u.effects[k]) /\ u.effects[k] # st.effects[k]
        => Asked(k, u.effects[k].expires, now)

Fresh(st, u) ==
    /\ u.last_id >= st.last_id
    /\ (\E k \in PersistentKinds : Active(u.effects[k]) /\ u.effects[k] # st.effects[k])
         => u.last_id > st.last_id

SameTale(st, u) == /\ u.cosmetic_seen = st.cosmetic_seen
                   /\ u.cosmetic_last_turn = st.cosmetic_last_turn

Honest(st, u, now, v) ==
    Paid(st, u, v) /\ Runs(st, u, now) /\ Grants(st, u, now) /\ Fresh(st, u)

(* what capacity is computed from *)
SameCapacity(st, u) ==
    u.pacing = st.pacing /\ u.deepest = st.deepest /\ u.credited = st.credited

(* none of them is touched *)
Kept(st, u) ==
    u.spent = st.spent /\ u.effects = st.effects /\ u.last_id = st.last_id /\ SameTale(st, u)

LEMMA KeptHonest ==
  ASSUME NEW st \in State, NEW u \in State, Kept(st, u), NEW now, NEW v
  PROVE  Honest(st, u, now, v)
<1>1. st.spent \in Nat /\ st.last_id \in Nat BY DEF State
<1>2. Paid(st, u, v) BY <1>1 DEF Kept, Paid
<1>3. Runs(st, u, now) BY DEF Kept, Runs
<1>4. Fresh(st, u) BY <1>1 DEF Kept, Fresh
<1>5. Grants(st, u, now) BY DEF Kept, Grants
<1> QED BY <1>2, <1>3, <1>4, <1>5 DEF Honest

(* One change after another, the first of which spends nothing *)
LEMMA HonestTwice ==
  ASSUME NEW st \in State, NEW w \in State, NEW u \in State, NEW now, NEW v,
         Honest(st, w, now, v), w.spent = st.spent, Honest(w, u, now, v)
  PROVE  Honest(st, u, now, v)
<1>1. st.last_id \in Nat /\ w.last_id \in Nat /\ u.last_id \in Nat BY DEF State
<1>2. Paid(st, u, v) BY DEF Honest, Paid
<1>3. Runs(st, u, now) BY DEF Honest, Runs
<1>4. Fresh(st, u)
  <2>1. u.last_id >= st.last_id BY <1>1 DEF Honest, Fresh
  <2>2. ASSUME NEW k \in PersistentKinds, Active(u.effects[k]), u.effects[k] # st.effects[k]
        PROVE  u.last_id > st.last_id
    <3>1. CASE u.effects[k] = w.effects[k] BY <1>1, <2>2, <3>1 DEF Honest, Fresh
    <3>2. CASE u.effects[k] # w.effects[k] BY <1>1, <2>2, <3>2 DEF Honest, Fresh
    <3> QED BY <3>1, <3>2
  <2> QED BY <2>1, <2>2 DEF Fresh
<1>5. Grants(st, u, now)
  <2> SUFFICES ASSUME NEW k \in PersistentKinds, Active(u.effects[k]),
                      u.effects[k] # st.effects[k]
               PROVE  Asked(k, u.effects[k].expires, now)
    BY DEF Grants
  <2>1. CASE u.effects[k] = w.effects[k] BY <2>1 DEF Honest, Grants
  <2>2. CASE u.effects[k] # w.effects[k] BY <2>2 DEF Honest, Grants
  <2> QED BY <2>1, <2>2
<1> QED BY <1>2, <1>3, <1>4, <1>5 DEF Honest

(* a debit, and then what leaves the record as it is *)
LEMMA HonestThenKept ==
  ASSUME NEW st \in State, NEW w \in State, NEW u \in State, NEW now, NEW v,
         Honest(st, w, now, v), Kept(w, u), SameCapacity(w, u)
  PROVE  Honest(st, u, now, v)
<1>1. Capacity(u, v) = Capacity(w, v)
  BY DEF Capacity, PacingExtra, SameCapacity
<1>2. Paid(st, u, v) BY <1>1 DEF Honest, Paid, Kept
<1>3. Runs(st, u, now) BY DEF Honest, Runs, Kept
<1>4. Fresh(st, u) BY DEF Honest, Fresh, Kept
<1>5. Grants(st, u, now) BY DEF Honest, Grants, Kept
<1> QED BY <1>2, <1>3, <1>4, <1>5 DEF Honest

-----------------------------------------------------------------------------
(* What the operators of the account do to them *)

LEMMA LoggedKept ==
  ASSUME NEW st \in State, NEW n, NEW u \in Logged(st, n)
  PROVE  Kept(st, u) /\ SameCapacity(st, u)
<1>1. PICK m \in {0, n} : u = [st EXCEPT !.seq = Min2(st.seq + m, MaxCounter)]
  BY DEF Logged
<1> DEFINE q == Min2(st.seq + m, MaxCounter)
<1>2. u = [st EXCEPT !.seq = q] BY <1>1
<1> HIDE DEF q
<1> QED BY <1>2 DEF State, Kept, SameTale, SameCapacity

LEMMA PacingLevelKept ==
  ASSUME NEW st \in State, NEW depth
  PROVE  Kept(st, PacingLevel(st, depth))
BY DEF PacingLevel, State, Kept, SameTale

LEMMA PacingCreditKept ==
  ASSUME NEW st \in State, NEW source
  PROVE  Kept(st, PacingCredit(st, source))
BY DEF PacingCredit, State, Kept, SameTale

LEMMA SettleKept ==
  ASSUME NEW st \in State, NEW id
  PROVE  Kept(st, Settle(st, id))
BY DEF Settle, State, Kept, SameTale

LEMMA BoundaryKept ==
  ASSUME NEW st \in State, NEW b, NEW q
  PROVE  Kept(st, Boundary(st, b, q)) /\ SameCapacity(st, Boundary(st, b, q))
BY DEF Boundary, State, Kept, SameTale, SameCapacity

(* chaos_charge under chaos_budget stays within the capacity *)
LEMMA ChargeHonest ==
  ASSUME NEW st, Sound(st), NEW v \in Nat, NEW cost \in Nat, cost <= Budget(st, v),
         NEW now
  PROVE  /\ Honest(st, Charge(st, cost), now, v) /\ SameTale(st, Charge(st, cost))
         /\ SameCapacity(st, Charge(st, cost))
         /\ Charge(st, cost).effects = st.effects /\ Charge(st, cost).last_id = st.last_id
<1> DEFINE u == Charge(st, cost)
<1>1. st \in State /\ st.spent \in Nat /\ st.last_id \in Nat /\ st.level_spent \in Nat
  BY DEF Sound, State
<1>2. /\ u.spent = st.spent + cost /\ u.effects = st.effects /\ u.last_id = st.last_id
      /\ SameTale(st, u) /\ SameCapacity(st, u)
  BY <1>1 DEF Charge, State, SameTale, SameCapacity
<1> HIDE DEF u
<1>3. Capacity(u, v) = Capacity(st, v)
  BY <1>2 DEF Capacity, PacingExtra, SameCapacity
<1>4. Capacity(st, v) \in Int
  <2>1. SanityCapacity(v) \in Nat BY SanityCapacityBound
  <2>2. st.pacing = 1 => PacingExtra(st) \in Int
    <3>1. Cardinality(st.credited) \in Nat
      <4>1. IsFiniteSet({"haunt"}) BY FS_Singleton
      <4>2. IsFiniteSet({"haunt"} \cup {"curio"}) BY <4>1, FS_AddElement
      <4>3. IsFiniteSet(({"haunt"} \cup {"curio"}) \cup {"next_use"}) BY <4>2, FS_AddElement
      <4>4. st.credited \subseteq ({"haunt"} \cup {"curio"}) \cup {"next_use"}
        BY <1>1 DEF State, Sources
      <4> QED BY <4>3, <4>4, FS_Subset, FS_CardinalityType
    <3>2. st.deepest \in Nat BY <1>1 DEF State
    <3> QED BY <3>1, <3>2, PolicyAssumption DEF PacingExtra, Min2, Max2
  <2>3. st.pacing \in {0, 1} BY <1>1 DEF State
  <2> QED BY <2>1, <2>2, <2>3, PolicyAssumption DEF Capacity, Min2
<1>5. cost > 0 => st.spent + cost <= Capacity(st, v)
  BY <1>1, <1>4, PolicyAssumption DEF Budget, Max2, Min2
<1>6. Paid(st, u, v) BY <1>1, <1>2, <1>3, <1>5 DEF Paid
<1>7. Runs(st, u, now) BY <1>2 DEF Runs
<1>8. Fresh(st, u) BY <1>1, <1>2 DEF Fresh
<1>9. Grants(st, u, now) BY <1>2 DEF Grants
<1> QED BY <1>2, <1>6, <1>7, <1>8, <1>9 DEF Honest, u

(* chaos_expire ends only what is due *)
LEMMA ExpireHonest ==
  ASSUME NEW st \in State, NEW now, NEW v
  PROVE  LET u == Expire(st, now)
         IN  /\ Honest(st, u, now, v) /\ SameTale(st, u) /\ SameCapacity(st, u)
             /\ u.spent = st.spent /\ u.last_id = st.last_id
<1> DEFINE u == Expire(st, now)
           effs == [k \in PersistentKinds |->
                      IF Expired(st.effects[k], now) THEN NoEffect ELSE st.effects[k]]
<1>1. st.spent \in Nat /\ st.last_id \in Nat BY DEF State
<1>2. /\ u.spent = st.spent /\ u.last_id = st.last_id /\ u.effects = effs
      /\ SameTale(st, u) /\ SameCapacity(st, u)
  BY DEF Expire, State, SameTale, SameCapacity
<1> HIDE DEF u
<1>3. Paid(st, u, v) BY <1>1, <1>2 DEF Paid
<1>4. Runs(st, u, now) BY <1>2 DEF Runs, Expired
<1>5. \A k \in PersistentKinds : ~(Active(u.effects[k]) /\ u.effects[k] # st.effects[k])
  BY <1>2 DEF Active, NoEffect
<1>6. Fresh(st, u) /\ Grants(st, u, now) BY <1>1, <1>2, <1>5 DEF Fresh, Grants
<1> QED BY <1>2, <1>3, <1>4, <1>6 DEF Honest, u

(* a staged debit published over a record that logged events meanwhile *)
LEMMA CommitHonest ==
  ASSUME NEW st, Sound(st), NEW v \in Nat, NEW spender \in Spenders,
         SpendNonEffect(st, v, spender).result = "ok",
         NEW n \in Nat, NEW dst \in Logged(st, n), NEW now
  PROVE  LET u == CommitCharge(dst, SpendNonEffect(st, v, spender).state)
         IN  Honest(st, u, now, v) /\ SameTale(st, u)
<1> DEFINE cost == SpendCost[spender]
           src == Charge(st, cost)
           u == CommitCharge(dst, src)
<1>1. cost \in Nat BY DEF SpendCost, Spenders
<1>2. SpendNonEffect(st, v, spender).state = src /\ ~(cost > Budget(st, v))
  BY DEF SpendNonEffect
<1>3. st \in State BY DEF Sound
<1>4. cost <= Budget(st, v) BY <1>1, <1>2, <1>3, BudgetBound
<1>5. /\ Honest(st, src, now, v) /\ SameTale(st, src) /\ SameCapacity(st, src)
      /\ src.effects = st.effects /\ src.last_id = st.last_id
  BY <1>1, <1>4, ChargeHonest
<1>6. Sound(src) BY <1>1, <1>4, ChargeSound
<1>7. Sound(u) BY <1>2, CommitSound
<1>8. Kept(st, dst) /\ SameCapacity(st, dst) BY <1>3, LoggedKept
<1>9. dst \in State BY LoggedSound DEF Sound
<1> HIDE DEF src
<1>10. Kept(src, u) /\ SameCapacity(src, u)
  <2>1. /\ u.spent = src.spent /\ u.effects = dst.effects /\ u.last_id = dst.last_id
        /\ SameTale(dst, u) /\ SameCapacity(dst, u)
    BY <1>9 DEF CommitCharge, State, SameTale, SameCapacity
  <2> QED BY <1>5, <1>8, <2>1 DEF Kept, SameTale, SameCapacity
<1>11. Honest(st, u, now, v) BY <1>3, <1>5, <1>6, <1>7, <1>10, HonestThenKept DEF Sound
<1> QED BY <1>2, <1>5, <1>10, <1>11 DEF Kept, SameTale

(* What chaos_admit tells: nothing, or one message that was not shown before, *)
(* not too soon after the last.                                               *)
Tells(st, r, now, u) ==
    \/ SameTale(st, u)
    \/ /\ r.value \in Messages \ st.cosmetic_seen
       /\ u.cosmetic_seen = st.cosmetic_seen \cup {r.value}
       /\ u.cosmetic_last_turn = now
       /\ st.cosmetic_seen # {} => now >= st.cosmetic_last_turn + CosmeticSpacing

LEMMA AdmitAmbientHonest ==
  ASSUME NEW st \in State, NEW r, r.value \in Messages, NEW now \in Nat, NEW v
  PROVE  LET u == AdmitAmbient(st, r, now).state
         IN  /\ u.spent = st.spent /\ u.effects = st.effects /\ u.last_id = st.last_id
             /\ SameCapacity(st, u) /\ Tells(st, r, now, u)
<1> DEFINE verdict == AdmitAmbient(st, r, now)
           u == [st EXCEPT !.cosmetic_seen = st.cosmetic_seen \cup {r.value},
                           !.cosmetic_last_turn = now]
<1>1. \/ verdict.state = st
      \/ /\ verdict.state = u /\ r.value \notin st.cosmetic_seen
         /\ ~(st.cosmetic_seen # {} /\ now < st.cosmetic_last_turn + CosmeticSpacing)
  BY DEF AdmitAmbient, State
<1>2. CASE verdict.state = st BY <1>2 DEF Tells, SameTale, SameCapacity
<1>3. CASE /\ verdict.state = u /\ r.value \notin st.cosmetic_seen
           /\ ~(st.cosmetic_seen # {} /\ now < st.cosmetic_last_turn + CosmeticSpacing)
  <2>1. st.cosmetic_last_turn \in Nat BY DEF State
  <2>2. /\ u.spent = st.spent /\ u.effects = st.effects /\ u.last_id = st.last_id
        /\ SameCapacity(st, u) /\ u.cosmetic_seen = st.cosmetic_seen \cup {r.value}
        /\ u.cosmetic_last_turn = now
    BY DEF State, SameCapacity
  <2>3. st.cosmetic_seen # {} => now >= st.cosmetic_last_turn + CosmeticSpacing
    BY <1>3, <2>1, PolicyAssumption
  <2> HIDE DEF u
  <2> QED BY <1>3, <2>2, <2>3 DEF Tells
<1> QED BY <1>1, <1>2, <1>3

LEMMA AdmitEffectHonest ==
  ASSUME NEW st, Sound(st), NEW r, r.kind \in PersistentKinds, NEW now, NEW v \in Nat,
         Asked(r.kind, now + r.duration, now)
  PROVE  LET u == AdmitEffect(st, r, now, v).state
         IN  /\ Paid(st, u, v) /\ Runs(st, u, now) /\ Grants(st, u, now)
             /\ u.last_id = st.last_id /\ SameTale(st, u)
<1> DEFINE verdict == AdmitEffect(st, r, now, v)
           cost == Cost[r.kind]
           paid == Charge(st, cost)
           effect == [value |-> r.value, cost |-> cost, expires |-> now + r.duration]
           effs == [paid.effects EXCEPT ![r.kind] = effect]
           u == [paid EXCEPT !.reserved = paid.reserved + cost, !.effects = effs]
<1>1. st \in State /\ cost \in Nat BY CostIsNat DEF Sound, Kinds
<1>2. \/ verdict.state = st
      \/ /\ ~Active(st.effects[r.kind]) /\ cost <= Budget(st, v)
         /\ verdict.state = u
  BY <1>1, BudgetBound DEF AdmitEffect
<1>3. CASE verdict.state = st
  BY <1>1, <1>3, KeptHonest DEF Kept, SameTale, Honest
<1>4. CASE /\ ~Active(st.effects[r.kind]) /\ cost <= Budget(st, v)
           /\ verdict.state = u
  <2>1. /\ Honest(st, paid, now, v) /\ SameTale(st, paid) /\ SameCapacity(st, paid)
        /\ paid.effects = st.effects /\ paid.last_id = st.last_id
    BY <1>1, <1>4, ChargeHonest
  <2>2. paid \in State BY <1>1, <1>4, ChargeSound DEF Sound
  <2> HIDE DEF paid
  <2>3. /\ u.spent = paid.spent /\ u.last_id = paid.last_id /\ u.effects = effs
        /\ SameTale(paid, u) /\ SameCapacity(paid, u)
    BY <2>2 DEF State, SameTale, SameCapacity
  <2> HIDE DEF u
  <2>4. Capacity(u, v) = Capacity(paid, v)
    BY <2>3 DEF Capacity, PacingExtra, SameCapacity
  <2>5. Paid(st, u, v) BY <2>1, <2>3, <2>4 DEF Honest, Paid
  <2>6. \A k \in PersistentKinds : k # r.kind => u.effects[k] = st.effects[k]
    BY <2>1, <2>3
  <2>7. Runs(st, u, now) BY <1>4, <2>6 DEF Runs
  <2>8. paid.effects \in [PersistentKinds -> [value : Nat, cost : Nat, expires : Nat]]
    BY <2>2 DEF State
  <2>9. u.effects[r.kind].expires = now + r.duration BY <2>3, <2>8
  <2>10. Grants(st, u, now) BY <2>6, <2>9 DEF Grants
  <2> QED BY <1>4, <2>1, <2>3, <2>5, <2>7, <2>10 DEF SameTale
<1> QED BY <1>2, <1>3, <1>4

(* chaos_admit: either it refuses and leaves the record, or it consumes a fresh id *)
LEMMA AdmitHonest ==
  ASSUME NEW st, Sound(st), NEW r, NEW now \in Nat, NEW v \in Nat, NEW food \in 0..2,
         NEW verdict, verdict = Admit(st, r, now, v, food),
         Asked(r.kind, now + r.duration, now)
  PROVE  /\ Honest(st, verdict.state, now, v) /\ Tells(st, r, now, verdict.state)
         /\ verdict.result = "ok" => verdict.state.last_id > st.last_id
<1> DEFINE claimed == [st EXCEPT !.last_id = r.id]
           current == Expire(claimed, now)
<1>1. st \in State /\ st.last_id \in Nat /\ st.spent \in Nat BY DEF Sound, State
<1>2. CASE verdict.state = st /\ verdict.result # "ok"
  BY <1>1, <1>2, KeptHonest DEF Kept, SameTale, Tells
<1>3. CASE /\ RequestValid(r) /\ r.id > st.last_id
           /\ \/ verdict.state \in {claimed, current}
              \/ r.kind = "ambient" /\ verdict = AdmitAmbient(current, r, now)
              \/ r.kind # "ambient" /\ verdict = AdmitEffect(current, r, now, v)
  <2>1. r.id \in Nat BY <1>3 DEF RequestValid
  <2>2. Sound(claimed) BY <2>1, ClaimSound
  <2>3. /\ claimed.spent = st.spent /\ claimed.effects = st.effects /\ claimed.last_id = r.id
        /\ SameTale(st, claimed) /\ SameCapacity(st, claimed)
    BY <1>1 DEF State, SameTale, SameCapacity
  <2>4. Sound(current) BY <2>2, ExpireSound
  <2> HIDE DEF claimed
  <2>5. /\ Honest(claimed, current, now, v) /\ SameTale(claimed, current)
        /\ SameCapacity(claimed, current)
        /\ current.spent = claimed.spent /\ current.last_id = claimed.last_id
    BY <2>2, ExpireHonest DEF Sound
  <2> HIDE DEF current
  <2>6. Runs(st, claimed, now) BY <2>3 DEF Runs
  <2>7. /\ Runs(st, current, now)
        /\ Grants(st, claimed, now) /\ Grants(st, current, now)
    BY <2>3, <2>5, <2>6 DEF Honest, Runs, Grants
  <2>8. CASE verdict.state \in {claimed, current}
    <3>1. verdict.state.spent = st.spent /\ verdict.state.last_id = r.id
          /\ SameTale(st, verdict.state) /\ Runs(st, verdict.state, now)
      BY <2>3, <2>5, <2>6, <2>7, <2>8 DEF SameTale
    <3>2. Paid(st, verdict.state, v) BY <1>1, <3>1 DEF Paid
    <3>3. Fresh(st, verdict.state) BY <1>1, <1>3, <2>1, <3>1 DEF Fresh
    <3> QED BY <1>3, <2>7, <2>8, <3>1, <3>2, <3>3 DEF Honest, Tells
  <2>9. CASE r.kind = "ambient" /\ verdict = AdmitAmbient(current, r, now)
    <3>1. r.value \in Messages BY <1>3, <2>9 DEF RequestValid
    <3>2. /\ verdict.state.spent = current.spent /\ verdict.state.effects = current.effects
          /\ verdict.state.last_id = current.last_id /\ Tells(current, r, now, verdict.state)
      BY <2>4, <2>9, <3>1, AdmitAmbientHonest DEF Sound
    <3>3. SameTale(st, current) BY <2>3, <2>5 DEF SameTale
    <3>4. Tells(st, r, now, verdict.state) BY <3>2, <3>3 DEF Tells, SameTale
    <3>5. Paid(st, verdict.state, v) BY <1>1, <2>3, <2>5, <3>2 DEF Paid
    <3>6. Runs(st, verdict.state, now) /\ Grants(st, verdict.state, now)
      BY <2>7, <3>2 DEF Runs, Grants
    <3>7. verdict.state.last_id = r.id BY <2>3, <2>5, <3>2
    <3>8. Fresh(st, verdict.state) BY <1>1, <1>3, <2>1, <3>7 DEF Fresh
    <3> QED BY <1>3, <3>4, <3>5, <3>6, <3>7, <3>8 DEF Honest
  <2>10. CASE r.kind # "ambient" /\ verdict = AdmitEffect(current, r, now, v)
    <3>1. r.kind \in PersistentKinds BY <1>3, <2>10 DEF RequestValid, Kinds
    <3>2. /\ Paid(current, verdict.state, v) /\ Runs(current, verdict.state, now)
          /\ Grants(current, verdict.state, now)
          /\ verdict.state.last_id = current.last_id /\ SameTale(current, verdict.state)
      BY <2>4, <2>10, <3>1, AdmitEffectHonest
    <3>3. Tells(st, r, now, verdict.state) BY <2>3, <2>5, <3>2 DEF Tells, SameTale
    <3>4. Paid(st, verdict.state, v) BY <2>3, <2>5, <3>2 DEF Paid
    <3>5. Runs(st, verdict.state, now) /\ Grants(st, verdict.state, now)
      <4>1. Runs(st, verdict.state, now) BY <2>7, <3>2 DEF Runs
      <4> SUFFICES ASSUME NEW k \in PersistentKinds, Active(verdict.state.effects[k]),
                          verdict.state.effects[k] # st.effects[k]
                   PROVE  Asked(k, verdict.state.effects[k].expires, now)
        BY <4>1 DEF Grants
      <4>2. CASE verdict.state.effects[k] = current.effects[k] BY <2>7, <4>2 DEF Grants
      <4>3. CASE verdict.state.effects[k] # current.effects[k] BY <3>2, <4>3 DEF Grants
      <4> QED BY <4>2, <4>3
    <3>6. verdict.state.last_id = r.id BY <2>3, <2>5, <3>2
    <3>7. Fresh(st, verdict.state) BY <1>1, <1>3, <2>1, <3>6 DEF Fresh
    <3> QED BY <1>3, <3>3, <3>4, <3>5, <3>6, <3>7 DEF Honest
  <2> QED BY <1>3, <2>8, <2>9, <2>10
<1>4. \/ verdict.state = st /\ verdict.result # "ok"
      \/ /\ RequestValid(r) /\ r.id > st.last_id
         /\ \/ verdict.state \in {claimed, current}
            \/ r.kind = "ambient" /\ verdict = AdmitAmbient(current, r, now)
            \/ r.kind # "ambient" /\ verdict = AdmitEffect(current, r, now, v)
  <2>1. CASE ~StateValid(st) \/ ~RequestValid(r) BY <2>1 DEF Admit
  <2>2. CASE StateValid(st) /\ RequestValid(r)
    <3>1. r.id \in Nat BY <2>2 DEF RequestValid
    <3>2. r.id <= st.last_id \/ r.id > st.last_id BY <1>1, <3>1
    <3> HIDE DEF claimed
    <3>3. ~(r.id <= st.last_id /\ r.id > st.last_id) BY <1>1, <3>1
    <3> QED BY <2>2, <3>2, <3>3 DEF Admit, claimed
  <2> QED BY <2>1, <2>2
<1> QED BY <1>2, <1>3, <1>4

LEMMA OpenPointHonest ==
  ASSUME IInv, s.safe < MaxCounter
  PROVE  /\ Honest(s, OpenPoint, turn, sanity) /\ SameTale(s, OpenPoint)
         /\ OpenPoint.spent = s.spent /\ OpenPoint.last_id = s.last_id
<1> DEFINE leveled == PacingLevel(s, reached)
           current == Expire(leveled, turn)
<1>1. s \in State /\ reached \in Nat BY DEF IInv, TypeOK
<1>2. Kept(s, leveled) BY <1>1, PacingLevelKept
<1>3. leveled \in State BY <1>1, PacingLevelSound DEF IInv, Sound
<1> HIDE DEF leveled
<1>4. /\ Honest(leveled, current, turn, sanity) /\ SameTale(leveled, current)
      /\ current.spent = leveled.spent /\ current.last_id = leveled.last_id
  BY <1>3, ExpireHonest
<1>5. current \in State
  <2>1. Sound(leveled) /\ turn \in Nat
    BY <1>1, PacingLevelSound DEF IInv, TypeOK, leveled
  <2> QED BY <2>1, ExpireSound DEF Sound
<1> HIDE DEF current
<1>6. OpenPoint = [current EXCEPT !.safe = current.safe + 1]
  BY <1>5 DEF OpenPoint, leveled, current, State
<1>7. OpenPoint \in State BY OpenPointSound DEF Sound
<1>8. Kept(current, OpenPoint) /\ SameCapacity(current, OpenPoint)
  BY <1>5, <1>6 DEF Kept, SameTale, SameCapacity, State
<1>9. Honest(s, leveled, turn, sanity) BY <1>1, <1>2, <1>3, KeptHonest
<1>10. Honest(s, current, turn, sanity)
  BY <1>1, <1>2, <1>3, <1>4, <1>5, <1>9, HonestTwice DEF Kept
<1>11. Honest(s, OpenPoint, turn, sanity)
  BY <1>1, <1>5, <1>7, <1>8, <1>10, HonestThenKept
<1> QED BY <1>2, <1>4, <1>8, <1>11 DEF Kept, SameTale

LEMMA VerdictHonest ==
  ASSUME IInv, s.safe < MaxCounter, NEW verdict \in Verdicts
  PROVE  /\ Honest(s, verdict.state, turn, sanity)
         /\ verdict.result = "ok" => verdict.state.last_id > s.last_id
         /\ \/ SameTale(s, verdict.state)
            \/ \E m \in Messages \ s.cosmetic_seen :
                 /\ verdict.state.cosmetic_seen = s.cosmetic_seen \cup {m}
                 /\ verdict.state.cosmetic_last_turn = turn
                 /\ s.cosmetic_seen # {} => turn >= s.cosmetic_last_turn + CosmeticSpacing
<1>1. PICK q \in Requests, id \in 1..MaxId, at \in Max2(1, s.safe)..(s.safe + 1),
           eligible \in 0..2 :
        verdict = Admit(OpenPoint, [id |-> id, at |-> at, kind |-> q.kind,
                                    value |-> q.value, duration |-> q.duration],
                        turn, sanity, eligible)
  BY DEF Verdicts
<1> DEFINE r == [id |-> id, at |-> at, kind |-> q.kind, value |-> q.value,
                 duration |-> q.duration]
<1>2. turn \in Nat /\ sanity \in Nat /\ s \in State
  BY ExplorationAssumption DEF IInv, TypeOK
<1>3. Sound(OpenPoint) BY OpenPointSound
<1>4. /\ Honest(s, OpenPoint, turn, sanity) /\ SameTale(s, OpenPoint)
      /\ OpenPoint.spent = s.spent /\ OpenPoint.last_id = s.last_id
  BY OpenPointHonest
<1>5. verdict = Admit(OpenPoint, r, turn, sanity, eligible) BY <1>1
<1>6. verdict.state \in State BY VerdictSound DEF Sound
<1>9. Asked(r.kind, turn + r.duration, turn) BY DEF Asked
<1> HIDE DEF r
<1>7. /\ Honest(OpenPoint, verdict.state, turn, sanity)
      /\ Tells(OpenPoint, r, turn, verdict.state)
      /\ verdict.result = "ok" => verdict.state.last_id > OpenPoint.last_id
  BY <1>2, <1>3, <1>5, <1>9, AdmitHonest
<1>8. Honest(s, verdict.state, turn, sanity)
  BY <1>2, <1>3, <1>4, <1>6, <1>7, HonestTwice DEF Sound
<1> QED BY <1>4, <1>7, <1>8 DEF Tells, SameTale

-----------------------------------------------------------------------------
(* Every action is honest, and tells what the record remembers *)

Quietly == SameTale(s, s') /\ told' = told

Tale == \/ Quietly
        \/ /\ s'.last_id > s.last_id
           /\ \E m \in Messages \ s.cosmetic_seen :
                /\ told' = Append(told, [value |-> m, turn |-> turn])
                /\ s'.cosmetic_seen = s.cosmetic_seen \cup {m}
                /\ s'.cosmetic_last_turn = turn
                /\ s.cosmetic_seen # {} => turn >= s.cosmetic_last_turn + CosmeticSpacing

(* An action that changes none of it *)
LEMMA KeptStep ==
  ASSUME s \in State, s' \in State, Kept(s, s'), told' = told
  PROVE  Honest(s, s', turn, sanity) /\ Tale
BY KeptHonest DEF Kept, Tale, Quietly

LEMMA WhisperHonest ==
  ASSUME IInv, s' \in State, WhisperApplied
  PROVE  Honest(s, s', turn, sanity) /\ Tale
<1>1. PICK verdict \in Verdicts :
        /\ verdict.result = "ok" /\ s' \in Logged(verdict.state, 3)
        /\ LET shown == verdict.state.cosmetic_seen \ s.cosmetic_seen
           IN  IF shown = {} THEN told' = told
               ELSE \E v \in shown : told' = Append(told, [value |-> v, turn |-> turn])
  BY DEF WhisperApplied
<1> DEFINE st == verdict.state
<1>2. s.safe < MaxCounter BY DEF WhisperApplied, WhisperRead
<1>3. /\ Honest(s, st, turn, sanity) /\ st.last_id > s.last_id
      /\ \/ SameTale(s, st)
         \/ \E m \in Messages \ s.cosmetic_seen :
              /\ st.cosmetic_seen = s.cosmetic_seen \cup {m}
              /\ st.cosmetic_last_turn = turn
              /\ s.cosmetic_seen # {} => turn >= s.cosmetic_last_turn + CosmeticSpacing
  BY <1>1, <1>2, VerdictHonest
<1>4. st \in State /\ s \in State BY <1>2, VerdictSound DEF Sound, IInv
<1>5. Kept(st, s') /\ SameCapacity(st, s') BY <1>1, <1>4, LoggedKept
<1> HIDE DEF st
<1>6. Honest(s, s', turn, sanity) BY <1>3, <1>4, <1>5, HonestThenKept
<1>7. s'.last_id > s.last_id BY <1>3, <1>5 DEF Kept
<1>8. CASE SameTale(s, st)
  <2>1. told' = told BY <1>1, <1>8 DEF SameTale, st
  <2>2. SameTale(s, s') BY <1>5, <1>8 DEF Kept, SameTale
  <2> QED BY <1>6, <2>1, <2>2 DEF Tale, Quietly
<1>9. CASE \E m \in Messages \ s.cosmetic_seen :
             /\ st.cosmetic_seen = s.cosmetic_seen \cup {m}
             /\ st.cosmetic_last_turn = turn
             /\ s.cosmetic_seen # {} => turn >= s.cosmetic_last_turn + CosmeticSpacing
  <2>1. PICK m \in Messages \ s.cosmetic_seen :
          /\ st.cosmetic_seen = s.cosmetic_seen \cup {m}
          /\ st.cosmetic_last_turn = turn
          /\ s.cosmetic_seen # {} => turn >= s.cosmetic_last_turn + CosmeticSpacing
    BY <1>9
  <2>2. st.cosmetic_seen \ s.cosmetic_seen = {m} BY <2>1
  <2>3. told' = Append(told, [value |-> m, turn |-> turn]) BY <1>1, <2>2 DEF st
  <2>4. s'.cosmetic_seen = s.cosmetic_seen \cup {m} /\ s'.cosmetic_last_turn = turn
    BY <1>5, <2>1 DEF Kept, SameTale
  <2> QED BY <1>6, <1>7, <2>1, <2>3, <2>4 DEF Tale
<1> QED BY <1>3, <1>8, <1>9

LEMMA HonestStep ==
  ASSUME IInv, IInv', Next
  PROVE  Honest(s, s', turn, sanity) /\ Tale
<1> USE DEF world, story
<1>1. Sound(s) /\ s \in State /\ s' \in State /\ turn \in Nat /\ sanity \in Nat
  BY ExplorationAssumption DEF IInv, TypeOK
<1>2. Kept(s, s) BY DEF Kept, SameTale
<1>3. ASSUME s' = s, told' = told PROVE Honest(s, s', turn, sanity) /\ Tale
  BY <1>1, <1>2, <1>3, KeptStep
<1>4. ASSUME NEW n, s' \in Logged(s, n), told' = told
      PROVE  Honest(s, s', turn, sanity) /\ Tale
  BY <1>1, <1>4, LoggedKept, KeptStep
<1>5. CASE Tick BY <1>3, <1>5 DEF Tick
<1>6. CASE SanityChanges BY <1>3, <1>6 DEF SanityChanges
<1>7. CASE Descend BY <1>3, <1>7 DEF Descend
<1>8. CASE GameSafePoint BY <1>3, <1>8 DEF GameSafePoint
<1>9. CASE CurioWaits BY <1>3, <1>9 DEF CurioWaits, AfterCurio
<1>10. CASE CurioPlaced BY <1>3, <1>10 DEF CurioPlaced
<1>11. CASE NextUseWaits BY <1>3, <1>11 DEF NextUseWaits, AfterNextUse
<1>12. CASE HauntWaits BY <1>3, <1>12 DEF HauntWaits, AfterHaunt
<1>13. CASE CurioExpires BY <1>4, <1>13 DEF CurioExpires, AfterCurio
<1>14. CASE HauntRefused BY <1>4, <1>14 DEF HauntRefused, AfterHaunt
<1>15. CASE HoundEnds BY <1>4, <1>15 DEF HoundEnds
<1>16. CASE Observe
  <2> DEFINE n == Cardinality(ExpiredKinds(s, turn)) + (IF sanity # oldsanity THEN 1 ELSE 0)
             st == Expire(s, turn)
  <2>1. s' \in Logged(st, n) /\ told' = told BY <1>16 DEF Observe
  <2>2. st \in State BY <1>1, ExpireSound DEF Sound
  <2>3. Honest(s, st, turn, sanity) /\ SameTale(s, st) BY <1>1, ExpireHonest
  <2> HIDE DEF n, st
  <2>4. Kept(st, s') /\ SameCapacity(st, s') BY <2>1, <2>2, LoggedKept
  <2>5. Honest(s, s', turn, sanity) BY <1>1, <2>2, <2>3, <2>4, HonestThenKept
  <2> QED BY <2>1, <2>3, <2>4, <2>5 DEF Kept, SameTale, Tale, Quietly
<1>17. CASE WhisperSkipped
  BY <1>1, <1>17, PacingLevelKept, KeptStep DEF WhisperSkipped
<1>18. CASE WhisperIdle
  <2>1. s.safe < MaxCounter /\ s' \in Logged(OpenPoint, 2) /\ told' = told
    BY <1>18 DEF WhisperIdle
  <2>2. OpenPoint \in State BY <2>1, OpenPointSound DEF Sound
  <2>3. Kept(OpenPoint, s') /\ SameCapacity(OpenPoint, s') BY <2>1, <2>2, LoggedKept
  <2>4. Honest(s, OpenPoint, turn, sanity) /\ SameTale(s, OpenPoint)
    BY <2>1, OpenPointHonest
  <2>5. Honest(s, s', turn, sanity) BY <1>1, <2>2, <2>3, <2>4, HonestThenKept
  <2> QED BY <2>1, <2>3, <2>4, <2>5 DEF Kept, SameTale, Tale, Quietly
<1>19. CASE WhisperDropped
  <2>1. PICK verdict \in Verdicts :
          s' \in Logged([OpenPoint EXCEPT !.last_id = verdict.state.last_id], 3)
    BY <1>19 DEF WhisperDropped
  <2>2. s.safe < MaxCounter /\ told' = told
    BY <1>19 DEF WhisperDropped, WhisperRead
  <2> DEFINE u == [OpenPoint EXCEPT !.last_id = verdict.state.last_id]
  <2>3. Sound(OpenPoint) BY <2>2, OpenPointSound
  <2>4. verdict.state.last_id \in Nat BY <2>2, VerdictSound DEF Sound, State
  <2>5. u \in State BY <2>3, <2>4, ClaimSound DEF Sound
  <2>6. verdict.state.last_id >= s.last_id BY <2>2, VerdictHonest DEF Honest, Fresh
  <2>7. /\ Honest(s, OpenPoint, turn, sanity) /\ SameTale(s, OpenPoint)
        /\ OpenPoint.spent = s.spent /\ OpenPoint.last_id = s.last_id
    BY <2>2, OpenPointHonest
  <2>8. /\ u.spent = OpenPoint.spent /\ u.effects = OpenPoint.effects
        /\ u.last_id = verdict.state.last_id /\ SameTale(OpenPoint, u)
        /\ SameCapacity(OpenPoint, u)
    BY <2>3 DEF Sound, State, SameTale, SameCapacity
  <2> HIDE DEF u
  <2>9. Honest(OpenPoint, u, turn, sanity)
    <3>1. OpenPoint.spent \in Nat /\ OpenPoint.last_id \in Nat BY <2>3 DEF Sound, State
    <3> QED BY <2>6, <2>7, <2>8, <3>1 DEF Honest, Paid, Runs, Grants, Fresh
  <2>10. Honest(s, u, turn, sanity)
    BY <1>1, <2>3, <2>5, <2>7, <2>9, HonestTwice DEF Sound
  <2>11. Kept(u, s') /\ SameCapacity(u, s') BY <2>1, <2>5, LoggedKept DEF u
  <2>12. Honest(s, s', turn, sanity) BY <1>1, <2>5, <2>10, <2>11, HonestThenKept
  <2> QED BY <2>2, <2>7, <2>8, <2>11, <2>12 DEF Kept, SameTale, Tale, Quietly
<1>20. CASE WhisperApplied BY <1>1, <1>20, WhisperHonest
<1>21. CASE CurioAttempt
  <2>1. told' = told BY <1>21 DEF CurioAttempt, AfterCurio
  <2>2. CASE s' \in Logged(s, 2) BY <1>4, <2>1, <2>2
  <2>3. CASE /\ SpendNonEffect(s, sanity, "curio").result = "ok"
             /\ \E warned \in Logged(s, 2) :
                  s' = CommitCharge(warned, SpendNonEffect(s, sanity, "curio").state)
    <3>1. "curio" \in Spenders BY DEF Spenders
    <3>2. Honest(s, s', turn, sanity) /\ SameTale(s, s')
      BY <1>1, <2>3, <3>1, CommitHonest
    <3> QED BY <2>1, <3>2 DEF Tale, Quietly
  <2> QED BY <1>21, <2>2, <2>3 DEF CurioAttempt
<1>22. CASE HauntAdmitted
  <2>1. told' = told BY <1>22 DEF HauntAdmitted, AfterHaunt
  <2>2. PICK after \in Logged(s, 3) :
          /\ SpendNonEffect(s, sanity, "haunt").result = "ok"
          /\ \/ s' = CommitCharge(after, SpendNonEffect(s, sanity, "haunt").state)
             \/ s' = after
    BY <1>22 DEF HauntAdmitted
  <2>3. CASE s' = after BY <1>4, <2>1, <2>3
  <2>4. CASE s' = CommitCharge(after, SpendNonEffect(s, sanity, "haunt").state)
    <3>1. "haunt" \in Spenders BY DEF Spenders
    <3>2. Honest(s, s', turn, sanity) /\ SameTale(s, s')
      BY <1>1, <2>2, <2>4, <3>1, CommitHonest
    <3> QED BY <2>1, <3>2 DEF Tale, Quietly
  <2> QED BY <2>2, <2>3, <2>4
<1>23. ASSUME NEW source \in Sources, s' \in Logged(PacingCredit(s, source), 1), told' = told
       PROVE  Honest(s, s', turn, sanity) /\ Tale
  <2> DEFINE st == PacingCredit(s, source)
  <2>1. Kept(s, st) BY <1>1, PacingCreditKept
  <2>2. st \in State BY <1>1, PacingCreditSound DEF Sound
  <2>3. Kept(st, s') BY <1>23, <2>2, LoggedKept
  <2> HIDE DEF st
  <2>4. Kept(s, s') BY <2>1, <2>3 DEF Kept, SameTale
  <2> QED BY <1>1, <1>23, <2>4, KeptStep
<1>24. CASE CurioUsed BY <1>23, <1>24 DEF CurioUsed, Sources
<1>25. CASE ProgramDelivers BY <1>23, <1>25 DEF ProgramDelivers, Sources
<1>26. CASE HoundStep BY <1>23, <1>26 DEF HoundStep, Sources
<1>27. CASE NextUseRejected
  <2>1. told' = told BY <1>27 DEF NextUseRejected, AfterNextUse
  <2>2. PICK id \in 0..MaxId : s' = Settle(s, id) BY <1>27 DEF NextUseRejected
  <2> QED BY <1>1, <2>1, <2>2, SettleKept, KeptStep
<1>28. CASE NextUseAdmitted
  <2>1. told' = told BY <1>28 DEF NextUseAdmitted, AfterNextUse
  <2>2. PICK id \in 1..MaxId, cost \in 1..2 :
          /\ cost <= Budget(Settle(s, id), sanity)
          /\ \/ s' = [Charge(Settle(s, id), cost) EXCEPT !.next_use_terminal = 0,
                                                         !.next_use_terminal_seq = 0]
             \/ s' = Charge(Settle(s, id), cost)
    BY <1>28 DEF NextUseAdmitted
  <2> DEFINE settled == Settle(s, id)
             paid == Charge(settled, cost)
  <2>3. s.next_use_count < ProgramCap BY <1>28 DEF NextUseAdmitted, NextUseOpen
  <2>4. Sound(settled) BY <1>1, <2>3, SettleSound
  <2>5. Kept(s, settled) BY <1>1, SettleKept
  <2> HIDE DEF settled
  <2>6. Sound(paid) BY <1>1, <2>2, <2>4, ChargeSound DEF settled
  <2>7. Honest(settled, paid, turn, sanity) /\ SameTale(settled, paid)
    BY <1>1, <2>2, <2>4, ChargeHonest DEF settled
  <2> HIDE DEF paid
  <2>8. Honest(s, settled, turn, sanity) BY <1>1, <2>4, <2>5, KeptHonest DEF Sound
  <2>9. Honest(s, paid, turn, sanity)
    BY <1>1, <2>4, <2>5, <2>6, <2>7, <2>8, HonestTwice DEF Sound, Kept
  <2>10. CASE s' = paid
    BY <2>1, <2>5, <2>7, <2>9, <2>10 DEF Kept, SameTale, Tale, Quietly
  <2>11. CASE s' = [paid EXCEPT !.next_use_terminal = 0, !.next_use_terminal_seq = 0]
    <3>1. s' = Boundary(paid, 0, 0) BY <2>11 DEF Boundary
    <3>2. Kept(paid, s') /\ SameCapacity(paid, s') BY <2>6, <3>1, BoundaryKept DEF Sound
    <3>3. Honest(s, s', turn, sanity) BY <1>1, <2>6, <2>9, <3>2, HonestThenKept DEF Sound
    <3> QED BY <2>1, <2>5, <2>7, <3>2, <3>3 DEF Kept, SameTale, Tale, Quietly
  <2> QED BY <2>2, <2>10, <2>11 DEF paid, settled
<1>29. CASE ProgramEnds
  <2>1. told' = told /\ s' = Boundary(s, 1, s.seq) BY <1>29 DEF ProgramEnds, Boundary
  <2> QED BY <1>1, <2>1, BoundaryKept, KeptStep
<1> QED BY <1>5, <1>6, <1>7, <1>8, <1>9, <1>10, <1>11, <1>12, <1>13, <1>14, <1>15, <1>16,
           <1>17, <1>18, <1>19, <1>20, <1>21, <1>22, <1>24, <1>25, <1>26, <1>27,
           <1>28, <1>29 DEF Next

(* Every step, a stuttering one included *)
LEMMA HonestNext ==
  ASSUME IInv, IInv', [Next]_vars
  PROVE  Honest(s, s', turn, sanity) /\ Tale
<1>1. CASE Next BY <1>1, HonestStep
<1>2. CASE UNCHANGED vars
  <2>1. s' = s /\ told' = told BY <1>2 DEF vars
  <2>2. Kept(s, s') /\ s \in State /\ s' \in State BY <2>1 DEF Kept, SameTale, IInv, TypeOK
  <2> QED BY <2>1, <2>2, KeptStep
<1> QED BY <1>1, <1>2

(* Whatever order the four spenders come in, a debit fits the capacity of the hero *)
(* it is made against, and no handler of the code gives a point back.              *)
THEOREM NothingIsRefunded == Spec => NoOverdraftNoRefund
<1>1. IInv /\ IInv' /\ [Next]_vars
        => [/\ s'.spent >= s.spent
            /\ s'.spent > s.spent => s'.spent <= Capacity(s', sanity)]_vars
  BY HonestNext DEF Honest, Paid
<1> QED BY <1>1, InductiveInvariant, PTL DEF Spec, NoOverdraftNoRefund

(* The turn goes on one by one, and only where the record rests *)
LEMMA TurnStep ==
  ASSUME IInv, IInv', [Next]_vars
  PROVE  turn \in Nat /\ turn' \in {turn, turn + 1}
<1> USE DEF world
<1>1. turn \in Nat BY DEF IInv, TypeOK
<1>2. Tick \/ UNCHANGED vars => turn' \in {turn, turn + 1} BY DEF Tick, vars
<1>3. SanityChanges \/ Descend \/ GameSafePoint \/ Observe => turn' = turn
  BY DEF SanityChanges, Descend, GameSafePoint, Observe
<1>4. WhisperSkipped \/ WhisperIdle \/ WhisperDropped \/ WhisperApplied => turn' = turn
  BY DEF WhisperSkipped, WhisperIdle, WhisperDropped, WhisperApplied, Leave
<1>5. CurioExpires \/ CurioWaits \/ CurioAttempt \/ CurioPlaced \/ CurioUsed => turn' = turn
  BY DEF CurioExpires, CurioWaits, CurioAttempt, CurioPlaced, CurioUsed, AfterCurio
<1>6. NextUseWaits \/ NextUseRejected \/ NextUseAdmitted \/ ProgramDelivers \/ ProgramEnds
        => turn' = turn
  BY DEF NextUseWaits, NextUseRejected, NextUseAdmitted, ProgramDelivers, ProgramEnds,
         AfterNextUse
<1>7. HauntWaits \/ HauntRefused \/ HauntAdmitted \/ HoundStep \/ HoundEnds => turn' = turn
  BY DEF HauntWaits, HauntRefused, HauntAdmitted, HoundStep, HoundEnds, AfterHaunt
<1> QED BY <1>1, <1>2, <1>3, <1>4, <1>5, <1>6, <1>7 DEF Next

(* chaos_expire leaves nothing overdue, and chaos_admit adds nothing that is *)
LEMMA ExpireClears ==
  ASSUME NEW st \in State, NEW now \in Nat
  PROVE  NoneOverdue(Expire(st, now), now)
<1> DEFINE u == Expire(st, now)
           effs == [k \in PersistentKinds |->
                      IF Expired(st.effects[k], now) THEN NoEffect ELSE st.effects[k]]
<1>1. u.effects = effs BY DEF Expire, State
<1> HIDE DEF u
<1>2. \A k \in PersistentKinds : st.effects[k].expires \in Nat BY DEF State
<1>3. \A k \in PersistentKinds : Active(u.effects[k]) => ~Expired(st.effects[k], now)
  BY <1>1 DEF Active, NoEffect
<1>4. \A k \in PersistentKinds : Active(u.effects[k]) => u.effects[k] = st.effects[k]
  BY <1>1, <1>3
<1> QED BY <1>2, <1>3, <1>4 DEF NoneOverdue, Expired, u

LEMMA GrantsClear ==
  ASSUME NEW st, NEW u, NEW now \in Nat, NoneOverdue(st, now), Grants(st, u, now)
  PROVE  NoneOverdue(u, now)
<1> SUFFICES ASSUME NEW k \in PersistentKinds, Active(u.effects[k])
             PROVE  now < u.effects[k].expires
  BY DEF NoneOverdue
<1>1. CASE u.effects[k] = st.effects[k] BY <1>1 DEF NoneOverdue
<1>2. CASE u.effects[k] # st.effects[k]
  <2>1. PICK q \in Requests : q.kind = k /\ u.effects[k].expires = now + q.duration
    BY <1>2 DEF Grants, Asked
  <2>2. q.duration \in 1..DurationMax[k]
    BY <2>1, ExplorationAssumption DEF PersistentKinds
  <2>3. DurationMax[k] \in Nat BY DEF DurationMax, PersistentKinds
  <2> QED BY <2>1, <2>2, <2>3
<1> QED BY <1>1, <1>2

(* What chaos_io_safe counts, and what is left of the effects then *)
LEMMA OpenPointClear ==
  ASSUME IInv, s.safe < MaxCounter
  PROVE  NoneOverdue(OpenPoint, turn)
<1> DEFINE leveled == PacingLevel(s, reached)
           current == Expire(leveled, turn)
<1>1. s \in State /\ reached \in Nat /\ turn \in Nat BY DEF IInv, TypeOK
<1>2. Sound(leveled) BY <1>1, PacingLevelSound DEF IInv
<1>3. NoneOverdue(current, turn) BY <1>1, <1>2, ExpireClears DEF Sound
<1>4. current \in State BY <1>1, <1>2, ExpireSound DEF Sound
<1> HIDE DEF current
<1>5. OpenPoint.effects = current.effects BY <1>4 DEF OpenPoint, leveled, current, State
<1> QED BY <1>3, <1>5 DEF NoneOverdue

LEMMA VerdictClear ==
  ASSUME IInv, s.safe < MaxCounter, NEW verdict \in Verdicts
  PROVE  NoneOverdue(verdict.state, turn)
<1>1. PICK q \in Requests, id \in 1..MaxId, at \in Max2(1, s.safe)..(s.safe + 1),
           eligible \in 0..2 :
        verdict = Admit(OpenPoint, [id |-> id, at |-> at, kind |-> q.kind,
                                    value |-> q.value, duration |-> q.duration],
                        turn, sanity, eligible)
  BY DEF Verdicts
<1> DEFINE r == [id |-> id, at |-> at, kind |-> q.kind, value |-> q.value,
                 duration |-> q.duration]
<1>2. turn \in Nat /\ sanity \in Nat BY ExplorationAssumption DEF IInv, TypeOK
<1>3. Sound(OpenPoint) BY OpenPointSound
<1>4. Asked(r.kind, turn + r.duration, turn) BY DEF Asked
<1>5. verdict = Admit(OpenPoint, r, turn, sanity, eligible) BY <1>1
<1> HIDE DEF r
<1>6. Honest(OpenPoint, verdict.state, turn, sanity)
  BY <1>2, <1>3, <1>4, <1>5, AdmitHonest
<1> QED BY <1>2, <1>6, OpenPointClear, GrantsClear DEF Honest

LEMMA LoggedSafe ==
  ASSUME NEW st \in State, NEW n, NEW u \in Logged(st, n)
  PROVE  u.safe = st.safe /\ u.effects = st.effects
<1>1. PICK m \in {0, n} : u = [st EXCEPT !.seq = Min2(st.seq + m, MaxCounter)]
  BY DEF Logged
<1> DEFINE q == Min2(st.seq + m, MaxCounter)
<1>2. u = [st EXCEPT !.seq = q] BY <1>1
<1> HIDE DEF q
<1> QED BY <1>2 DEF State

LEMMA CommitSafe ==
  ASSUME NEW st \in State, NEW n, NEW dst \in Logged(st, n), NEW src
  PROVE  CommitCharge(dst, src).safe = st.safe
<1>1. PICK m \in {0, n} : dst = [st EXCEPT !.seq = Min2(st.seq + m, MaxCounter)]
  BY DEF Logged
<1> DEFINE q == Min2(st.seq + m, MaxCounter)
<1>2. dst = [st EXCEPT !.seq = q] BY <1>1
<1> HIDE DEF q
<1> QED BY <1>2 DEF CommitCharge, State

(* No other handler counts a safe point. *)
Counting == WhisperIdle \/ WhisperDropped \/ WhisperApplied

LEMMA SafeStep ==
  ASSUME IInv, Next, ~Counting, ~Observe
  PROVE  s'.safe = s.safe
<1>1. s \in State BY DEF IInv, TypeOK
<1>2. s' = s => s'.safe = s.safe OBVIOUS
<1>3. ASSUME NEW n, s' \in Logged(s, n) PROVE s'.safe = s.safe BY <1>1, <1>3, LoggedSafe
<1>4. Tick \/ SanityChanges \/ Descend \/ GameSafePoint \/ CurioWaits \/ CurioPlaced
        \/ NextUseWaits \/ HauntWaits => s' = s
  BY DEF Tick, SanityChanges, Descend, GameSafePoint, CurioWaits, CurioPlaced,
         NextUseWaits, HauntWaits
<1>5. CurioExpires \/ HauntRefused \/ HoundEnds => s' \in Logged(s, 1)
  BY DEF CurioExpires, HauntRefused, HoundEnds
<1>6. CASE WhisperSkipped BY <1>1, <1>6 DEF WhisperSkipped, PacingLevel, State
<1>7. CASE CurioAttempt
  <2>1. CASE s' \in Logged(s, 2) BY <1>3, <2>1
  <2>2. CASE \E warned \in Logged(s, 2) :
               s' = CommitCharge(warned, SpendNonEffect(s, sanity, "curio").state)
    BY <1>1, <2>2, CommitSafe
  <2> QED BY <1>7, <2>1, <2>2 DEF CurioAttempt
<1>8. CASE HauntAdmitted
  <2>1. PICK after \in Logged(s, 3) :
          \/ s' = CommitCharge(after, SpendNonEffect(s, sanity, "haunt").state)
          \/ s' = after
    BY <1>8 DEF HauntAdmitted
  <2> QED BY <1>1, <2>1, CommitSafe, LoggedSafe
<1>9. ASSUME NEW source \in Sources, s' \in Logged(PacingCredit(s, source), 1)
      PROVE  s'.safe = s.safe
  <2> DEFINE st == PacingCredit(s, source)
  <2>1. st \in State /\ st.safe = s.safe
    BY <1>1 DEF PacingCredit, State, Sources
  <2> HIDE DEF st
  <2> QED BY <1>9, <2>1, LoggedSafe DEF st
<1>10. CASE CurioUsed BY <1>9, <1>10 DEF CurioUsed, Sources
<1>11. CASE ProgramDelivers BY <1>9, <1>11 DEF ProgramDelivers, Sources
<1>12. CASE HoundStep BY <1>9, <1>12 DEF HoundStep, Sources
<1>13. CASE NextUseRejected BY <1>1, <1>13 DEF NextUseRejected, Settle, State
<1>14. CASE NextUseAdmitted
  <2>1. PICK id \in 1..MaxId, cost \in 1..2 :
          \/ s' = [Charge(Settle(s, id), cost) EXCEPT !.next_use_terminal = 0,
                                                      !.next_use_terminal_seq = 0]
          \/ s' = Charge(Settle(s, id), cost)
    BY <1>14 DEF NextUseAdmitted
  <2> QED BY <1>1, <2>1 DEF Settle, Charge, State
<1>15. CASE ProgramEnds BY <1>1, <1>15 DEF ProgramEnds, State
<1> QED BY <1>2, <1>3, <1>4, <1>5, <1>6, <1>7, <1>8, <1>10, <1>11, <1>12, <1>13, <1>14,
           <1>15 DEF Next, Counting

LEMMA ClearStep ==
  ASSUME IInv, Next, Observe \/ s'.safe # s.safe
  PROVE  NoneOverdue(s', turn)
<1>1. s \in State /\ Sound(s) /\ turn \in Nat BY DEF IInv, TypeOK
<1>2. ASSUME NEW st \in State, NoneOverdue(st, turn), NEW n, s' \in Logged(st, n)
      PROVE  NoneOverdue(s', turn)
  BY <1>2, LoggedSafe DEF NoneOverdue
<1>3. CASE Observe
  <2> DEFINE st == Expire(s, turn)
  <2>1. st \in State /\ NoneOverdue(st, turn) BY <1>1, ExpireSound, ExpireClears DEF Sound
  <2>2. \E n : s' \in Logged(st, n) BY <1>3 DEF Observe
  <2> HIDE DEF st
  <2> QED BY <1>2, <2>1, <2>2
<1>4. CASE WhisperIdle
  <2>1. s.safe < MaxCounter /\ s' \in Logged(OpenPoint, 2) BY <1>4 DEF WhisperIdle
  <2>2. OpenPoint \in State BY <2>1, OpenPointSound DEF Sound
  <2> QED BY <1>2, <2>1, <2>2, OpenPointClear
<1>5. CASE WhisperDropped
  <2>1. PICK verdict \in Verdicts :
          s' \in Logged([OpenPoint EXCEPT !.last_id = verdict.state.last_id], 3)
    BY <1>5 DEF WhisperDropped
  <2>2. s.safe < MaxCounter BY <1>5 DEF WhisperDropped, WhisperRead
  <2> DEFINE u == [OpenPoint EXCEPT !.last_id = verdict.state.last_id]
  <2>3. Sound(OpenPoint) BY <2>2, OpenPointSound
  <2>4. verdict.state.last_id \in Nat BY <2>2, VerdictSound DEF Sound, State
  <2>5. u \in State BY <2>3, <2>4, ClaimSound DEF Sound
  <2>6. u.effects = OpenPoint.effects BY <2>3 DEF Sound, State
  <2>7. NoneOverdue(u, turn) BY <2>2, <2>6, OpenPointClear DEF NoneOverdue
  <2> QED BY <1>2, <2>1, <2>5, <2>7
<1>6. CASE WhisperApplied
  <2>1. PICK verdict \in Verdicts : s' \in Logged(verdict.state, 3)
    BY <1>6 DEF WhisperApplied
  <2>2. s.safe < MaxCounter BY <1>6 DEF WhisperApplied, WhisperRead
  <2>3. verdict.state \in State BY <2>2, VerdictSound DEF Sound
  <2> QED BY <1>2, <2>1, <2>2, <2>3, VerdictClear
<1> QED BY <1>3, <1>4, <1>5, <1>6, SafeStep DEF Counting

(* What one step does to one rule: felt from the turn of its admission for the  *)
(* duration asked, by one effect, up to the turn it expires and not on it.      *)
LEMMA TermStep ==
  ASSUME IInv, IInv', [Next]_vars, NEW k \in PersistentKinds
  PROVE  FeltForItsTerm(k)
<1> DEFINE e == s.effects[k]
           f == s'.effects[k]
<1>1. e.expires \in Nat /\ f.expires \in Nat BY DEF IInv, TypeOK, State
<1>2. turn \in Nat /\ turn' \in {turn, turn + 1} BY TurnStep
<1>3. Honest(s, s', turn, sanity) BY HonestNext
<1>4. Active(e) /\ f # e => turn >= e.expires BY <1>3 DEF Honest, Runs
<1>5. Active(f) /\ f # e => Begins(k) BY <1>3 DEF Honest, Grants, Asked, Begins
<1>6. Felt(k) <=> Active(e) /\ turn < e.expires BY DEF Felt, RuleApplies
<1>7. Felt(k)' <=> Active(f) /\ turn' < f.expires BY DEF Felt, RuleApplies
<1> HIDE DEF e, f
<1>8. ~Felt(k) /\ Felt(k)' => Begins(k) BY <1>1, <1>2, <1>5, <1>6, <1>7
<1>9. Felt(k) /\ Felt(k)' => f = e /\ turn' < e.expires BY <1>1, <1>2, <1>4, <1>6, <1>7
<1>10. Felt(k) /\ ~Felt(k)' => turn' = e.expires BY <1>1, <1>2, <1>4, <1>6, <1>7
<1> QED BY <1>8, <1>9, <1>10 DEF FeltForItsTerm, e, f

(* An effect of chaos_admit is felt through chaos_rule for exactly the duration   *)
(* asked, neither stacked, refreshed, cut short nor prolonged, and no safe point  *)
(* that is counted and no chaos_observe leaves it in the record when it is over.  *)
THEOREM EffectsRunTheirTerm == Spec => EffectRunsItsTerm
<1>1. IInv /\ IInv' /\ [Next]_vars
        => [/\ \A k \in PersistentKinds : FeltForItsTerm(k)
            /\ Observe \/ s'.safe # s.safe => NoneOverdue(s', turn)]_vars
  BY TermStep, ClearStep
<1> QED BY <1>1, InductiveInvariant, PTL DEF Spec, EffectRunsItsTerm

(* Whatever installs an effect or shows a message consumes an id that chaos_admit *)
(* has consumed for no earlier request.                                           *)
THEOREM IdsAreFresh == Spec => FreshIdPerEffect
<1>1. IInv /\ IInv' /\ [Next]_vars
        => [(\/ told' # told
             \/ \E k \in PersistentKinds : Active(s'.effects[k]) /\ s'.effects[k] # s.effects[k])
            => s'.last_id > s.last_id]_vars
  BY HonestNext DEF Honest, Fresh, Tale, Quietly
<1> QED BY <1>1, InductiveInvariant, PTL DEF Spec, FreshIdPerEffect

-----------------------------------------------------------------------------
(* The messages of a game.  The cooldown is measured from the last cosmetic turn, *)
(* so the invariant ties that turn to every message told before.                  *)
TaleOK == /\ CosmeticsArePaced
          /\ \A i \in DOMAIN told : told[i].turn <= s.cosmetic_last_turn

LEMMA EntryOfSeq ==
  ASSUME NEW S, NEW q \in Seq(S), NEW i \in 1..Len(q)
  PROVE  q[i] \in S
OBVIOUS

LEMMA TaleStep ==
  ASSUME IInv, TaleOK, Tale
  PROVE  TaleOK'
<1>1. /\ told \in Seq([value : Messages, turn : Nat]) /\ turn \in Nat
      /\ s.cosmetic_last_turn \in Nat
  BY ExplorationAssumption DEF IInv, TypeOK, State
<1>2. CASE Quietly BY <1>2 DEF TaleOK, CosmeticsArePaced, Quietly, SameTale
<1>3. ASSUME NEW m \in Messages \ s.cosmetic_seen,
             told' = Append(told, [value |-> m, turn |-> turn]),
             s'.cosmetic_seen = s.cosmetic_seen \cup {m}, s'.cosmetic_last_turn = turn,
             s.cosmetic_seen # {} => turn >= s.cosmetic_last_turn + CosmeticSpacing
      PROVE  TaleOK'
  <2> DEFINE n == Len(told) + 1
             new == [value |-> m, turn |-> turn]
  <2>1. new.value = m /\ new.turn = turn /\ new \in [value : Messages, turn : Nat]
    BY <1>1
  <2> HIDE DEF new
  <2>2. told' = Append(told, new) BY <1>3 DEF new
  <2>3. /\ DOMAIN told = 1..Len(told) /\ DOMAIN told' = 1..n /\ Len(told) \in Nat
        /\ told'[n] = new /\ \A i \in DOMAIN told : told'[i] = told[i] /\ told[i].turn \in Nat
    <3>1. /\ told' \in Seq([value : Messages, turn : Nat]) /\ Len(told') = n
          /\ Len(told) \in Nat /\ told'[n] = new
          /\ \A i \in 1..Len(told) : told'[i] = told[i]
      BY <1>1, <2>1, <2>2
    <3>2. DOMAIN told = 1..Len(told) BY <1>1
    <3>3. DOMAIN told' = 1..n BY <3>1
    <3>4. \A i \in DOMAIN told : told[i] \in [value : Messages, turn : Nat]
      BY <1>1, <3>2, EntryOfSeq
    <3> QED BY <3>1, <3>2, <3>3, <3>4
  <2>4. \A i \in DOMAIN told : /\ told[i].value \in s.cosmetic_seen
                               /\ told[i].turn <= s.cosmetic_last_turn
    BY DEF TaleOK, CosmeticsArePaced
  <2>5. \A i \in DOMAIN told : /\ told[i].value # m
                               /\ turn >= told[i].turn + CosmeticSpacing /\ turn >= told[i].turn
    BY <1>1, <1>3, <2>3, <2>4, PolicyAssumption, SMTT(30)
  <2>6. s'.cosmetic_seen = {told'[i].value : i \in DOMAIN told'}
    <3>1. s.cosmetic_seen = {told[i].value : i \in DOMAIN told}
      BY DEF TaleOK, CosmeticsArePaced
    <3>2. DOMAIN told' = DOMAIN told \cup {n} BY <2>3
    <3> QED BY <1>3, <2>1, <2>3, <3>1, <3>2
  <2>7. ASSUME NEW i \in DOMAIN told', NEW j \in DOMAIN told', i < j
        PROVE  told'[i].value # told'[j].value /\ told'[j].turn >= told'[i].turn + CosmeticSpacing
    <3>1. i \in DOMAIN told BY <2>3, <2>7
    <3>2. CASE j = n BY <2>1, <2>3, <2>5, <3>1, <3>2
    <3>3. CASE j \in DOMAIN told
      BY <2>3, <2>7, <3>1, <3>3 DEF TaleOK, CosmeticsArePaced
    <3> QED BY <2>3, <3>2, <3>3
  <2>8. \A i \in DOMAIN told' : told'[i].turn <= turn
    <3> TAKE i \in DOMAIN told'
    <3>1. CASE i = n BY <1>1, <2>1, <2>3, <3>1
    <3>2. CASE i \in DOMAIN told BY <2>3, <2>5, <3>2
    <3> QED BY <2>3, <3>1, <3>2
  <2> QED BY <1>3, <2>6, <2>7, <2>8 DEF TaleOK, CosmeticsArePaced
<1> QED BY <1>2, <1>3 DEF Tale

(* The ambient messages of a whole game are distinct and spaced, and the mask that *)
(* chaos_admit asks remembers exactly those that were shown.                       *)
THEOREM MessagesArePaced == Spec => []CosmeticsArePaced
<1>1. Init => TaleOK
  <2> SUFFICES ASSUME Init PROVE TaleOK OBVIOUS
  <2>1. told = <<>> /\ s.cosmetic_seen = {} BY DEF Init, InitState
  <2> QED BY <2>1 DEF TaleOK, CosmeticsArePaced
<1>2. IInv /\ IInv' /\ TaleOK /\ [Next]_vars => TaleOK'
  BY HonestNext, TaleStep
<1>3. TaleOK => CosmeticsArePaced BY DEF TaleOK
<1> QED BY <1>1, <1>2, <1>3, InductiveInvariant, PTL DEF Spec
=============================================================================
