------------------------ MODULE ChaosNextUse_proofs ------------------------
(****************************************************************************)
(* Proofs about ChaosNextUse, for every menu of programs, clock and carrier *)
(* its assumption admits: its safety invariants and its action properties.  *)
(*                                                                          *)
(* Each handler is built of a few endings of one record, so the argument    *)
(* has three layers.  A record is Sound when it is what the validator of a  *)
(* save accepts, but for the use that is in flight; every ending keeps a    *)
(* record Sound and only ends it (Ends); every action applies endings to    *)
(* the current record, and adds what it did to the tallies.                 *)
(****************************************************************************)
EXTENDS ChaosNextUse, FiniteSetTheorems, TLAPS

One(b) == IF b THEN 1 ELSE 0

(* The families that were called, and the use in flight. *)
Called2(r) == One(r.callback["W"] = TRUE) + One(r.callback["F"] = TRUE)

Busy == IF pc = "whistle" THEN "W" ELSE IF pc = "fountain" THEN "F" ELSE "none"

(* What the declaration fixes, and what it leaves of the effects. *)
KindOK(r) ==
    /\ r.ring => /\ Broad(r) /\ r.slot_f = "undeclared" /\ r.w_runtime = "inactive" /\ ~r.claimed
                 /\ r.slot_w = "rang" => r.callback["W"] /\ r.delivered > 0
    /\ ~r.ring => r.slot_w # "rang"
    /\ Broad(r) => /\ r.delivered <= r.uses
                   /\ (r.armed_level # 0) <=> (r.w_runtime # "inactive")
                   /\ Armed(r) /\ ~r.witnessed => r.delivered < r.uses
    /\ ~Broad(r) => r.delivered = 0 /\ r.armed_level = 0
    /\ ~Committed(r) => SlotsTerminal(r)

WindowOK(r, busy) ==
    /\ r.witnessed => r.claimed
    /\ IF r.slot_w = "armed" /\ busy # "W"
       THEN r.w_runtime # "inactive" /\ r.armed_m_id /\ r.activation < Lifetime
       ELSE /\ r.w_runtime = "inactive" /\ ~r.armed_m_id /\ r.activation = 0
            /\ ~r.witnessed /\ ~r.claimed

CallsOK(r, busy) ==
    /\ Called2(r) <= r.callback_ordinal
    /\ Broad(r) => r.callback_ordinal <= Callbacks
    /\ ~Broad(r) => r.callback_ordinal = Called2(r)
    /\ \A f \in Families : Slot(r, f) \in {"pending", "undeclared"} => ~r.callback[f] \/ f = busy
    /\ r.slot_w \in {"armed", "quiet", "delay"} => r.callback["W"]
    /\ r.slot_f \in {"applied", "nonremappable", "quiet", "delay"} => r.callback["F"]
    /\ busy \in Families =>
          /\ r.callback[busy] /\ Committed(r)
          /\ Broad(r) => r.delivered < r.uses /\ ~Armed(r) /\ Slot(r, busy) # "undeclared"
          /\ ~Broad(r) => Slot(r, busy) = "pending"

(* The rows a single-use program has left unwritten, and a broad one: each
   callback, what came of it, and the end of its window; each effect; the end. *)
WhistleRows(r, busy) ==
    IF r.slot_w = "pending" THEN One(busy = "W")
    ELSE IF Armed(r) THEN 2 + One(r.witnessed = TRUE) ELSE 4
FountainRows(r, busy) == IF r.slot_f = "pending" THEN One(busy = "F") ELSE 2

RowsOK(r, busy) ==
    /\ r.next_seq >= 3
    /\ IF Broad(r)
       THEN r.next_seq + One(Armed(r)) + 2 * One(busy = "W") + One(busy = "F")
                <= 3 + 3 * r.callback_ordinal + r.delivered + One(~Committed(r))
       ELSE r.next_seq <= 3 + WhistleRows(r, busy) + FountainRows(r, busy) + One(~Committed(r))

DelayOK(r) == IF r.delay_used THEN r.delay_until >= DelayMoves ELSE r.delay_until = 0

Sound(r, busy) ==
    /\ r \in Runtimes
    /\ KindOK(r) /\ WindowOK(r, busy) /\ CallsOK(r, busy) /\ RowsOK(r, busy) /\ DelayOK(r)

(* A single-use program that has nothing left is terminated. *)
Settled(r) == ~Broad(r) /\ SlotsTerminal(r) => ~Committed(r)

(* The program is where its level is. *)
LevelOK(r) ==
    Committed(r) => IF Broad(r) THEN Armed(r) => r.armed_level = r.current
                                ELSE r.level_token = r.current

Flight(r, busy) == r.pending_w = (busy = "W") /\ r.f_inflight = (busy = "F")

(* What the callbacks and the effects add up to. *)
Tally(r, a, g) ==
    /\ Broad(r) => /\ \A f \in Families : a[f] <= r.callback_ordinal
                   /\ g["W"] + g["F"] <= r.delivered
    /\ ~Broad(r) => /\ \A f \in Families : a[f] = One(r.callback[f] = TRUE)
                    /\ g["W"] <= One(r.witnessed = TRUE)
                    /\ g["F"] <= One(r.slot_f = "applied")

PlaceOK ==
    /\ rt.manifest_root <=> pc = "manifest"
    /\ pc = "manifest" =>
          /\ Committed(rt) /\ Armed(rt) /\ rt.claimed /\ ~rt.witnessed /\ rt.expected_m_id
          /\ now \in rt.activation + WindowOpen .. rt.activation + WindowEnd - 1
    /\ pc = "whistle" => now < Lifetime

InOrder(r, busy, a, g) ==
    Sound(r, busy) /\ Settled(r) /\ LevelOK(r) /\ Flight(r, busy) /\ Tally(r, a, g)

IInv == TypeOK /\ InOrder(rt, Busy, asked, felt) /\ PlaceOK

-----------------------------------------------------------------------------
(* A record that was only ended: what a use did stays as it was (Ended), and where
   the program is (Ends).                                                       *)
Ended(r, e) ==
    /\ e.uses = r.uses /\ e.ring = r.ring /\ e.delivered = r.delivered
    /\ e.callback = r.callback /\ e.callback_ordinal = r.callback_ordinal
    /\ e.pending_w = r.pending_w /\ e.f_inflight = r.f_inflight
    /\ e.manifest_root = r.manifest_root /\ e.witnessed = r.witnessed
    /\ Broad(r) \/ (r.slot_f = "applied" <=> e.slot_f = "applied")
    /\ Committed(e) => Committed(r)
    /\ Armed(e) => Armed(r)

Ends(r, e) ==
    /\ Ended(r, e)
    /\ e.current = r.current /\ e.level_token = r.level_token /\ e.armed_level = r.armed_level

LEMMA EndsSelf == ASSUME NEW r PROVE Ends(r, r)
BY DEF Ends, Ended, Broad

LEMMA EndsTwice ==
  ASSUME NEW r, NEW m, NEW e, Ends(r, m), Ends(m, e)
  PROVE  Ends(r, e)
BY DEF Ends, Ended, Broad

LEMMA EndedKeeps ==
  ASSUME NEW r, NEW e, Ended(r, e)
  PROVE  /\ \A busy : Flight(r, busy) => Flight(e, busy)
         /\ \A a, g : Tally(r, a, g) => Tally(e, a, g)
<1>1. \A busy : Flight(r, busy) => Flight(e, busy) BY DEF Ended, Flight
<1>2. ASSUME NEW a, NEW g, Tally(r, a, g) PROVE Tally(e, a, g)
  <2>1. Broad(e) <=> Broad(r) BY DEF Ended, Broad
  <2>2. Broad(r) \/ (r.slot_f = "applied" <=> e.slot_f = "applied") BY DEF Ended
  <2>3. Broad(r) \/ One(r.slot_f = "applied") = One(e.slot_f = "applied") BY <2>2 DEF One
  <2> QED BY <1>2, <2>1, <2>3 DEF Ended, Tally
<1> QED BY <1>1, <1>2

LEMMA EndedTwice ==
  ASSUME NEW r, NEW m, NEW e, Ended(r, m), Ended(m, e)
  PROVE  Ended(r, e)
BY DEF Ended, Broad

LEMMA EndsLevel ==
  ASSUME NEW r, NEW e, Ends(r, e)
  PROVE  LevelOK(r) => LevelOK(e)
BY DEF Ends, Ended, LevelOK, Broad

(* The types of a record's fields, as the arithmetic needs them. *)
LEMMA Typed ==
  ASSUME NEW r \in Runtimes
  PROVE  /\ r.next_seq \in Nat /\ r.callback_ordinal \in Nat /\ r.delivered \in 0..2
         /\ r.uses \in 0..2 /\ r.activation \in Nat /\ r.delay_until \in Nat
         /\ r.deadline \in Nat /\ r.slot_w \in SlotW /\ r.slot_f \in SlotF
         /\ r.w_runtime \in WRuntime /\ r.phase \in {"committed", "terminated"}
         /\ r.callback \in [Families -> BOOLEAN]
         /\ r.level_token \in Levels /\ r.current \in Levels /\ r.armed_level \in Levels \cup {0}
BY DEF Runtimes

LEMMA TypedFlags ==
  ASSUME NEW r \in Runtimes
  PROVE  /\ r.ring \in BOOLEAN /\ r.delay_used \in BOOLEAN /\ r.armed_m_id \in BOOLEAN
         /\ r.witnessed \in BOOLEAN /\ r.claimed \in BOOLEAN /\ r.unsafe \in BOOLEAN
         /\ r.pending_w \in BOOLEAN /\ r.f_inflight \in BOOLEAN
         /\ r.expected_m_id \in BOOLEAN /\ r.manifest_root \in BOOLEAN
         /\ r.notice \in BOOLEAN
BY DEF Runtimes

-----------------------------------------------------------------------------
(* The endings *)

LEMMA EndSlotsSound ==
  ASSUME NEW r, Sound(r, "none"), Committed(r), NEW reason \in {"level", "origin", "program"}
  PROVE  LET e == EndSlots(r, reason)
         IN  /\ Sound(e, "none") /\ Ends(r, e) /\ Committed(e) /\ e.w_runtime = r.w_runtime
             /\ e.slot_w # "pending" /\ e.slot_f # "pending"
<1> DEFINE slot == IF reason = "level" THEN "level" ELSE "expiry"
           w == IF r.slot_w = "pending" THEN slot ELSE r.slot_w
           f == IF r.slot_f = "pending" THEN slot ELSE r.slot_f
           e == [r EXCEPT !.slot_w = w, !.slot_f = f]
<1>1. EndSlots(r, reason) = e BY DEF EndSlots, Terminalize
<1>2. r \in Runtimes BY DEF Sound
<1>3. slot \in {"level", "expiry"} OBVIOUS
<1>4. w \in SlotW /\ f \in SlotF BY <1>2, <1>3, Typed DEF SlotW, SlotF
<1> HIDE DEF w, f
<1>5. /\ e.slot_w = w /\ e.slot_f = f
      /\ e.phase = r.phase /\ e.w_runtime = r.w_runtime /\ e.uses = r.uses /\ e.ring = r.ring
      /\ e.delivered = r.delivered /\ e.delay_used = r.delay_used /\ e.delay_until = r.delay_until
      /\ e.callback_ordinal = r.callback_ordinal /\ e.callback = r.callback
      /\ e.level_token = r.level_token /\ e.current = r.current /\ e.armed_level = r.armed_level
      /\ e.armed_m_id = r.armed_m_id /\ e.activation = r.activation
      /\ e.witnessed = r.witnessed /\ e.claimed = r.claimed /\ e.next_seq = r.next_seq
      /\ e.pending_w = r.pending_w /\ e.f_inflight = r.f_inflight
      /\ e.manifest_root = r.manifest_root
  BY <1>2 DEF Runtimes
<1>6. e \in Runtimes BY <1>2, <1>4 DEF Runtimes
<1> HIDE DEF e
<1> USE DEF w, f
<1>7. Committed(e) /\ (Broad(e) <=> Broad(r)) /\ (Armed(e) <=> Armed(r))
  BY <1>3, <1>5 DEF Committed, Broad, Armed
<1>8. KindOK(e) BY <1>3, <1>5, <1>7 DEF Sound, KindOK
<1>9. WindowOK(e, "none") BY <1>3, <1>5 DEF Sound, WindowOK
<1>10. CallsOK(e, "none") BY <1>3, <1>5, <1>7 DEF Sound, CallsOK, Called2, Slot, Families
<1>11. RowsOK(e, "none")
  BY <1>2, <1>3, <1>5, <1>7, Typed DEF Sound, RowsOK, WhistleRows, FountainRows, One
<1>12. DelayOK(e) BY <1>3, <1>5 DEF Sound, DelayOK
<1>13. Ends(r, e) BY <1>3, <1>5, <1>7 DEF Ends, Ended
<1> QED BY <1>1, <1>3, <1>5, <1>6, <1>7, <1>8, <1>9, <1>10, <1>11, <1>12, <1>13 DEF Sound

LEMMA TerminationSound ==
  ASSUME NEW r, Sound(r, "none")
  PROVE  LET e == AppendTermination(r)
         IN  /\ Sound(e, "none") /\ Ends(r, e) /\ Settled(e)
             /\ SlotsTerminal(r) => ~Committed(e)
<1>1. CASE ~Committed(r) \/ ~SlotsTerminal(r)
  BY <1>1, EndsSelf DEF AppendTermination, Settled
<1>2. CASE Committed(r) /\ SlotsTerminal(r)
  <2> DEFINE n == r.next_seq + 1
             e == [r EXCEPT !.next_seq = n, !.phase = "terminated"]
  <2>1. r \in Runtimes /\ n \in Nat BY Typed DEF Sound
  <2>2. AppendTermination(r) = e BY <1>2, <2>1 DEF AppendTermination, Row, Runtimes
  <2> HIDE DEF n
  <2>3. /\ e.phase = "terminated" /\ e.next_seq = n
        /\ e.slot_w = r.slot_w /\ e.slot_f = r.slot_f
        /\ e.w_runtime = r.w_runtime /\ e.uses = r.uses /\ e.ring = r.ring
        /\ e.delivered = r.delivered /\ e.delay_used = r.delay_used /\ e.delay_until = r.delay_until
        /\ e.callback_ordinal = r.callback_ordinal /\ e.callback = r.callback
        /\ e.level_token = r.level_token /\ e.current = r.current /\ e.armed_level = r.armed_level
        /\ e.armed_m_id = r.armed_m_id /\ e.activation = r.activation
        /\ e.witnessed = r.witnessed /\ e.claimed = r.claimed
        /\ e.pending_w = r.pending_w /\ e.f_inflight = r.f_inflight
        /\ e.manifest_root = r.manifest_root
    BY <2>1 DEF Runtimes
  <2>4. e \in Runtimes BY <2>1 DEF Runtimes
  <2> HIDE DEF e
  <2> USE DEF n
  <2>5. /\ ~Committed(e) /\ (Broad(e) <=> Broad(r)) /\ (Armed(e) <=> Armed(r))
        /\ SlotsTerminal(e)
    BY <1>2, <2>3 DEF Committed, Broad, Armed, SlotsTerminal
  <2>6. KindOK(e) BY <2>3, <2>5 DEF Sound, KindOK
  <2>7. WindowOK(e, "none") BY <2>3 DEF Sound, WindowOK
  <2>8. CallsOK(e, "none") BY <2>3, <2>5 DEF Sound, CallsOK, Called2, Slot, Families
  <2>9. RowsOK(e, "none")
    BY <1>2, <2>1, <2>3, <2>5, Typed DEF Sound, RowsOK, WhistleRows, FountainRows, One
  <2>10. DelayOK(e) BY <2>3 DEF Sound, DelayOK
  <2>11. Ends(r, e) BY <1>2, <2>3, <2>5 DEF Ends, Ended
  <2> QED BY <2>2, <2>4, <2>5, <2>6, <2>7, <2>8, <2>9, <2>10, <2>11 DEF Sound, Settled
<1> QED BY <1>1, <1>2

LEMMA FinishSound ==
  ASSUME NEW r, Sound(r, "none")
  PROVE  LET e == FinishUse(r) IN Sound(e, "none") /\ Ends(r, e) /\ Settled(e)
<1>1. CASE Broad(r) /\ ~(Between(r) /\ BroadFinished(r))
  BY <1>1, EndsSelf DEF FinishUse, Settled
<1>2. CASE ~(Broad(r) /\ ~(Between(r) /\ BroadFinished(r)))
  BY <1>2, TerminationSound DEF FinishUse
<1> QED BY <1>1, <1>2

(* The window's end itself, of whatever was ended before it. *)
LEMMA OutcomeSound ==
  ASSUME NEW r, Sound(r, "none"), Committed(r), Armed(r), NEW reason \in DOMAIN WindowOutcome
  PROVE  LET e == Row([r EXCEPT !.w_runtime = WindowOutcome[reason]])
         IN  /\ Sound(e, "none") /\ Ends(r, e) /\ Committed(e) /\ ~Armed(e)
             /\ e.slot_w = r.slot_w /\ e.slot_f = r.slot_f
<1> DEFINE o == WindowOutcome[reason]
           n == r.next_seq + 1
           e == [r EXCEPT !.w_runtime = o, !.next_seq = n]
<1>1. r \in Runtimes /\ n \in Nat BY Typed DEF Sound
<1>2. Row([r EXCEPT !.w_runtime = WindowOutcome[reason]]) = e BY <1>1 DEF Row, Runtimes
<1>3. o \in WRuntime \ {"inactive", "armed"} BY DEF WindowOutcome, WRuntime
<1> HIDE DEF o, n
<1>4. /\ e.w_runtime = o /\ e.next_seq = n
      /\ e.slot_w = r.slot_w /\ e.slot_f = r.slot_f
      /\ e.phase = r.phase /\ e.uses = r.uses /\ e.ring = r.ring
      /\ e.delivered = r.delivered /\ e.delay_used = r.delay_used /\ e.delay_until = r.delay_until
      /\ e.callback_ordinal = r.callback_ordinal /\ e.callback = r.callback
      /\ e.level_token = r.level_token /\ e.current = r.current /\ e.armed_level = r.armed_level
      /\ e.armed_m_id = r.armed_m_id /\ e.activation = r.activation
      /\ e.witnessed = r.witnessed /\ e.claimed = r.claimed
      /\ e.pending_w = r.pending_w /\ e.f_inflight = r.f_inflight
      /\ e.manifest_root = r.manifest_root
  BY <1>1 DEF Runtimes
<1>5. e \in Runtimes BY <1>1, <1>3 DEF Runtimes
<1> HIDE DEF e
<1> USE DEF n
<1>6. Committed(e) /\ (Broad(e) <=> Broad(r)) /\ ~Armed(e)
  BY <1>3, <1>4 DEF Committed, Broad, Armed
<1>7. KindOK(e) BY <1>3, <1>4, <1>6 DEF Sound, KindOK, Armed
<1>8. WindowOK(e, "none") BY <1>3, <1>4 DEF Sound, WindowOK, Armed
<1>9. CallsOK(e, "none") BY <1>4, <1>6 DEF Sound, CallsOK, Called2, Slot, Families
<1>10. RowsOK(e, "none")
  <2>1. Broad(r) => One(Armed(r)) = 1 /\ One(Armed(e)) = 0 BY <1>6 DEF One
  <2>2. r.slot_w = "armed" BY DEF Sound, WindowOK, Armed
  <2> QED
    BY <1>1, <1>4, <1>6, <2>1, <2>2, Typed DEF Sound, RowsOK, WhistleRows, FountainRows, One
<1>11. DelayOK(e) BY <1>4 DEF Sound, DelayOK
<1>12. Ends(r, e) BY <1>4, <1>6 DEF Ends, Ended
<1> QED BY <1>2, <1>4, <1>5, <1>6, <1>7, <1>8, <1>9, <1>10, <1>11, <1>12 DEF Sound

LEMMA EndWindowSound ==
  ASSUME NEW r, Sound(r, "none"), NEW reason \in DOMAIN WindowOutcome
  PROVE  LET e == EndW(r, reason)
         IN  /\ Sound(e, "none") /\ Ends(r, e) /\ ~Armed(e)
             /\ Settled(r) /\ reason # "invalid" => Settled(e)
             /\ reason \in {"level", "origin", "program"} /\ Armed(r) /\ ~Broad(r) => ~Committed(e)
             /\ reason \in {"origin", "program"} /\ Armed(r) => ~Committed(e)
<1>1. CASE ~Armed(r)
  <2>1. EndW(r, reason) = r BY <1>1 DEF EndW
  <2> QED BY <1>1, <2>1, EndsSelf
<1>2. CASE Armed(r)
  <2> DEFINE m == EndSlots(r, reason)
             e == Row([m EXCEPT !.w_runtime = WindowOutcome[reason]])
  <2>1. Committed(r) BY <1>2 DEF Sound, KindOK, SlotsTerminal
  <2>2. /\ Sound(m, "none") /\ Ends(r, m) /\ Committed(m) /\ m.w_runtime = r.w_runtime
        /\ reason \in {"level", "origin", "program"} => m.slot_w # "pending" /\ m.slot_f # "pending"
        /\ reason \notin {"level", "origin", "program"} => m = r
    <3>1. CASE reason \in {"level", "origin", "program"} BY <2>1, <3>1, EndSlotsSound
    <3>2. CASE reason \notin {"level", "origin", "program"} BY <2>1, <3>2, EndsSelf DEF EndSlots
    <3> QED BY <3>1, <3>2
  <2> HIDE DEF m
  <2>3. Armed(m) BY <1>2, <2>2 DEF Armed
  <2>4. /\ Sound(e, "none") /\ Ends(m, e) /\ Committed(e) /\ ~Armed(e)
        /\ e.slot_w = m.slot_w /\ e.slot_f = m.slot_f
    BY <2>2, <2>3, OutcomeSound
  <2>5. EndW(r, reason) =
           IF reason = "invalid" THEN e
           ELSE IF Broad(r) /\ reason \in {"window", "level"} THEN FinishUse(e)
           ELSE AppendTermination(e)
    BY <1>2 DEF EndW, m
  <2> HIDE DEF e
  <2>6. Ends(r, e) BY <2>2, <2>4, EndsTwice
  <2>7. reason \in {"level", "origin", "program"} => SlotsTerminal(e)
    BY <2>2, <2>4 DEF SlotsTerminal
  <2>8. CASE reason = "invalid" BY <2>4, <2>5, <2>6, <2>8
  <2>9. CASE reason # "invalid" /\ Broad(r) /\ reason \in {"window", "level"}
    <3>1. EndW(r, reason) = FinishUse(e) BY <2>5, <2>9
    <3>2. Sound(FinishUse(e), "none") /\ Ends(e, FinishUse(e)) /\ Settled(FinishUse(e))
      BY <2>4, FinishSound
    <3> QED BY <2>4, <2>6, <2>9, <3>1, <3>2, EndsTwice DEF Ends, Ended
  <2>10. CASE reason # "invalid" /\ ~(Broad(r) /\ reason \in {"window", "level"})
    <3> DEFINE t == AppendTermination(e)
    <3>1. EndW(r, reason) = t BY <2>5, <2>10
    <3>2. /\ Sound(t, "none") /\ Ends(e, t) /\ Settled(t)
          /\ SlotsTerminal(e) => ~Committed(t)
      BY <2>4, TerminationSound
    <3> HIDE DEF t
    <3> QED BY <2>4, <2>6, <2>7, <2>10, <3>1, <3>2, EndsTwice DEF Ends, Ended
  <2> QED BY <2>8, <2>9, <2>10
<1> QED BY <1>1, <1>2

-----------------------------------------------------------------------------
(* The boundaries *)

LEMMA ExpireSound ==
  ASSUME NEW r, Sound(r, "none"), NEW reason \in {"level", "origin", "program"}, Committed(r),
         Broad(r) => reason # "level"
  PROVE  LET e == Expire(r, reason)
         IN  Sound(e, "none") /\ Ends(r, e) /\ Settled(e) /\ ~Committed(e)
<1> DEFINE m == EndSlots(r, reason)
<1>1. /\ Sound(m, "none") /\ Ends(r, m) /\ Committed(m) /\ m.w_runtime = r.w_runtime
      /\ m.slot_w # "pending" /\ m.slot_f # "pending"
  BY EndSlotsSound
<1>2. Expire(r, reason) = IF Armed(r) THEN EndW(m, reason) ELSE AppendTermination(m)
  BY DEF Expire
<1> HIDE DEF m
<1>3. CASE Armed(r)
  <2> DEFINE e == EndW(m, reason)
  <2>1. Armed(m) /\ (Broad(m) <=> Broad(r)) BY <1>1, <1>3 DEF Armed, Broad, Ends, Ended
  <2>2. reason \in DOMAIN WindowOutcome BY DEF WindowOutcome
  <2>3. Sound(e, "none") /\ Ends(m, e) /\ ~Committed(e)
    BY <1>1, <2>1, <2>2, EndWindowSound
  <2> HIDE DEF e
  <2> QED BY <1>1, <1>2, <1>3, <2>3, EndsTwice DEF Settled, e
<1>4. CASE ~Armed(r)
  <2> DEFINE e == AppendTermination(m)
  <2>1. SlotsTerminal(m) BY <1>1, <1>4 DEF SlotsTerminal, Armed
  <2>2. Sound(e, "none") /\ Ends(m, e) /\ ~Committed(e) BY <1>1, <2>1, TerminationSound
  <2> HIDE DEF e
  <2> QED BY <1>1, <1>2, <1>4, <2>2, EndsTwice DEF Settled, e
<1> QED BY <1>3, <1>4

LEMMA TimeBoundarySound ==
  ASSUME NEW r, Sound(r, "none"), Settled(r), now \in Nat
  PROVE  LET e == TimeBoundary(r)
         IN  /\ Sound(e, "none") /\ Ends(r, e) /\ Settled(e)
             /\ Committed(e) => now < Lifetime
             /\ ~Committed(r) => e = r
<1>1. CASE ~Committed(r) BY <1>1, EndsSelf DEF TimeBoundary
<1>2. CASE Committed(r) /\ now > r.deadline
  <2>1. TimeBoundary(r) = Expire(r, "origin") BY <1>2 DEF TimeBoundary
  <2> QED BY <1>2, <2>1, ExpireSound
<1>3. CASE Committed(r) /\ ~(now > r.deadline) /\ now >= Lifetime
  <2>1. TimeBoundary(r) = Expire(r, "program") BY <1>3 DEF TimeBoundary
  <2> QED BY <1>3, <2>1, ExpireSound
<1>4. CASE Committed(r) /\ ~(now > r.deadline) /\ ~(now >= Lifetime)
  <2>1. now < Lifetime BY <1>4, NextUseAssumption
  <2>2. CASE Armed(r) /\ now >= r.activation + WindowEnd
    <3>1. TimeBoundary(r) = EndW(r, "window") BY <1>4, <2>2 DEF TimeBoundary
    <3>2. "window" \in DOMAIN WindowOutcome BY DEF WindowOutcome
    <3> QED BY <1>4, <2>1, <3>1, <3>2, EndWindowSound
  <2>3. CASE ~(Armed(r) /\ now >= r.activation + WindowEnd)
    <3>1. TimeBoundary(r) = r BY <1>4, <2>3 DEF TimeBoundary
    <3> QED BY <1>4, <2>1, <3>1, EndsSelf
  <2> QED BY <2>2, <2>3
<1> QED BY <1>1, <1>2, <1>3, <1>4

(* The record with the level the boundary was told. *)
LEMMA SeenSound ==
  ASSUME NEW r, Sound(r, "none"), Settled(r), NEW there \in Levels
  PROVE  LET e == [r EXCEPT !.current = there]
         IN  /\ Sound(e, "none") /\ Ended(r, e) /\ Settled(e) /\ e.current = there
             /\ e.level_token = r.level_token /\ e.armed_level = r.armed_level
             /\ (Committed(e) <=> Committed(r)) /\ (Armed(e) <=> Armed(r))
             /\ (Broad(e) <=> Broad(r))
<1> DEFINE e == [r EXCEPT !.current = there]
<1>1. r \in Runtimes BY DEF Sound
<1>2. /\ e.slot_w = r.slot_w /\ e.slot_f = r.slot_f /\ e.w_runtime = r.w_runtime
      /\ e.phase = r.phase /\ e.uses = r.uses /\ e.ring = r.ring
      /\ e.delivered = r.delivered /\ e.delay_used = r.delay_used /\ e.delay_until = r.delay_until
      /\ e.callback_ordinal = r.callback_ordinal /\ e.callback = r.callback
      /\ e.level_token = r.level_token /\ e.current = there /\ e.armed_level = r.armed_level
      /\ e.armed_m_id = r.armed_m_id /\ e.activation = r.activation
      /\ e.witnessed = r.witnessed /\ e.claimed = r.claimed /\ e.next_seq = r.next_seq
      /\ e.pending_w = r.pending_w /\ e.f_inflight = r.f_inflight
      /\ e.manifest_root = r.manifest_root
  BY <1>1 DEF Runtimes
<1>3. e \in Runtimes BY <1>1 DEF Runtimes
<1> HIDE DEF e
<1>4. /\ (Committed(e) <=> Committed(r)) /\ (Broad(e) <=> Broad(r)) /\ (Armed(e) <=> Armed(r))
      /\ (SlotsTerminal(e) <=> SlotsTerminal(r))
  BY <1>2 DEF Committed, Broad, Armed, SlotsTerminal
<1>5. KindOK(e) BY <1>2, <1>4 DEF Sound, KindOK
<1>6. WindowOK(e, "none") BY <1>2 DEF Sound, WindowOK
<1>7. CallsOK(e, "none") BY <1>2, <1>4 DEF Sound, CallsOK, Called2, Slot, Families
<1>8. RowsOK(e, "none")
  BY <1>1, <1>2, <1>4, Typed DEF Sound, RowsOK, WhistleRows, FountainRows, One
<1>9. DelayOK(e) BY <1>2 DEF Sound, DelayOK
<1>10. Ended(r, e) /\ Settled(e) BY <1>2, <1>4 DEF Ended, Settled
<1> QED BY <1>2, <1>3, <1>4, <1>5, <1>6, <1>7, <1>8, <1>9, <1>10 DEF Sound, e

LEMMA BoundarySound ==
  ASSUME NEW r, Sound(r, "none"), Settled(r), NEW there \in Levels, now \in Nat
  PROVE  LET e == Boundary(r, there)
         IN  /\ Sound(e, "none") /\ Ended(r, e) /\ Settled(e) /\ LevelOK(e)
             /\ Committed(e) => now < Lifetime
             /\ ~Committed(r) => e = r
<1> DEFINE seen == [r EXCEPT !.current = there]
<1>1. CASE ~Committed(r) BY <1>1, EndsSelf DEF Boundary, LevelOK, Ends
<1>2. CASE Committed(r)
  <2>1. /\ Sound(seen, "none") /\ Ended(r, seen) /\ Settled(seen) /\ seen.current = there
        /\ seen.level_token = r.level_token /\ seen.armed_level = r.armed_level
        /\ Committed(seen) /\ (Armed(seen) <=> Armed(r)) /\ (Broad(seen) <=> Broad(r))
    BY <1>2, SeenSound
  <2>2. Boundary(r, there) =
           IF ~Broad(r) /\ there # r.level_token THEN Expire(seen, "level")
           ELSE IF Broad(r) /\ Armed(r) /\ there # r.armed_level
                THEN TimeBoundary(EndW(seen, "level"))
           ELSE TimeBoundary(seen)
    BY <1>2 DEF Boundary
  <2> HIDE DEF seen
  <2>3. CASE ~Broad(r) /\ there # r.level_token
    <3>1. Boundary(r, there) = Expire(seen, "level") BY <2>2, <2>3
    <3>2. LET e == Expire(seen, "level")
          IN  Sound(e, "none") /\ Ends(seen, e) /\ Settled(e) /\ ~Committed(e)
      BY <2>1, <2>3, ExpireSound
    <3> QED BY <1>2, <2>1, <3>1, <3>2, EndedTwice DEF Ends, LevelOK
  <2>4. CASE Broad(r) /\ Armed(r) /\ there # r.armed_level
    <3> DEFINE m == EndW(seen, "level")
               e == TimeBoundary(m)
    <3>1. "level" \in DOMAIN WindowOutcome BY DEF WindowOutcome
    <3>2. Sound(m, "none") /\ Ends(seen, m) /\ ~Armed(m) /\ Settled(m)
      BY <2>1, <3>1, EndWindowSound
    <3>3. Boundary(r, there) = e BY <2>2, <2>4
    <3> HIDE DEF m
    <3>4. Sound(e, "none") /\ Ends(m, e) /\ Settled(e) /\ (Committed(e) => now < Lifetime)
      BY <3>2, TimeBoundarySound
    <3> HIDE DEF e
    <3>5. LevelOK(e) BY <2>1, <2>4, <3>2, <3>4 DEF LevelOK, Ends, Ended, Broad
    <3> QED BY <1>2, <2>1, <3>2, <3>3, <3>4, <3>5, EndedTwice DEF Ends
  <2>5. CASE ~(~Broad(r) /\ there # r.level_token) /\ ~(Broad(r) /\ Armed(r) /\ there # r.armed_level)
    <3> DEFINE e == TimeBoundary(seen)
    <3>1. Boundary(r, there) = e BY <2>2, <2>5
    <3>2. Sound(e, "none") /\ Ends(seen, e) /\ Settled(e) /\ (Committed(e) => now < Lifetime)
      BY <2>1, TimeBoundarySound
    <3> HIDE DEF e
    <3>3. LevelOK(seen) BY <2>1, <2>5 DEF LevelOK
    <3> QED BY <1>2, <2>1, <3>1, <3>2, <3>3, EndsLevel, EndedTwice DEF Ends
  <2> QED BY <2>3, <2>4, <2>5
<1> QED BY <1>1, <1>2

(* A record at rest: nothing is in flight, and it is where its level is. *)
AtRest(r) == Sound(r, "none") /\ Settled(r) /\ LevelOK(r)

LEMMA BoundedRests ==
  ASSUME NEW r, AtRest(r), now \in Nat
  PROVE  LET e == Bounded(r)
         IN  /\ AtRest(e) /\ Ended(r, e)
             /\ Committed(e) => now < Lifetime
             /\ ~Committed(r) => e = r
<1>1. r.current \in Levels BY Typed DEF AtRest, Sound
<1> QED BY <1>1, BoundarySound DEF AtRest, Bounded

LEMMA EndedInOrder ==
  ASSUME NEW r, NEW e, NEW a, NEW g, InOrder(r, "none", a, g), AtRest(e), Ended(r, e)
  PROVE  InOrder(e, "none", a, g)
BY EndedKeeps DEF InOrder, AtRest

LEMMA UnsafeSound ==
  ASSUME NEW r, NEW busy, Sound(r, busy), Settled(r), NEW b \in BOOLEAN
  PROVE  LET e == [r EXCEPT !.unsafe = b]
         IN  /\ Sound(e, busy) /\ Ends(r, e) /\ Settled(e) /\ (Armed(e) <=> Armed(r))
             /\ (Committed(e) <=> Committed(r)) /\ e.manifest_root = r.manifest_root
             /\ e.claimed = r.claimed /\ e.witnessed = r.witnessed
             /\ e.expected_m_id = r.expected_m_id /\ e.activation = r.activation
<1> DEFINE e == [r EXCEPT !.unsafe = b]
<1>1. r \in Runtimes BY DEF Sound
<1>2. /\ e.slot_w = r.slot_w /\ e.slot_f = r.slot_f /\ e.w_runtime = r.w_runtime
      /\ e.phase = r.phase /\ e.uses = r.uses /\ e.ring = r.ring
      /\ e.delivered = r.delivered /\ e.delay_used = r.delay_used /\ e.delay_until = r.delay_until
      /\ e.callback_ordinal = r.callback_ordinal /\ e.callback = r.callback
      /\ e.level_token = r.level_token /\ e.current = r.current /\ e.armed_level = r.armed_level
      /\ e.armed_m_id = r.armed_m_id /\ e.activation = r.activation
      /\ e.witnessed = r.witnessed /\ e.claimed = r.claimed /\ e.next_seq = r.next_seq
      /\ e.pending_w = r.pending_w /\ e.f_inflight = r.f_inflight
      /\ e.manifest_root = r.manifest_root /\ e.expected_m_id = r.expected_m_id
  BY <1>1 DEF Runtimes
<1>3. e \in Runtimes BY <1>1 DEF Runtimes
<1> HIDE DEF e
<1>4. /\ (Committed(e) <=> Committed(r)) /\ (Broad(e) <=> Broad(r)) /\ (Armed(e) <=> Armed(r))
      /\ (SlotsTerminal(e) <=> SlotsTerminal(r))
  BY <1>2 DEF Committed, Broad, Armed, SlotsTerminal
<1>5. KindOK(e) BY <1>2, <1>4 DEF Sound, KindOK
<1>6. WindowOK(e, busy) BY <1>2 DEF Sound, WindowOK
<1>7. CallsOK(e, busy)
  <2>1. \A f : Slot(e, f) = Slot(r, f) BY <1>2 DEF Slot
  <2>2. Called2(e) = Called2(r) BY <1>2 DEF Called2
  <2> QED BY <1>2, <1>4, <2>1, <2>2 DEF Sound, CallsOK
<1>8. RowsOK(e, busy)
  BY <1>1, <1>2, <1>4, Typed DEF Sound, RowsOK, WhistleRows, FountainRows, One
<1>9. DelayOK(e) BY <1>2 DEF Sound, DelayOK
<1>10. Ends(r, e) /\ Settled(e) BY <1>2, <1>4 DEF Ends, Ended, Settled
<1> QED BY <1>2, <1>3, <1>4, <1>5, <1>6, <1>7, <1>8, <1>9, <1>10 DEF Sound, e

LEMMA UnsafeEnds ==
  ASSUME NEW r, AtRest(r), NEW reason \in DOMAIN WindowOutcome, reason # "invalid"
  PROVE  LET e == EndW([r EXCEPT !.unsafe = FALSE], reason)
         IN  AtRest(e) /\ Ends(r, e) /\ ~Armed(e)
<1> DEFINE m == [r EXCEPT !.unsafe = FALSE]
           e == EndW(m, reason)
<1>1. Sound(m, "none") /\ Ends(r, m) /\ Settled(m) BY UnsafeSound DEF AtRest
<1> HIDE DEF m
<1>2. Sound(e, "none") /\ Ends(m, e) /\ ~Armed(e) /\ Settled(e) BY <1>1, EndWindowSound
<1> HIDE DEF e
<1>3. Ends(r, e) BY <1>1, <1>2, EndsTwice
<1> QED BY <1>2, <1>3, EndsLevel DEF AtRest, m, e

LEMMA BeforeCallRests ==
  ASSUME NEW r, AtRest(r), now \in Nat
  PROVE  LET e == BeforeCall(r)
         IN  /\ AtRest(e) /\ Ended(r, e)
             /\ Committed(e) => now < Lifetime
             /\ ~Committed(r) => e = r
<1> DEFINE m == TakeUnsafe(r)
<1>1. AtRest(m) /\ Ended(r, m) /\ (~Committed(r) => m = r)
  <2>1. CASE Committed(r) /\ Armed(r) /\ r.unsafe
    <3>1. "unsafe" \in DOMAIN WindowOutcome BY DEF WindowOutcome
    <3>2. m = EndW([r EXCEPT !.unsafe = FALSE], "unsafe") BY <2>1 DEF TakeUnsafe
    <3> QED BY <2>1, <3>1, <3>2, UnsafeEnds DEF Ends
  <2>2. CASE ~(Committed(r) /\ Armed(r) /\ r.unsafe)
    BY <2>2, EndsSelf DEF TakeUnsafe, Ends
  <2> QED BY <2>1, <2>2
<1> HIDE DEF m
<1>2. /\ AtRest(Bounded(m)) /\ Ended(m, Bounded(m))
      /\ Committed(Bounded(m)) => now < Lifetime
      /\ ~Committed(m) => Bounded(m) = m
  BY <1>1, BoundedRests
<1>3. BeforeCall(r) = Bounded(m) BY DEF BeforeCall, m
<1> QED BY <1>1, <1>2, <1>3, EndedTwice

-----------------------------------------------------------------------------
(* A use: the call, then its answer *)

(* In the callback of family f. *)
Making(c, f, a, g) ==
    /\ Sound(c, f) /\ Settled(c) /\ LevelOK(c) /\ Tally(c, a, g)
    /\ c.pending_w = FALSE /\ c.f_inflight = FALSE /\ Committed(c)

LEMMA CalledTyped ==
  ASSUME NEW f \in Families, NEW r \in Runtimes
  PROVE  Called(r, f) \in Runtimes
<1> DEFINE k == IF Broad(r) /\ f = "W" THEN ClearWindow(r) ELSE r
           o == k.callback_ordinal + 1
           cb == [k.callback EXCEPT ![f] = TRUE]
<1>1. k \in Runtimes
  <2>1. ClearWindow(r) \in Runtimes BY DEF ClearWindow, Runtimes, WRuntime
  <2> QED BY <2>1
<1>2. Called(r, f) = [k EXCEPT !.callback_ordinal = o, !.callback = cb] BY DEF Called
<1> HIDE DEF k
<1>3. o \in Nat /\ cb \in [Families -> BOOLEAN] BY <1>1, Typed
<1> HIDE DEF o, cb
<1> QED BY <1>1, <1>2, <1>3, ZenonT(30) DEF Runtimes

LEMMA CallSound ==
  ASSUME NEW f \in Families, NEW a \in [Families -> Nat], NEW g \in [Families -> Nat],
         NEW r, InOrder(r, "none", a, g), Ready(r, f)
  PROVE  LET c == Row(Called(r, f))
         IN  Making(c, f, [a EXCEPT ![f] = @ + 1], g) /\ c.manifest_root = r.manifest_root
<1> DEFINE clear == Broad(r) /\ f = "W"
           k == IF clear THEN ClearWindow(r) ELSE r
           n == r.next_seq + 1
           o == r.callback_ordinal + 1
           cb == [r.callback EXCEPT ![f] = TRUE]
           c == [k EXCEPT !.callback_ordinal = o, !.callback = cb, !.next_seq = n]
           a1 == [a EXCEPT ![f] = @ + 1]
<1>1. /\ r \in Runtimes /\ n \in Nat /\ o \in Nat /\ cb \in [Families -> BOOLEAN]
      /\ cb[f] = TRUE /\ \A h \in Families \ {f} : cb[h] = r.callback[h]
  BY Typed DEF InOrder, Sound
<1>2. /\ k \in Runtimes /\ k.slot_w = r.slot_w /\ k.slot_f = r.slot_f /\ k.phase = r.phase
      /\ k.uses = r.uses /\ k.ring = r.ring /\ k.delivered = r.delivered
      /\ k.delay_used = r.delay_used /\ k.delay_until = r.delay_until
      /\ k.level_token = r.level_token /\ k.current = r.current
      /\ k.pending_w = r.pending_w /\ k.f_inflight = r.f_inflight
      /\ k.manifest_root = r.manifest_root
      /\ k.next_seq = r.next_seq /\ k.callback_ordinal = r.callback_ordinal
      /\ k.callback = r.callback
  <2>1. CASE clear
    <3>1. k = ClearWindow(r) BY <2>1
    <3> HIDE DEF k
    <3>2. k \in Runtimes BY <1>1, <3>1, ZenonT(30) DEF ClearWindow, Runtimes, WRuntime
    <3> QED BY <1>1, <3>1, <3>2 DEF ClearWindow, Runtimes
  <2>2. CASE ~clear BY <1>1, <2>2
  <2> QED BY <2>1, <2>2
<1>3. /\ clear => /\ k.w_runtime = "inactive" /\ k.armed_level = 0 /\ k.armed_m_id = FALSE
                  /\ k.activation = 0 /\ k.witnessed = FALSE /\ k.claimed = FALSE
      /\ ~clear => k = r
  BY <1>1 DEF ClearWindow, Runtimes
<1>4. Row(Called(r, f)) = c
  <2> DEFINE q == [k EXCEPT !.callback_ordinal = o, !.callback = cb]
  <2>1. Called(r, f) = [k EXCEPT !.callback_ordinal = @ + 1, !.callback[f] = TRUE]
    BY DEF Called
  <2> HIDE DEF k
  <2>2. Called(r, f) = q BY <1>2, <2>1
  <2>3. q.next_seq = r.next_seq BY <1>2 DEF Runtimes
  <2>4. Row(q) = [q EXCEPT !.next_seq = n] BY <2>3 DEF Row
  <2> HIDE DEF n, o, cb
  <2>5. [q EXCEPT !.next_seq = n] = c BY <1>2 DEF Runtimes
  <2> QED BY <2>2, <2>4, <2>5
<1> HIDE DEF k, n, o, cb
<1>5. /\ c.callback_ordinal = o /\ c.callback = cb /\ c.next_seq = n
      /\ c.slot_w = k.slot_w /\ c.slot_f = k.slot_f /\ c.w_runtime = k.w_runtime
      /\ c.phase = k.phase /\ c.uses = k.uses /\ c.ring = k.ring
      /\ c.delivered = k.delivered /\ c.delay_used = k.delay_used /\ c.delay_until = k.delay_until
      /\ c.level_token = k.level_token /\ c.current = k.current /\ c.armed_level = k.armed_level
      /\ c.armed_m_id = k.armed_m_id /\ c.activation = k.activation
      /\ c.witnessed = k.witnessed /\ c.claimed = k.claimed
      /\ c.pending_w = k.pending_w /\ c.f_inflight = k.f_inflight
      /\ c.manifest_root = k.manifest_root
  BY <1>2 DEF Runtimes
<1>6. c \in Runtimes BY <1>1, <1>2 DEF Runtimes
<1> HIDE DEF c
<1> USE DEF n, o
<1>7. /\ Committed(r) /\ (Broad(r) => ~Armed(r) /\ r.delivered < r.uses /\ Slot(r, f) # "undeclared")
      /\ Broad(r) => r.callback_ordinal < Callbacks
      /\ ~Broad(r) => Slot(r, f) = "pending"
  BY <1>1, Typed, NextUseAssumption DEF Ready, FamilyOpen, Between, BroadFinished
<1>8. /\ Committed(c) /\ (Broad(c) <=> Broad(r)) /\ (Armed(c) <=> Armed(r))
      /\ (SlotsTerminal(c) <=> SlotsTerminal(r))
      /\ \A h : Slot(c, h) = Slot(r, h)
  BY <1>2, <1>3, <1>5, <1>7 DEF Committed, Broad, Armed, SlotsTerminal, Slot
<1>9. KindOK(c)
  BY <1>1, <1>2, <1>3, <1>5, <1>7, <1>8 DEF InOrder, Sound, KindOK, Families
<1>10. WindowOK(c, f)
  <2>1. CASE clear BY <1>2, <1>3, <1>5, <2>1 DEF WindowOK
  <2>2. CASE ~clear /\ f = "W"
    BY <1>2, <1>3, <1>5, <1>7, <2>2 DEF InOrder, Sound, WindowOK, Slot
  <2>3. CASE f = "F" BY <1>2, <1>3, <1>5, <2>3 DEF InOrder, Sound, WindowOK
  <2> QED BY <2>1, <2>2, <2>3 DEF Families
<1>11. CallsOK(c, f)
  <2>1. CASE f = "W"
    BY <1>1, <1>2, <1>3, <1>5, <1>7, <1>8, <2>1, Typed, NextUseAssumption
    DEF InOrder, Sound, CallsOK, Called2, One, Families, Slot
  <2>2. CASE f = "F"
    BY <1>1, <1>2, <1>3, <1>5, <1>7, <1>8, <2>2, Typed, NextUseAssumption
    DEF InOrder, Sound, CallsOK, Called2, One, Families, Slot
  <2> QED BY <2>1, <2>2 DEF Families
<1>12. RowsOK(c, f)
  <2>1. CASE Broad(r)
    BY <1>1, <1>2, <1>3, <1>5, <1>7, <1>8, <2>1, Typed DEF InOrder, Sound, RowsOK, One
  <2>2. CASE ~Broad(r)
    BY <1>1, <1>2, <1>3, <1>5, <1>7, <1>8, <2>2, Typed
    DEF InOrder, Sound, RowsOK, WhistleRows, FountainRows, One, Slot, Families
  <2> QED BY <2>1, <2>2
<1>13. DelayOK(c) BY <1>2, <1>5 DEF InOrder, Sound, DelayOK
<1>14. Settled(c) /\ LevelOK(c)
  BY <1>2, <1>3, <1>5, <1>7, <1>8 DEF InOrder, Settled, LevelOK
<1>15. c.pending_w = FALSE /\ c.f_inflight = FALSE BY <1>2, <1>5 DEF InOrder, Flight
<1>16. Tally(c, a1, g)
  <2>1. a1[f] = a[f] + 1 /\ \A h \in Families \ {f} : a1[h] = a[h] OBVIOUS
  <2>2. \A h \in Families : a[h] \in Nat OBVIOUS
  <2> HIDE DEF a1
  <2>3. CASE Broad(r)
    BY <1>1, <1>2, <1>5, <1>8, <2>1, <2>2, <2>3, Typed DEF InOrder, Tally
  <2>4. CASE ~Broad(r)
    <3>1. ~r.callback[f]
      BY <1>7, <2>4 DEF InOrder, Sound, CallsOK, Families
    <3>2. \A h \in Families : a1[h] = One(cb[h] = TRUE)
      BY <1>1, <2>1, <2>2, <2>4, <3>1 DEF InOrder, Tally, One
    <3> QED BY <1>2, <1>3, <1>5, <1>8, <2>4, <3>2 DEF InOrder, Tally
  <2> QED BY <2>3, <2>4
<1> QED BY <1>2, <1>4, <1>5, <1>6, <1>8, <1>9, <1>10, <1>11, <1>12, <1>13, <1>14, <1>15, <1>16
        DEF Making, Sound

(* An answer that keeps nothing in flight writes the slot that was asked, and an
   invalid one every slot that is still open.                                   *)
Answered(c, w, s, u, until) ==
    [c EXCEPT !.slot_w = w, !.slot_f = s, !.delay_used = u, !.delay_until = until]

Answers(c, f, w, s, u, until) ==
    /\ w \in SlotW /\ s \in SlotF /\ u \in BOOLEAN /\ until \in Nat
    /\ f = "W" => /\ w \in {"quiet", "delay", "invalid"}
                  /\ s = c.slot_f \/ (c.slot_f = "pending" /\ s = "invalid")
    /\ f = "F" => /\ s \in {"quiet", "delay", "invalid"}
                  /\ w = c.slot_w \/ (c.slot_w = "pending" /\ w = "invalid")
    /\ IF u THEN until >= DelayMoves ELSE until = 0

LEMMA AnsweredSound ==
  ASSUME NEW f \in Families, NEW a, NEW g, NEW c, Making(c, f, a, g),
         NEW w, NEW s, NEW u, NEW until, Answers(c, f, w, s, u, until)
  PROVE  LET e == Answered(c, w, s, u, until)
         IN  /\ Sound(e, "none") /\ Ended(c, e) /\ LevelOK(e) /\ InOrder(FinishUse(e), "none", a, g)
             /\ FinishUse(e).manifest_root = c.manifest_root
<1> DEFINE e == Answered(c, w, s, u, until)
<1> USE DEF Answers
<1>1. c \in Runtimes BY DEF Making, Sound
<1>2. /\ e.slot_w = w /\ e.slot_f = s /\ e.delay_used = u /\ e.delay_until = until
      /\ e.w_runtime = c.w_runtime /\ e.next_seq = c.next_seq
      /\ e.phase = c.phase /\ e.uses = c.uses /\ e.ring = c.ring /\ e.delivered = c.delivered
      /\ e.callback_ordinal = c.callback_ordinal /\ e.callback = c.callback
      /\ e.level_token = c.level_token /\ e.current = c.current /\ e.armed_level = c.armed_level
      /\ e.armed_m_id = c.armed_m_id /\ e.activation = c.activation
      /\ e.witnessed = c.witnessed /\ e.claimed = c.claimed
      /\ e.pending_w = c.pending_w /\ e.f_inflight = c.f_inflight
      /\ e.manifest_root = c.manifest_root
  BY <1>1 DEF Runtimes, Answered
<1>3. e \in Runtimes BY <1>1 DEF Runtimes, Answered
<1> HIDE DEF e
<1>4. Committed(e) /\ (Broad(e) <=> Broad(c)) /\ (Armed(e) <=> Armed(c)) /\ Committed(c)
  BY <1>2 DEF Committed, Broad, Armed, Making
<1>5. /\ Broad(c) => Slot(c, f) # "undeclared" /\ ~Armed(c)
      /\ ~Broad(c) => Slot(c, f) = "pending"
      /\ c.callback[f]
  BY DEF Making, Sound, CallsOK
<1>6. KindOK(e)
  <2>1. KindOK(c) BY DEF Making, Sound
  <2> QED BY <1>2, <1>4, <1>5, <2>1 DEF KindOK, Families, Slot
<1>7. WindowOK(e, "none")
  <2>1. WindowOK(c, f) BY DEF Making, Sound
  <2>2. CASE f = "W" BY <1>2, <2>1, <2>2 DEF WindowOK
  <2>3. CASE f = "F" BY <1>2, <2>1, <2>3 DEF WindowOK
  <2> QED BY <2>2, <2>3 DEF Families
<1>8. CallsOK(e, "none")
  <2>1. CallsOK(c, f) BY DEF Making, Sound
  <2>2. Called2(e) = Called2(c) BY <1>2 DEF Called2
  <2>3. CASE f = "W"
    BY <1>2, <1>4, <1>5, <2>1, <2>2, <2>3 DEF CallsOK, Families, Slot
  <2>4. CASE f = "F"
    BY <1>2, <1>4, <1>5, <2>1, <2>2, <2>4 DEF CallsOK, Families, Slot
  <2> QED BY <2>3, <2>4 DEF Families
<1>9. RowsOK(e, "none")
  <2>1. RowsOK(c, f) BY DEF Making, Sound
  <2>2. CASE Broad(c) BY <1>1, <1>2, <1>4, <2>1, <2>2, Typed DEF RowsOK, One
  <2>3. CASE ~Broad(c) /\ f = "W"
    BY <1>1, <1>2, <1>4, <1>5, <2>1, <2>3, Typed
    DEF RowsOK, WhistleRows, FountainRows, One, Slot
  <2>4. CASE ~Broad(c) /\ f = "F"
    BY <1>1, <1>2, <1>4, <1>5, <2>1, <2>4, Typed
    DEF RowsOK, WhistleRows, FountainRows, One, Slot
  <2> QED BY <2>2, <2>3, <2>4 DEF Families
<1>10. DelayOK(e) BY <1>2 DEF DelayOK
<1>11. Sound(e, "none") BY <1>3, <1>6, <1>7, <1>8, <1>9, <1>10 DEF Sound
<1>12. Ended(c, e)
  <2>1. Broad(c) \/ (c.slot_f = "applied" <=> e.slot_f = "applied")
    BY <1>2, <1>5 DEF Slot, Families
  <2> QED BY <1>2, <1>4, <2>1 DEF Ended
<1>13. LevelOK(e) BY <1>2, <1>4 DEF Making, LevelOK
<1>14. InOrder(FinishUse(e), "none", a, g) /\ FinishUse(e).manifest_root = c.manifest_root
  <2> DEFINE t == FinishUse(e)
  <2>1. Sound(t, "none") /\ Ends(e, t) /\ Settled(t) BY <1>11, FinishSound
  <2> HIDE DEF t
  <2>2. Ended(c, t) BY <1>12, <2>1, EndedTwice DEF Ends
  <2>3. Flight(c, "none") /\ Tally(c, a, g) BY DEF Making, Flight
  <2>4. Flight(t, "none") /\ Tally(t, a, g) BY <2>2, <2>3, EndedKeeps
  <2>5. LevelOK(t) BY <1>13, <2>1, EndsLevel
  <2> QED BY <2>1, <2>2, <2>4, <2>5 DEF InOrder, Ended, t
<1> QED BY <1>11, <1>12, <1>13, <1>14 DEF e

LEMMA QuietSound ==
  ASSUME NEW f \in Families, NEW a, NEW g, NEW c, Making(c, f, a, g)
  PROVE  LET e == FinishUse(SetSlot(c, f, "quiet"))
         IN  InOrder(e, "none", a, g) /\ e.manifest_root = c.manifest_root
<1>1. c \in Runtimes /\ DelayOK(c) BY DEF Making, Sound
<1>2. c.slot_w \in SlotW /\ c.slot_f \in SlotF /\ c.delay_used \in BOOLEAN /\ c.delay_until \in Nat
  BY <1>1, Typed, TypedFlags
<1>3. CASE f = "W"
  <2> DEFINE w == "quiet"
             e == Answered(c, w, c.slot_f, c.delay_used, c.delay_until)
  <2>1. SetSlot(c, f, "quiet") = e BY <1>1, <1>3 DEF SetSlot, Runtimes, Answered
  <2>2. Answers(c, f, w, c.slot_f, c.delay_used, c.delay_until)
    BY <1>1, <1>2, <1>3 DEF Answers, DelayOK, SlotW
  <2> QED BY <2>1, <2>2, AnsweredSound
<1>4. CASE f = "F"
  <2> DEFINE s == "quiet"
             e == Answered(c, c.slot_w, s, c.delay_used, c.delay_until)
  <2>1. SetSlot(c, f, "quiet") = e BY <1>1, <1>4 DEF SetSlot, Runtimes, Answered
  <2>2. Answers(c, f, c.slot_w, s, c.delay_used, c.delay_until)
    BY <1>1, <1>2, <1>4 DEF Answers, DelayOK, SlotF
  <2> QED BY <2>1, <2>2, AnsweredSound
<1> QED BY <1>3, <1>4 DEF Families

Delayed(c, f) ==
    SetSlot([c EXCEPT !.delay_used = TRUE, !.delay_until = now + DelayMoves], f, "delay")

LEMMA DelaySound ==
  ASSUME NEW f \in Families, NEW a, NEW g, NEW c, Making(c, f, a, g), now \in Nat
  PROVE  LET e == FinishUse(Delayed(c, f))
         IN  InOrder(e, "none", a, g) /\ e.manifest_root = c.manifest_root
<1> DEFINE until == now + DelayMoves
           used == TRUE
           d == [c EXCEPT !.delay_used = used, !.delay_until = until]
<1>1. c \in Runtimes /\ until \in Nat /\ until >= DelayMoves /\ used \in BOOLEAN /\ used
  BY NextUseAssumption DEF Making, Sound
<1>2. c.slot_w \in SlotW /\ c.slot_f \in SlotF BY <1>1, Typed
<1> HIDE DEF until, used, Delayed
<1>3. CASE f = "W"
  <2> DEFINE w == "delay"
             e == Answered(c, w, c.slot_f, used, until)
  <2>1. SetSlot(d, f, "delay") = e BY <1>1, <1>3 DEF SetSlot, Runtimes, Answered
  <2>2. Answers(c, f, w, c.slot_f, used, until)
    BY <1>1, <1>2, <1>3 DEF Answers, SlotW
  <2>3. InOrder(FinishUse(e), "none", a, g) /\ FinishUse(e).manifest_root = c.manifest_root
    BY <2>2, AnsweredSound
  <2> HIDE DEF e
  <2> QED BY <2>1, <2>3 DEF until, used, Delayed
<1>4. CASE f = "F"
  <2> DEFINE s == "delay"
             e == Answered(c, c.slot_w, s, used, until)
  <2>1. SetSlot(d, f, "delay") = e BY <1>1, <1>4 DEF SetSlot, Runtimes, Answered
  <2>2. Answers(c, f, c.slot_w, s, used, until)
    BY <1>1, <1>2, <1>4 DEF Answers, SlotF
  <2>3. InOrder(FinishUse(e), "none", a, g) /\ FinishUse(e).manifest_root = c.manifest_root
    BY <2>2, AnsweredSound
  <2> HIDE DEF e
  <2> QED BY <2>1, <2>3 DEF until, used, Delayed
<1> QED BY <1>3, <1>4 DEF Families

(* The invalid answer also ends the window that is open, and the program. *)
LEMMA InvalidSound ==
  ASSUME NEW f \in Families, NEW a, NEW g, NEW k, k \in Runtimes, Making(Row(k), f, a, g)
  PROVE  LET e == InvalidCallback(k, f)
         IN  InOrder(e, "none", a, g) /\ e.manifest_root = Row(k).manifest_root
<1> DEFINE c == Row(k)
           w == IF c.slot_w = "pending" \/ (Broad(c) /\ f = "W") THEN "invalid" ELSE c.slot_w
           s == IF c.slot_f = "pending" \/ (Broad(c) /\ f = "F") THEN "invalid" ELSE c.slot_f
           m == Answered(c, w, s, c.delay_used, c.delay_until)
           x == EndW(m, "invalid")
           e == AppendTermination(x)
<1>1. /\ c \in Runtimes /\ DelayOK(c)
      /\ Broad(c) => Slot(c, f) # "undeclared"
      /\ ~Broad(c) => Slot(c, f) = "pending"
  BY DEF Making, Sound, CallsOK
<1>2. c.slot_w \in SlotW /\ c.slot_f \in SlotF /\ c.delay_used \in BOOLEAN /\ c.delay_until \in Nat
  BY <1>1, Typed, TypedFlags
<1>3. InvalidCallback(k, f) = e
  <2>1. Broad(k) <=> Broad(c) BY DEF Broad, Row, Runtimes
  <2>2. m = [Row(k) EXCEPT
               !.slot_w = IF @ = "pending" \/ (Broad(k) /\ f = "W") THEN "invalid" ELSE @,
               !.slot_f = IF @ = "pending" \/ (Broad(k) /\ f = "F") THEN "invalid" ELSE @]
    <3> HIDE DEF c
    <3>1. m = [c EXCEPT !.slot_w = w, !.slot_f = s] BY <1>1 DEF Answered, Runtimes
    <3> QED BY <2>1, <3>1 DEF c
  <2> HIDE DEF m
  <2> QED BY <2>2 DEF InvalidCallback
<1>4. Making(c, f, a, g) OBVIOUS
<1> HIDE DEF c
<1>5. Answers(c, f, w, s, c.delay_used, c.delay_until)
  <2>1. w \in SlotW /\ s \in SlotF BY <1>2 DEF SlotW, SlotF
  <2>2. f = "W" => w = "invalid" /\ (s = c.slot_f \/ (c.slot_f = "pending" /\ s = "invalid"))
    BY <1>1 DEF Slot
  <2>3. f = "F" => s = "invalid" /\ (w = c.slot_w \/ (c.slot_w = "pending" /\ w = "invalid"))
    BY <1>1 DEF Slot
  <2> HIDE DEF w, s
  <2> QED BY <1>1, <1>2, <2>1, <2>2, <2>3 DEF Answers, DelayOK
<1> HIDE DEF w, s
<1>6. Sound(m, "none") /\ Ended(c, m) /\ LevelOK(m) BY <1>4, <1>5, AnsweredSound
<1> HIDE DEF m
<1>7. "invalid" \in DOMAIN WindowOutcome BY DEF WindowOutcome
<1>8. Sound(x, "none") /\ Ends(m, x) BY <1>6, <1>7, EndWindowSound
<1> HIDE DEF x
<1>9. Sound(e, "none") /\ Ends(x, e) /\ Settled(e) BY <1>8, TerminationSound
<1> HIDE DEF e
<1>10. Ended(c, e) BY <1>6, <1>8, <1>9, EndedTwice DEF Ends
<1>11. LevelOK(e) BY <1>6, <1>8, <1>9, EndsLevel
<1>12. Flight(c, "none") /\ Tally(c, a, g) BY <1>4 DEF Making, Flight
<1>13. Flight(e, "none") /\ Tally(e, a, g) BY <1>10, <1>12, EndedKeeps
<1> QED BY <1>3, <1>9, <1>10, <1>11, <1>13 DEF InOrder, Ended, c

(* Records that differ only in the handshakes a save does not carry, and in the mark
   of an unsafe identity.                                                       *)
Alike(r, e) ==
    /\ e.slot_w = r.slot_w /\ e.slot_f = r.slot_f /\ e.w_runtime = r.w_runtime
    /\ e.phase = r.phase /\ e.uses = r.uses /\ e.ring = r.ring
    /\ e.delivered = r.delivered /\ e.delay_used = r.delay_used /\ e.delay_until = r.delay_until
    /\ e.callback_ordinal = r.callback_ordinal /\ e.callback = r.callback
    /\ e.level_token = r.level_token /\ e.current = r.current /\ e.armed_level = r.armed_level
    /\ e.armed_m_id = r.armed_m_id /\ e.activation = r.activation
    /\ e.witnessed = r.witnessed /\ e.claimed = r.claimed /\ e.next_seq = r.next_seq

LEMMA AlikeSound ==
  ASSUME NEW r, NEW e, NEW busy, Sound(r, busy), e \in Runtimes, Alike(r, e)
  PROVE  /\ Sound(e, busy) /\ (Settled(r) => Settled(e)) /\ (LevelOK(r) => LevelOK(e))
         /\ \A a, g : Tally(r, a, g) => Tally(e, a, g)
         /\ (Committed(e) <=> Committed(r)) /\ (Armed(e) <=> Armed(r))
<1> USE DEF Alike
<1>1. r \in Runtimes BY DEF Sound
<1>2. /\ (Committed(e) <=> Committed(r)) /\ (Broad(e) <=> Broad(r)) /\ (Armed(e) <=> Armed(r))
      /\ (SlotsTerminal(e) <=> SlotsTerminal(r))
  BY DEF Committed, Broad, Armed, SlotsTerminal
<1>3. KindOK(e) BY <1>2 DEF Sound, KindOK
<1>4. WindowOK(e, busy) BY DEF Sound, WindowOK
<1>5. CallsOK(e, busy)
  <2>1. \A f : Slot(e, f) = Slot(r, f) BY DEF Slot
  <2>2. Called2(e) = Called2(r) BY DEF Called2
  <2> QED BY <1>2, <2>1, <2>2 DEF Sound, CallsOK
<1>6. RowsOK(e, busy)
  BY <1>1, <1>2, Typed DEF Sound, RowsOK, WhistleRows, FountainRows, One
<1>7. DelayOK(e) BY DEF Sound, DelayOK
<1>8. (Settled(r) => Settled(e)) /\ (LevelOK(r) => LevelOK(e))
  BY <1>2 DEF Settled, LevelOK
<1>9. \A a, g : Tally(r, a, g) => Tally(e, a, g) BY <1>2 DEF Tally
<1> QED BY <1>2, <1>3, <1>4, <1>5, <1>6, <1>7, <1>8, <1>9 DEF Sound

LEMMA ActSound ==
  ASSUME NEW f \in Families, NEW a, NEW g, NEW c, Making(c, f, a, g)
  PROVE  LET e == IF f = "W" THEN [c EXCEPT !.pending_w = TRUE] ELSE [c EXCEPT !.f_inflight = TRUE]
         IN  InOrder(e, f, a, g) /\ Committed(e) /\ e.manifest_root = c.manifest_root
<1>1. c \in Runtimes BY DEF Making, Sound
<1>2. CASE f = "W"
  <2> DEFINE e == [c EXCEPT !.pending_w = TRUE]
  <2>1. /\ e.pending_w = TRUE /\ e.f_inflight = c.f_inflight /\ e.manifest_root = c.manifest_root
        /\ Alike(c, e) /\ e \in Runtimes
    BY <1>1 DEF Runtimes, Alike
  <2> HIDE DEF e
  <2>2. Flight(e, "W") BY <2>1 DEF Making, Flight
  <2>3. Sound(e, "W") /\ Settled(e) /\ LevelOK(e) /\ Tally(e, a, g) /\ Committed(e)
    BY <1>2, <2>1, AlikeSound DEF Making
  <2> QED BY <1>2, <2>1, <2>2, <2>3 DEF InOrder, e
<1>3. CASE f = "F"
  <2> DEFINE e == [c EXCEPT !.f_inflight = TRUE]
  <2>1. /\ e.f_inflight = TRUE /\ e.pending_w = c.pending_w /\ e.manifest_root = c.manifest_root
        /\ Alike(c, e) /\ e \in Runtimes
    BY <1>1 DEF Runtimes, Alike
  <2> HIDE DEF e
  <2>2. Flight(e, "F") BY <2>1 DEF Making, Flight
  <2>3. Sound(e, "F") /\ Settled(e) /\ LevelOK(e) /\ Tally(e, a, g) /\ Committed(e)
    BY <1>3, <2>1, AlikeSound DEF Making
  <2> QED BY <1>3, <2>1, <2>2, <2>3 DEF InOrder, e
<1> QED BY <1>2, <1>3 DEF Families

(* The answer leaves the program at rest, or with this use in flight. *)
Replied(e, f, a, g) ==
    \/ InOrder(e, "none", a, g)
    \/ InOrder(e, f, a, g) /\ Committed(e)

LEMMA AnswerSound ==
  ASSUME NEW f \in Families, NEW a, NEW g, NEW k \in Runtimes, Making(Row(k), f, a, g),
         NEW intent \in Intents, now \in Nat
  PROVE  LET e == Answer(k, f, intent)
         IN  Replied(e, f, a, g) /\ e.manifest_root = Row(k).manifest_root
<1> DEFINE c == Row(k)
<1>1. CASE intent = "fail" \/ (intent = "delay" /\ k.delay_used)
  <2>1. Answer(k, f, intent) = InvalidCallback(k, f) BY <1>1 DEF Answer
  <2> QED BY <2>1, InvalidSound DEF Replied
<1>2. CASE intent = "quiet"
  <2>1. Answer(k, f, intent) = FinishUse(SetSlot(c, f, "quiet")) BY <1>2 DEF Answer
  <2> HIDE DEF c
  <2>2. InOrder(FinishUse(SetSlot(c, f, "quiet")), "none", a, g)
        /\ FinishUse(SetSlot(c, f, "quiet")).manifest_root = c.manifest_root
    BY QuietSound DEF c
  <2> QED BY <2>1, <2>2 DEF Replied, c
<1>3. CASE intent = "delay" /\ ~k.delay_used
  <2> DEFINE d == FinishUse(Delayed(c, f))
  <2>1. Answer(k, f, intent) = d BY <1>3 DEF Answer, Delayed
  <2>2. Making(c, f, a, g) OBVIOUS
  <2> HIDE DEF c
  <2>3. InOrder(d, "none", a, g) /\ d.manifest_root = c.manifest_root BY <2>2, DelaySound
  <2> HIDE DEF d
  <2> QED BY <2>1, <2>3 DEF Replied, c
<1>4. CASE intent = "act"
  <2> DEFINE d == IF f = "W" THEN [c EXCEPT !.pending_w = TRUE] ELSE [c EXCEPT !.f_inflight = TRUE]
  <2>1. Answer(k, f, intent) = d BY <1>4 DEF Answer
  <2>2. InOrder(d, f, a, g) /\ Committed(d) /\ d.manifest_root = c.manifest_root BY ActSound
  <2> HIDE DEF d
  <2> QED BY <2>1, <2>2 DEF Replied
<1> QED BY <1>1, <1>2, <1>3, <1>4 DEF Intents

More(r, f, a) == IF Ready(BeforeCall(r), f) THEN [a EXCEPT ![f] = @ + 1] ELSE a

LEMMA OnActionSound ==
  ASSUME NEW f \in Families, NEW a \in [Families -> Nat], NEW g \in [Families -> Nat],
         NEW r, InOrder(r, "none", a, g), NEW intent \in Intents, now \in Nat
  PROVE  LET e == OnAction(r, f, intent)
             more == More(r, f, a)
         IN  /\ Replied(e, f, more, g) /\ e.manifest_root = r.manifest_root
             /\ InOrder(e, f, more, g) => now < Lifetime
             /\ ~Committed(r) => e = r
<1> DEFINE b == BeforeCall(r)
           more == IF Ready(b, f) THEN [a EXCEPT ![f] = @ + 1] ELSE a
           e == OnAction(r, f, intent)
<1>1. AtRest(b) /\ Ended(r, b) /\ (Committed(b) => now < Lifetime) /\ (~Committed(r) => b = r)
  BY BeforeCallRests DEF InOrder, AtRest
<1>2. InOrder(b, "none", a, g) BY <1>1, EndedInOrder
<1>3. b.manifest_root = r.manifest_root BY <1>1 DEF Ended
<1>4. e = IF Ready(b, f) THEN Answer(Called(b, f), f, intent) ELSE b BY DEF OnAction
<1>5. InOrder(b, f, a, g) => FALSE
  BY <1>2 DEF InOrder, Flight, Families
<1>6. More(r, f, a) = more BY DEF More
<1> HIDE DEF b
<1>7. CASE ~Ready(b, f)
  BY <1>1, <1>2, <1>3, <1>4, <1>5, <1>6, <1>7 DEF Replied, b
<1>8. CASE Ready(b, f)
  <2> DEFINE k == Called(b, f)
  <2>1. Making(Row(k), f, more, g) /\ Row(k).manifest_root = b.manifest_root
    BY <1>2, <1>8, CallSound
  <2>2. k \in Runtimes BY <1>2, <1>8, CalledTyped DEF InOrder, Sound
  <2>3. e = Answer(k, f, intent) BY <1>4, <1>8
  <2>4. Committed(b) BY <1>8 DEF Ready, FamilyOpen
  <2> HIDE DEF k, more, e
  <2>5. Replied(e, f, more, g) /\ e.manifest_root = Row(k).manifest_root
    BY <2>1, <2>2, <2>3, AnswerSound
  <2> QED BY <1>1, <1>3, <1>6, <2>1, <2>4, <2>5 DEF Ended, more, e, b
<1> QED BY <1>7, <1>8

-----------------------------------------------------------------------------
(* What comes of a use *)

(* A use is over once FinishUse has seen its record. *)
LEMMA FinishInOrder ==
  ASSUME NEW e, NEW a, NEW g, Sound(e, "none"), LevelOK(e), Flight(e, "none"), Tally(e, a, g)
  PROVE  InOrder(FinishUse(e), "none", a, g) /\ FinishUse(e).manifest_root = e.manifest_root
<1> DEFINE t == FinishUse(e)
<1>1. Sound(t, "none") /\ Ends(e, t) /\ Settled(t) BY FinishSound
<1> HIDE DEF t
<1>2. LevelOK(t) /\ Ended(e, t) BY <1>1, EndsLevel DEF Ends
<1>3. Flight(t, "none") /\ Tally(t, a, g) BY <1>2, EndedKeeps
<1> QED BY <1>1, <1>2, <1>3 DEF InOrder, Ended, t

(* A whistle that found no companion, and a ring that was held back or rang. *)
Resolved(r, w, d) == [Row(r) EXCEPT !.pending_w = FALSE, !.slot_w = w, !.delivered = d]

Resolves(r, busy, w, d, g, h) ==
    /\ Committed(r)
    /\ busy = "none" => ~Broad(r) /\ r.slot_w = "pending"
    /\ \/ w = "suppressed" /\ d = r.delivered /\ h = g
       \/ /\ w = "rang" /\ r.ring /\ busy = "W" /\ d = r.delivered + 1
          /\ h["W"] = g["W"] + 1 /\ h["F"] = g["F"]

LEMMA ResolvedSound ==
  ASSUME NEW busy \in {"none", "W"}, NEW a, NEW g \in [Families -> Nat], NEW r, InOrder(r, busy, a, g),
         NEW w, NEW d, NEW h \in [Families -> Nat], Resolves(r, busy, w, d, g, h)
  PROVE  LET e == Resolved(r, w, d)
         IN  InOrder(FinishUse(e), "none", a, h) /\ FinishUse(e).manifest_root = r.manifest_root
<1> DEFINE n == r.next_seq + 1
           e == [r EXCEPT !.next_seq = n, !.pending_w = FALSE, !.slot_w = w, !.delivered = d]
<1>1. r \in Runtimes /\ n \in Nat BY Typed DEF InOrder, Sound
<1>2. Resolved(r, w, d) = e BY <1>1 DEF Resolved, Row, Runtimes
<1> USE DEF Resolves
<1>3. /\ Broad(r) => r.delivered < r.uses /\ ~Armed(r)
      /\ ~Broad(r) => r.slot_w = "pending" /\ w = "suppressed"
      /\ busy = "W" => r.callback["W"]
      /\ w = "rang" => Broad(r)
      /\ r.w_runtime = "inactive"
  <2>1. CASE busy = "W"
    BY <2>1 DEF InOrder, Sound, CallsOK, KindOK, WindowOK, Families, Slot
  <2>2. CASE busy = "none" BY <2>2 DEF InOrder, Sound, WindowOK
  <2> QED BY <2>1, <2>2
<1>4. w \in SlotW /\ d \in 0..2 /\ w \in {"suppressed", "rang"}
  BY <1>1, <1>3, Typed DEF SlotW
<1> HIDE DEF n
<1>5. /\ e.next_seq = n /\ e.pending_w = FALSE /\ e.slot_w = w /\ e.delivered = d
      /\ e.slot_f = r.slot_f /\ e.w_runtime = r.w_runtime
      /\ e.phase = r.phase /\ e.uses = r.uses /\ e.ring = r.ring
      /\ e.delay_used = r.delay_used /\ e.delay_until = r.delay_until
      /\ e.callback_ordinal = r.callback_ordinal /\ e.callback = r.callback
      /\ e.level_token = r.level_token /\ e.current = r.current /\ e.armed_level = r.armed_level
      /\ e.armed_m_id = r.armed_m_id /\ e.activation = r.activation
      /\ e.witnessed = r.witnessed /\ e.claimed = r.claimed
      /\ e.f_inflight = r.f_inflight /\ e.manifest_root = r.manifest_root
  BY <1>1 DEF Runtimes
<1>6. e \in Runtimes BY <1>1, <1>4 DEF Runtimes
<1> HIDE DEF e
<1> USE DEF n
<1>7. Committed(e) /\ (Broad(e) <=> Broad(r)) /\ ~Armed(e) /\ ~Armed(r)
  BY <1>3, <1>5 DEF Committed, Broad, Armed
<1>8. KindOK(e)
  BY <1>1, <1>3, <1>4, <1>5, <1>7, Typed DEF InOrder, Sound, KindOK
<1>9. WindowOK(e, "none")
  BY <1>3, <1>4, <1>5 DEF InOrder, Sound, WindowOK
<1>10. CallsOK(e, "none")
  <2>1. CallsOK(r, busy) BY DEF InOrder, Sound
  <2>2. Called2(e) = Called2(r) BY <1>5 DEF Called2
  <2> QED BY <1>3, <1>4, <1>5, <1>7, <2>1, <2>2 DEF CallsOK, Families, Slot
<1>11. RowsOK(e, "none")
  <2>1. RowsOK(r, busy) BY DEF InOrder, Sound
  <2>2. CASE Broad(r)
    BY <1>1, <1>3, <1>4, <1>5, <1>7, <2>1, <2>2, Typed DEF RowsOK, One
  <2>3. CASE ~Broad(r)
    BY <1>1, <1>3, <1>4, <1>5, <1>7, <2>1, <2>3, Typed
    DEF RowsOK, WhistleRows, FountainRows, One
  <2> QED BY <2>2, <2>3
<1>12. DelayOK(e) BY <1>5 DEF InOrder, Sound, DelayOK
<1>13. Sound(e, "none") BY <1>6, <1>8, <1>9, <1>10, <1>11, <1>12 DEF Sound
<1>14. LevelOK(e) BY <1>5, <1>7 DEF InOrder, LevelOK
<1>15. Flight(e, "none") BY <1>5 DEF InOrder, Flight
<1>16. Tally(e, a, h)
  <2>1. Tally(r, a, g) BY DEF InOrder
  <2>2. g["W"] \in Nat /\ g["F"] \in Nat /\ h["W"] \in Nat /\ h["F"] \in Nat BY DEF Families
  <2>3. CASE Broad(r)
    BY <1>1, <1>4, <1>5, <1>7, <2>1, <2>2, <2>3, Typed DEF Tally
  <2>4. CASE ~Broad(r) BY <1>3, <1>5, <1>7, <2>1, <2>4 DEF Tally
  <2> QED BY <2>3, <2>4
<1> QED BY <1>2, <1>5, <1>13, <1>14, <1>15, <1>16, FinishInOrder

LEMMA SuppressedSound ==
  ASSUME NEW busy \in {"none", "W"}, NEW a, NEW g \in [Families -> Nat], NEW r, InOrder(r, busy, a, g)
  PROVE  LET e == Suppressed(r)
         IN  /\ InOrder(e, "none", a, g) /\ e.manifest_root = r.manifest_root
             /\ ~Committed(r) => e = r
<1> DEFINE e == [Row(r) EXCEPT !.pending_w = FALSE, !.slot_w = "suppressed"]
<1>1. r \in Runtimes BY DEF InOrder, Sound
<1>2. CASE ~(Committed(r) /\ (IF Broad(r) THEN r.pending_w ELSE r.slot_w = "pending"))
  <2>1. Suppressed(r) = r BY <1>2 DEF Suppressed
  <2>2. busy = "none"
    BY <1>2 DEF InOrder, Sound, CallsOK, Flight, Slot, Families
  <2> QED BY <2>1, <2>2
<1>3. CASE Committed(r) /\ (IF Broad(r) THEN r.pending_w ELSE r.slot_w = "pending")
  <2> DEFINE w == "suppressed"
             d == r.delivered
             q == Resolved(r, w, d)
  <2>1. e = q BY <1>1 DEF Resolved, Row, Runtimes
  <2>2. busy = "none" => ~Broad(r) /\ r.slot_w = "pending" BY <1>3 DEF InOrder, Flight
  <2>3. InOrder(FinishUse(q), "none", a, g) /\ FinishUse(q).manifest_root = r.manifest_root
    <3>1. Resolves(r, busy, w, d, g, g) BY <1>3, <2>2 DEF Resolves
    <3> QED BY <3>1, ResolvedSound
  <2>4. Suppressed(r) = FinishUse(e) BY <1>3 DEF Suppressed
  <2> HIDE DEF q, e
  <2> QED BY <1>3, <2>1, <2>3, <2>4
<1> QED BY <1>2, <1>3

LEMMA RingSound ==
  ASSUME NEW a, NEW g \in [Families -> Nat], NEW r, InOrder(r, "W", a, g), r.ring,
         NEW guarded \in BOOLEAN
  PROVE  LET e == Ring(r, guarded)
             h == IF guarded THEN g ELSE [g EXCEPT !["W"] = @ + 1]
         IN  InOrder(e, "none", a, h) /\ e.manifest_root = r.manifest_root
<1>1. r \in Runtimes BY DEF InOrder, Sound
<1>2. Committed(r) BY DEF InOrder, Sound, CallsOK, Families
<1>3. CASE guarded
  <2> DEFINE w == "suppressed"
             d == r.delivered
             q == Resolved(r, w, d)
  <2>1. [Row(r) EXCEPT !.pending_w = FALSE, !.slot_w = "suppressed"] = q
    BY <1>1 DEF Resolved, Row, Runtimes
  <2>2. InOrder(FinishUse(q), "none", a, g) /\ FinishUse(q).manifest_root = r.manifest_root
    <3>1. Resolves(r, "W", w, d, g, g) BY <1>2 DEF Resolves
    <3> QED BY <3>1, ResolvedSound
  <2>3. Ring(r, guarded) = FinishUse(q) BY <1>3, <2>1 DEF Ring
  <2> HIDE DEF q
  <2> QED BY <1>3, <2>2, <2>3
<1>4. CASE ~guarded
  <2> DEFINE w == "rang"
             d == r.delivered + 1
             h == [g EXCEPT !["W"] = @ + 1]
             q == Resolved(r, w, d)
  <2>1. [Row(r) EXCEPT !.pending_w = FALSE, !.slot_w = "rang", !.delivered = @ + 1] = q
    BY <1>1 DEF Resolved, Row, Runtimes
  <2>2. h \in [Families -> Nat] /\ h["W"] = g["W"] + 1 /\ h["F"] = g["F"] BY DEF Families
  <2>3. InOrder(FinishUse(q), "none", a, h) /\ FinishUse(q).manifest_root = r.manifest_root
    <3> HIDE DEF h
    <3>1. Resolves(r, "W", w, d, g, h) BY <1>2, <2>2 DEF Resolves
    <3> QED BY <2>2, <3>1, ResolvedSound
  <2>4. Ring(r, guarded) = FinishUse(q) BY <1>4, <2>1 DEF Ring
  <2> HIDE DEF q
  <2> QED BY <1>4, <2>3, <2>4
<1> QED BY <1>3, <1>4

LEMMA CaptureSound ==
  ASSUME NEW a, NEW g \in [Families -> Nat], NEW r, InOrder(r, "W", a, g), ~r.ring,
         now \in Nat, now < Lifetime
  PROVE  LET e == Capture(r)
         IN  InOrder(e, "none", a, g) /\ e.manifest_root = r.manifest_root
<1> DEFINE n == r.next_seq + 1
           al == IF Broad(r) THEN r.current ELSE 0
           e == [r EXCEPT !.next_seq = n, !.pending_w = FALSE, !.slot_w = "armed",
                          !.w_runtime = "armed", !.armed_m_id = TRUE, !.activation = now,
                          !.armed_level = al, !.witnessed = FALSE, !.claimed = FALSE,
                          !.expected_m_id = FALSE]
<1>1. r \in Runtimes /\ n \in Nat /\ al \in Levels \cup {0}
  BY Typed DEF InOrder, Sound
<1>2. Capture(r) = e
  <2>1. Broad(Row(r)) <=> Broad(r) BY <1>1 DEF Broad, Row, Runtimes
  <2> QED BY <1>1, <2>1 DEF Capture, Row, Runtimes
<1>3. /\ Committed(r) /\ r.callback["W"] /\ r.w_runtime = "inactive" /\ ~r.witnessed
      /\ Broad(r) => r.delivered < r.uses
      /\ ~Broad(r) => r.slot_w = "pending"
      /\ Broad(r) => al # 0
  BY <1>1, NextUseAssumption, Typed
  DEF InOrder, Sound, CallsOK, WindowOK, Families, Slot
<1>4. ~Broad(r) => al = 0 OBVIOUS
<1>5. Broad(r) => al = r.current OBVIOUS
<1> HIDE DEF n, al
<1>6. /\ e.next_seq = n /\ e.pending_w = FALSE /\ e.slot_w = "armed" /\ e.w_runtime = "armed"
      /\ e.armed_m_id = TRUE /\ e.activation = now /\ e.armed_level = al
      /\ e.witnessed = FALSE /\ e.claimed = FALSE
      /\ e.delivered = r.delivered /\ e.slot_f = r.slot_f
      /\ e.phase = r.phase /\ e.uses = r.uses /\ e.ring = r.ring
      /\ e.delay_used = r.delay_used /\ e.delay_until = r.delay_until
      /\ e.callback_ordinal = r.callback_ordinal /\ e.callback = r.callback
      /\ e.level_token = r.level_token /\ e.current = r.current
      /\ e.f_inflight = r.f_inflight /\ e.manifest_root = r.manifest_root
  BY <1>1 DEF Runtimes
<1>7. e \in Runtimes BY <1>1 DEF Runtimes, SlotW, WRuntime
<1> HIDE DEF e
<1> USE DEF n
<1>8. Committed(e) /\ (Broad(e) <=> Broad(r)) /\ Armed(e) /\ ~Armed(r)
  BY <1>3, <1>6 DEF Committed, Broad, Armed
<1>9. KindOK(e) BY <1>3, <1>4, <1>6, <1>8 DEF InOrder, Sound, KindOK
<1>10. WindowOK(e, "none") BY <1>6 DEF WindowOK
<1>11. CallsOK(e, "none")
  <2>1. CallsOK(r, "W") BY DEF InOrder, Sound
  <2>2. Called2(e) = Called2(r) BY <1>6 DEF Called2
  <2> QED BY <1>3, <1>6, <1>8, <2>1, <2>2 DEF CallsOK, Families, Slot
<1>12. RowsOK(e, "none")
  <2>1. RowsOK(r, "W") BY DEF InOrder, Sound
  <2>2. CASE Broad(r)
    BY <1>1, <1>3, <1>6, <1>8, <2>1, <2>2, Typed DEF RowsOK, One
  <2>3. CASE ~Broad(r)
    BY <1>1, <1>3, <1>6, <1>8, <2>1, <2>3, Typed DEF RowsOK, WhistleRows, FountainRows, One
  <2> QED BY <2>2, <2>3
<1>13. DelayOK(e) BY <1>6 DEF InOrder, Sound, DelayOK
<1>14. Settled(e) /\ LevelOK(e)
  <2>1. Settled(e) BY <1>8 DEF Settled, SlotsTerminal
  <2>2. CASE Broad(r) BY <1>5, <1>6, <1>8, <2>1, <2>2 DEF LevelOK
  <2>3. CASE ~Broad(r) BY <1>3, <1>6, <1>8, <2>1, <2>3 DEF InOrder, LevelOK
  <2> QED BY <2>1, <2>2, <2>3
<1>15. Flight(e, "none") BY <1>6 DEF InOrder, Flight
<1>16. Tally(e, a, g)
  <2>1. Tally(r, a, g) BY DEF InOrder
  <2>2. One(r.witnessed = TRUE) = One(e.witnessed = TRUE) BY <1>3, <1>6 DEF One
  <2> QED BY <1>6, <1>8, <2>1, <2>2 DEF Tally
<1> QED BY <1>2, <1>6, <1>7, <1>9, <1>10, <1>11, <1>12, <1>13, <1>14, <1>15, <1>16
        DEF InOrder, Sound

LEMMA FountainSound ==
  ASSUME NEW a, NEW g \in [Families -> Nat], NEW r, InOrder(r, "F", a, g),
         NEW outcome \in DOMAIN FountainSlot
  PROVE  LET e == FountainResult(r, outcome)
             h == IF outcome = "remapped" THEN [g EXCEPT !["F"] = @ + 1] ELSE g
         IN  InOrder(e, "none", a, h) /\ e.manifest_root = r.manifest_root
<1> DEFINE n == r.next_seq + 1
           s == FountainSlot[outcome]
           d == r.delivered + (IF outcome = "remapped" /\ Broad(r) THEN 1 ELSE 0)
           e == [r EXCEPT !.next_seq = n, !.slot_f = s, !.f_inflight = FALSE, !.delivered = d]
           h == IF outcome = "remapped" THEN [g EXCEPT !["F"] = @ + 1] ELSE g
<1>1. r \in Runtimes /\ n \in Nat /\ r.delivered \in 0..2 /\ r.uses \in 0..2
  BY Typed DEF InOrder, Sound
<1>2. FountainResult(r, outcome) = FinishUse(e)
  <2>1. Broad(Row(r)) <=> Broad(r) BY <1>1 DEF Broad, Row, Runtimes
  <2>2. e = [Row(r) EXCEPT !.slot_f = s, !.f_inflight = FALSE, !.delivered = d]
    <3> HIDE DEF s, d
    <3> QED BY <1>1 DEF Row, Runtimes
  <2>3. Row(r).delivered = r.delivered BY <1>1 DEF Row, Runtimes
  <2>4. [Row(r) EXCEPT !.slot_f = FountainSlot[outcome], !.f_inflight = FALSE,
                       !.delivered = @ + (IF outcome = "remapped" /\ Broad(r) THEN 1 ELSE 0)] = e
    BY <2>2, <2>3
  <2> HIDE DEF e
  <2> QED BY <2>4 DEF FountainResult
<1>3. /\ Broad(r) => r.delivered < r.uses /\ ~Armed(r) /\ r.slot_f # "undeclared"
      /\ ~Broad(r) => r.slot_f = "pending" /\ r.delivered = 0
      /\ Committed(r) /\ r.callback["F"]
  BY DEF InOrder, Sound, CallsOK, KindOK, Families, Slot
<1>4. /\ s \in {"applied", "nonremappable"} /\ s \in SlotF
      /\ s = "applied" <=> outcome = "remapped"
  BY DEF FountainSlot, SlotF
<1>5. /\ d \in 0..2 /\ d >= r.delivered
      /\ Broad(r) => d <= r.uses /\ (outcome = "remapped" => d = r.delivered + 1)
      /\ ~Broad(r) => d = 0
  BY <1>1, <1>3
<1>6. /\ h \in [Families -> Nat] /\ h["W"] = g["W"]
      /\ outcome = "remapped" => h["F"] = g["F"] + 1
      /\ outcome # "remapped" => h["F"] = g["F"]
      /\ g["W"] \in Nat /\ g["F"] \in Nat
  BY DEF Families
<1> HIDE DEF n, s, d, h
<1>7. /\ e.next_seq = n /\ e.slot_f = s /\ e.f_inflight = FALSE /\ e.delivered = d
      /\ e.slot_w = r.slot_w /\ e.w_runtime = r.w_runtime /\ e.pending_w = r.pending_w
      /\ e.phase = r.phase /\ e.uses = r.uses /\ e.ring = r.ring
      /\ e.delay_used = r.delay_used /\ e.delay_until = r.delay_until
      /\ e.callback_ordinal = r.callback_ordinal /\ e.callback = r.callback
      /\ e.level_token = r.level_token /\ e.current = r.current /\ e.armed_level = r.armed_level
      /\ e.armed_m_id = r.armed_m_id /\ e.activation = r.activation
      /\ e.witnessed = r.witnessed /\ e.claimed = r.claimed
      /\ e.manifest_root = r.manifest_root
  BY <1>1 DEF Runtimes
<1>8. e \in Runtimes BY <1>1, <1>4, <1>5 DEF Runtimes
<1> HIDE DEF e
<1> USE DEF n
<1>9. Committed(e) /\ (Broad(e) <=> Broad(r)) /\ (Armed(e) <=> Armed(r))
  BY <1>3, <1>7 DEF Committed, Broad, Armed
<1>10. KindOK(e)
  <2>1. KindOK(r) BY DEF InOrder, Sound
  <2>2. ~r.ring BY <1>3, <2>1 DEF KindOK
  <2>3. Armed(e) => ~Broad(e) BY <1>3, <1>9
  <2> QED BY <1>3, <1>5, <1>7, <1>9, <2>1, <2>2, <2>3 DEF KindOK
<1>11. WindowOK(e, "none") BY <1>7 DEF InOrder, Sound, WindowOK
<1>12. CallsOK(e, "none")
  <2>1. CallsOK(r, "F") BY DEF InOrder, Sound
  <2>2. Called2(e) = Called2(r) BY <1>7 DEF Called2
  <2> QED BY <1>3, <1>4, <1>7, <1>9, <2>1, <2>2 DEF CallsOK, Families, Slot
<1>13. RowsOK(e, "none")
  <2>1. RowsOK(r, "F") BY DEF InOrder, Sound
  <2>2. CASE Broad(r)
    BY <1>1, <1>3, <1>5, <1>7, <1>9, <2>1, <2>2, Typed DEF RowsOK, One
  <2>3. CASE ~Broad(r)
    BY <1>1, <1>3, <1>4, <1>7, <1>9, <2>1, <2>3, Typed
    DEF RowsOK, WhistleRows, FountainRows, One
  <2> QED BY <2>2, <2>3
<1>14. DelayOK(e) BY <1>7 DEF InOrder, Sound, DelayOK
<1>15. Sound(e, "none") BY <1>8, <1>10, <1>11, <1>12, <1>13, <1>14 DEF Sound
<1>16. LevelOK(e)
  <2>1. CASE Broad(r) BY <1>3, <1>9, <2>1 DEF LevelOK
  <2>2. CASE ~Broad(r) BY <1>3, <1>7, <1>9, <2>2 DEF InOrder, LevelOK
  <2> QED BY <2>1, <2>2
<1>17. Flight(e, "none") BY <1>7 DEF InOrder, Flight
<1>18. Tally(e, a, h)
  <2>1. Tally(r, a, g) BY DEF InOrder
  <2>2. CASE Broad(r)
    BY <1>1, <1>5, <1>6, <1>7, <1>9, <2>1, <2>2 DEF Tally
  <2>3. CASE ~Broad(r)
    <3>1. g["F"] = 0 BY <1>3, <1>6, <2>1, <2>3 DEF Tally, One
    <3>2. h["F"] <= One(s = "applied") BY <1>4, <1>6, <3>1 DEF One
    <3> QED BY <1>6, <1>7, <1>9, <2>1, <2>3, <3>2 DEF Tally
  <2> QED BY <2>2, <2>3
<1>19. InOrder(FinishUse(e), "none", a, h) /\ FinishUse(e).manifest_root = e.manifest_root
  BY <1>15, <1>16, <1>17, <1>18, FinishInOrder
<1> QED BY <1>2, <1>7, <1>19 DEF h

-----------------------------------------------------------------------------
(* The companion's move *)

(* Its attention is taken, with or without a root to expect. *)
Claimed(r, x) == [r EXCEPT !.claimed = TRUE, !.expected_m_id = x]

LEMMA ClaimSound ==
  ASSUME NEW a, NEW g, NEW r, InOrder(r, "none", a, g), Armed(r), NEW x, x \in BOOLEAN
  PROVE  LET e == Claimed(r, x)
         IN  /\ InOrder(e, "none", a, g) /\ e.manifest_root = r.manifest_root /\ Armed(e)
             /\ e.claimed /\ e.witnessed = r.witnessed /\ e.activation = r.activation
             /\ x => e.expected_m_id
<1> DEFINE e == Claimed(r, x)
<1>1. r \in Runtimes BY DEF InOrder, Sound
<1>2. /\ e.claimed = TRUE /\ e.expected_m_id = x
      /\ e.slot_w = r.slot_w /\ e.slot_f = r.slot_f /\ e.w_runtime = r.w_runtime
      /\ e.phase = r.phase /\ e.uses = r.uses /\ e.ring = r.ring
      /\ e.delivered = r.delivered /\ e.delay_used = r.delay_used /\ e.delay_until = r.delay_until
      /\ e.callback_ordinal = r.callback_ordinal /\ e.callback = r.callback
      /\ e.level_token = r.level_token /\ e.current = r.current /\ e.armed_level = r.armed_level
      /\ e.armed_m_id = r.armed_m_id /\ e.activation = r.activation
      /\ e.witnessed = r.witnessed /\ e.next_seq = r.next_seq
      /\ e.pending_w = r.pending_w /\ e.f_inflight = r.f_inflight
      /\ e.manifest_root = r.manifest_root
  BY <1>1 DEF Runtimes, Claimed
<1>3. e \in Runtimes BY <1>1 DEF Runtimes, Claimed
<1> HIDE DEF e
<1>4. /\ (Committed(e) <=> Committed(r)) /\ (Broad(e) <=> Broad(r)) /\ Armed(e)
      /\ (SlotsTerminal(e) <=> SlotsTerminal(r))
  BY <1>2 DEF Committed, Broad, Armed, SlotsTerminal
<1>5. ~r.ring BY DEF InOrder, Sound, KindOK, Armed
<1>6. KindOK(e) BY <1>2, <1>4, <1>5 DEF InOrder, Sound, KindOK
<1>7. WindowOK(e, "none") BY <1>2 DEF InOrder, Sound, WindowOK, Armed
<1>8. CallsOK(e, "none")
  <2>1. CallsOK(r, "none") BY DEF InOrder, Sound
  <2>2. \A f : Slot(e, f) = Slot(r, f) BY <1>2 DEF Slot
  <2>3. Called2(e) = Called2(r) BY <1>2 DEF Called2
  <2> QED BY <1>2, <1>4, <2>1, <2>2, <2>3 DEF CallsOK
<1>9. RowsOK(e, "none")
  BY <1>1, <1>2, <1>4, Typed DEF InOrder, Sound, RowsOK, WhistleRows, FountainRows, One
<1>10. DelayOK(e) BY <1>2 DEF InOrder, Sound, DelayOK
<1>11. Settled(e) BY <1>4 DEF InOrder, Settled
<1>12. LevelOK(e)
  <2>1. LevelOK(r) BY DEF InOrder
  <2> QED BY <1>2, <1>4, <2>1 DEF LevelOK
<1>13. Flight(e, "none") BY <1>2 DEF InOrder, Flight
<1>14. Tally(e, a, g) BY <1>2, <1>4 DEF InOrder, Tally
<1> QED BY <1>2, <1>3, <1>4, <1>6, <1>7, <1>8, <1>9, <1>10, <1>11, <1>12, <1>13, <1>14
        DEF InOrder, Sound, e

LEMMA NoRootSound ==
  ASSUME NEW a, NEW g, NEW r, InOrder(r, "none", a, g), Armed(r)
  PROVE  InOrder(NoRoot(r), "none", a, g) /\ NoRoot(r).manifest_root = r.manifest_root
<1> DEFINE x == r.expected_m_id
           e == Claimed(r, x)
<1>1. r \in Runtimes /\ x \in BOOLEAN BY TypedFlags DEF InOrder, Sound
<1>2. [r EXCEPT !.claimed = TRUE] = e BY <1>1 DEF Runtimes, Claimed
<1>3. InOrder(e, "none", a, g) /\ e.manifest_root = r.manifest_root BY <1>1, ClaimSound
<1>4. NoRoot(r) = r \/ NoRoot(r) = e BY <1>2 DEF NoRoot
<1> HIDE DEF e
<1> QED BY <1>3, <1>4

LEMMA AttentionSound ==
  ASSUME NEW a, NEW g, NEW r, InOrder(r, "none", a, g), Armed(r)
  PROVE  LET e == Attention(r)
         IN  /\ InOrder(e, "none", a, g) /\ e.manifest_root = r.manifest_root
             /\ ~r.unsafe => /\ Armed(e) /\ e.claimed /\ e.expected_m_id
                             /\ e.witnessed = r.witnessed /\ e.activation = r.activation
<1>1. CASE r.unsafe
  <2>1. Attention(r) = EndW([r EXCEPT !.unsafe = FALSE], "unsafe") BY <1>1 DEF Attention
  <2>2. "unsafe" \in DOMAIN WindowOutcome BY DEF WindowOutcome
  <2>3. AtRest(Attention(r)) /\ Ends(r, Attention(r))
    BY <2>1, <2>2, UnsafeEnds DEF InOrder, AtRest
  <2> QED BY <1>1, <2>3, EndedInOrder DEF Ends, Ended
<1>2. CASE ~r.unsafe
  <2> DEFINE x == TRUE
             e == Claimed(r, x)
  <2>1. Attention(r) = e BY <1>2 DEF Attention, Claimed
  <2>2. x \in BOOLEAN OBVIOUS
  <2>3. x OBVIOUS
  <2> HIDE DEF x
  <2>4. /\ InOrder(e, "none", a, g) /\ e.manifest_root = r.manifest_root /\ Armed(e)
        /\ e.claimed /\ e.witnessed = r.witnessed /\ e.activation = r.activation
        /\ x => e.expected_m_id
    BY <2>2, ClaimSound
  <2> HIDE DEF e
  <2> QED BY <1>2, <2>1, <2>3, <2>4
<1> QED BY <1>1, <1>2

(* The manifestation that begins, told or not, and that is closed. *)
Manifest(r, x, t) == [r EXCEPT !.manifest_root = x, !.notice = t]

LEMMA ManifestSound ==
  ASSUME NEW a, NEW g, NEW busy, NEW r, InOrder(r, busy, a, g),
         NEW x, NEW t, x \in BOOLEAN, t \in BOOLEAN
  PROVE  LET e == Manifest(r, x, t)
         IN  /\ InOrder(e, busy, a, g) /\ (e.manifest_root <=> x) /\ (Armed(e) <=> Armed(r))
             /\ (Committed(e) <=> Committed(r)) /\ e.claimed = r.claimed
             /\ e.witnessed = r.witnessed /\ e.activation = r.activation
             /\ e.expected_m_id = r.expected_m_id
<1> DEFINE e == Manifest(r, x, t)
<1>1. r \in Runtimes BY DEF InOrder, Sound
<1>2. e \in Runtimes BY <1>1 DEF Runtimes, Manifest
<1>3. /\ Alike(r, e) /\ e.pending_w = r.pending_w /\ e.f_inflight = r.f_inflight
      /\ e.manifest_root = x /\ e.expected_m_id = r.expected_m_id
  BY <1>1 DEF Alike, Runtimes, Manifest
<1> HIDE DEF e
<1>4. Flight(e, busy) BY <1>3 DEF InOrder, Flight
<1>5. /\ Sound(e, busy) /\ Settled(e) /\ LevelOK(e) /\ Tally(e, a, g)
      /\ (Committed(e) <=> Committed(r)) /\ (Armed(e) <=> Armed(r))
  BY <1>2, <1>3, AlikeSound DEF InOrder
<1> QED BY <1>3, <1>4, <1>5 DEF InOrder, Alike, e

(* The player has seen the companion drawn. *)
LEMMA WitnessSound ==
  ASSUME NEW a, NEW g \in [Families -> Nat], NEW r, InOrder(r, "none", a, g),
         Committed(r), Armed(r), ~r.witnessed, r.expected_m_id, r.claimed
  PROVE  LET e == Witness(r)
             h == [g EXCEPT !["W"] = @ + 1]
         IN  InOrder(e, "none", a, h) /\ e.manifest_root = FALSE /\ e.witnessed
<1> DEFINE n == r.next_seq + 1
           d == r.delivered + (IF Broad(r) THEN 1 ELSE 0)
           h == [g EXCEPT !["W"] = @ + 1]
           e == [r EXCEPT !.next_seq = n, !.manifest_root = FALSE, !.notice = FALSE,
                          !.witnessed = TRUE, !.delivered = d]
<1>1. r \in Runtimes /\ n \in Nat /\ r.delivered \in 0..2 /\ r.uses \in 0..2
  BY Typed DEF InOrder, Sound
<1>2. KindOK(r) /\ WindowOK(r, "none") /\ CallsOK(r, "none") /\ RowsOK(r, "none")
      /\ DelayOK(r) /\ Tally(r, a, g) /\ LevelOK(r)
  BY DEF InOrder, Sound
<1>3. Witness(r) = e
  <2>1. Row(Closed(r)) = [r EXCEPT !.next_seq = n, !.manifest_root = FALSE, !.notice = FALSE]
    BY <1>1 DEF Row, Closed, Runtimes
  <2>2. /\ Row(Closed(r)).delivered = r.delivered
        /\ e = [Row(Closed(r)) EXCEPT !.witnessed = TRUE, !.delivered = d]
    <3> HIDE DEF n, d
    <3> QED BY <1>1, <2>1 DEF Runtimes
  <2>3. [Row(Closed(r)) EXCEPT !.witnessed = TRUE,
                               !.delivered = @ + (IF Broad(r) THEN 1 ELSE 0)] = e
    BY <2>2
  <2> HIDE DEF e
  <2> QED BY <2>3 DEF Witness
<1>4. /\ Broad(r) => d = r.delivered + 1 /\ d <= r.uses
      /\ ~Broad(r) => d = 0
      /\ d \in 0..2
  BY <1>1, <1>2 DEF KindOK
<1>5. h["W"] = g["W"] + 1 /\ h["F"] = g["F"] /\ g["W"] \in Nat /\ g["F"] \in Nat
  BY DEF Families
<1> HIDE DEF n, d, h
<1>6. /\ e.next_seq = n /\ e.manifest_root = FALSE /\ e.witnessed = TRUE /\ e.delivered = d
      /\ e.slot_w = r.slot_w /\ e.slot_f = r.slot_f /\ e.w_runtime = r.w_runtime
      /\ e.phase = r.phase /\ e.uses = r.uses /\ e.ring = r.ring
      /\ e.delay_used = r.delay_used /\ e.delay_until = r.delay_until
      /\ e.callback_ordinal = r.callback_ordinal /\ e.callback = r.callback
      /\ e.level_token = r.level_token /\ e.current = r.current /\ e.armed_level = r.armed_level
      /\ e.armed_m_id = r.armed_m_id /\ e.activation = r.activation
      /\ e.claimed = r.claimed
      /\ e.pending_w = r.pending_w /\ e.f_inflight = r.f_inflight
  BY <1>1 DEF Runtimes
<1>7. e \in Runtimes BY <1>1, <1>4 DEF Runtimes
<1> HIDE DEF e
<1> USE DEF n
<1>8. /\ Committed(e) /\ (Broad(e) <=> Broad(r)) /\ Armed(e)
      /\ (SlotsTerminal(e) <=> SlotsTerminal(r))
  BY <1>6 DEF Committed, Broad, Armed, SlotsTerminal
<1>9. KindOK(e)
  <2>1. ~r.ring BY <1>2 DEF KindOK, Armed
  <2> QED BY <1>2, <1>4, <1>6, <1>8, <2>1 DEF KindOK
<1>10. WindowOK(e, "none") BY <1>2, <1>6 DEF WindowOK, Armed
<1>11. CallsOK(e, "none")
  <2>1. \A f : Slot(e, f) = Slot(r, f) BY <1>6 DEF Slot
  <2>2. Called2(e) = Called2(r) BY <1>6 DEF Called2
  <2> QED BY <1>2, <1>6, <1>8, <2>1, <2>2 DEF CallsOK, Families
<1>12. RowsOK(e, "none")
  <2>1. r.slot_w = "armed" BY <1>2 DEF WindowOK, Armed
  <2>2. CASE Broad(r)
    BY <1>1, <1>2, <1>4, <1>6, <1>8, <2>2, Typed DEF RowsOK, One
  <2>3. CASE ~Broad(r)
    BY <1>1, <1>2, <1>6, <1>8, <2>1, <2>3, Typed DEF RowsOK, WhistleRows, FountainRows, One
  <2> QED BY <2>2, <2>3
<1>13. DelayOK(e) BY <1>2, <1>6 DEF DelayOK
<1>14. LevelOK(e) BY <1>2, <1>6, <1>8 DEF LevelOK
<1>15. Flight(e, "none") BY <1>6 DEF InOrder, Flight
<1>16. Settled(e) BY <1>8 DEF Settled, SlotsTerminal
<1>17. Tally(e, a, h)
  <2>1. CASE Broad(r)
    BY <1>1, <1>2, <1>4, <1>5, <1>6, <1>8, <2>1 DEF Tally
  <2>2. CASE ~Broad(r)
    <3>1. g["W"] = 0 BY <1>2, <1>5, <2>2 DEF Tally, One
    <3>2. h["W"] <= One(e.witnessed = TRUE) BY <1>5, <1>6, <3>1 DEF One
    <3> QED BY <1>2, <1>5, <1>6, <1>8, <2>2, <3>2 DEF Tally
  <2> QED BY <2>1, <2>2
<1> QED BY <1>3, <1>6, <1>7, <1>9, <1>10, <1>11, <1>12, <1>13, <1>14, <1>15, <1>16, <1>17
        DEF InOrder, Sound, h

-----------------------------------------------------------------------------
(* The actions *)

LEMMA IInvNext ==
  ASSUME TypeOK', InOrder(rt', Busy', asked', felt'), PlaceOK'
  PROVE  IInv'
BY DEF IInv

(* What every action starts from. *)
LEMMA Here ==
  ASSUME IInv
  PROVE  /\ rt \in Runtimes /\ now \in Nat /\ level \in Levels
         /\ asked \in [Families -> Nat] /\ felt \in [Families -> Nat]
         /\ pc \notin {"whistle", "fountain"} => InOrder(rt, "none", asked, felt)
         /\ pc = "whistle" => InOrder(rt, "W", asked, felt) /\ Committed(rt)
         /\ pc = "fountain" => InOrder(rt, "F", asked, felt) /\ Committed(rt)
         /\ Armed(rt) => Committed(rt)
<1>1. now \in Nat BY NextUseAssumption DEF IInv, TypeOK
<1>2. pc \notin {"whistle", "fountain"} => InOrder(rt, "none", asked, felt) BY DEF IInv, Busy
<1>3. pc = "whistle" => InOrder(rt, "W", asked, felt) BY DEF IInv, Busy
<1>4. pc = "fountain" => InOrder(rt, "F", asked, felt) BY DEF IInv, Busy
<1>5. pc \in {"whistle", "fountain"} => Committed(rt)
  BY <1>3, <1>4 DEF InOrder, Sound, CallsOK, Families
<1>6. Armed(rt) => Committed(rt) BY DEF IInv, InOrder, Sound, KindOK, SlotsTerminal
<1> QED BY <1>1, <1>2, <1>3, <1>4, <1>5, <1>6 DEF IInv, TypeOK

(* A step that leaves nothing in flight. *)
LEMMA Quiets ==
  ASSUME IInv, InOrder(rt', "none", asked', felt'), rt'.manifest_root <=> FALSE,
         pc' \in {"observe", "monsters", "command", "out", "refused"},
         now' = now, level' \in Levels, asked' \in [Families -> Nat], felt' \in [Families -> Nat]
  PROVE  IInv'
<1>1. rt' \in Runtimes BY DEF InOrder, Sound
<1>2. TypeOK' BY <1>1 DEF IInv, TypeOK, Places
<1>3. Busy' = "none" BY DEF Busy
<1>4. InOrder(rt', Busy', asked', felt') BY <1>3
<1>5. PlaceOK' BY DEF PlaceOK
<1> QED BY <1>2, <1>4, <1>5, IInvNext

LEMMA ObserveOK == IInv /\ Observe => IInv'
<1> SUFFICES ASSUME IInv, Observe PROVE IInv' OBVIOUS
<1> DEFINE e == Boundary(rt, level)
<1>1. InOrder(rt, "none", asked, felt) /\ now \in Nat /\ level \in Levels
  BY Here DEF Observe
<1>2. AtRest(e) /\ Ended(rt, e)
  BY <1>1, BoundarySound DEF InOrder, AtRest
<1>3. InOrder(e, "none", asked, felt) /\ e.manifest_root = rt.manifest_root
  BY <1>1, <1>2, EndedInOrder DEF Ended
<1> HIDE DEF e
<1>4. /\ rt' = e /\ pc' = "monsters" /\ now' = now /\ level' = level /\ asked' = asked
      /\ felt' = felt /\ ~rt.manifest_root
  BY DEF Observe, e, IInv, PlaceOK
<1> QED BY <1>1, <1>3, <1>4, Here, Quiets

LEMMA IdleOK ==
  ASSUME IInv, Tick \/ CarriedOff \/ MonstersDone \/ OtherCommand
  PROVE  IInv'
<1> USE DEF Tick, CarriedOff, MonstersDone, OtherCommand
<1>1. /\ rt' = rt /\ asked' = asked /\ felt' = felt /\ pc \in {"monsters", "command"}
      /\ pc' \in {"monsters", "command", "observe"}
  OBVIOUS
<1>2. now' \in 0..MaxTime /\ level' \in Levels BY NextUseAssumption DEF IInv, TypeOK
<1>3. TypeOK' BY <1>1, <1>2 DEF IInv, TypeOK, Places
<1>4. Busy' = Busy BY <1>1 DEF Busy
<1>5. InOrder(rt', Busy', asked', felt') BY <1>1, <1>4 DEF IInv
<1>6. PlaceOK' BY <1>1 DEF IInv, PlaceOK
<1> QED BY <1>3, <1>5, <1>6, IInvNext

LEMMA AfterReadyRests ==
  ASSUME NEW r, AtRest(r)
  PROVE  AtRest(AfterReady(r)) /\ Ended(r, AfterReady(r))
<1>1. CASE OnItsLevel(r) /\ ~r.unsafe /\ WindowOver(r)
  <2> DEFINE e == EndW(r, "window")
  <2>1. "window" \in DOMAIN WindowOutcome BY DEF WindowOutcome
  <2>2. Sound(e, "none") /\ Ends(r, e) /\ Settled(e) BY <2>1, EndWindowSound DEF AtRest
  <2>3. AfterReady(r) = e BY <1>1 DEF AfterReady
  <2> HIDE DEF e
  <2> QED BY <2>2, <2>3, EndsLevel DEF AtRest, Ends
<1>2. CASE ~(OnItsLevel(r) /\ ~r.unsafe /\ WindowOver(r))
  BY <1>2, EndsSelf DEF AfterReady, Ends
<1> QED BY <1>1, <1>2

LEMMA CompanionOK == IInv /\ CompanionMoves => IInv'
<1> SUFFICES ASSUME IInv, CompanionMoves PROVE IInv' OBVIOUS
<1>1. /\ InOrder(rt, "none", asked, felt) /\ now \in Nat /\ level \in Levels /\ ~rt.manifest_root
      /\ Armed(rt) /\ Committed(rt) /\ rt \in Runtimes
      /\ now' = now /\ level' = level /\ asked' = asked /\ felt' = felt
      /\ asked \in [Families -> Nat] /\ felt \in [Families -> Nat] /\ pc = "monsters"
  BY Here DEF CompanionMoves, IInv, PlaceOK
<1>2. CASE ~DecisionReady(rt)
  <2>1. rt' = AfterReady(rt) /\ pc' = "monsters" BY <1>1, <1>2 DEF CompanionMoves
  <2>2. AtRest(rt') /\ Ended(rt, rt')
    BY <1>1, <2>1, AfterReadyRests DEF InOrder, AtRest
  <2>3. InOrder(rt', "none", asked, felt) /\ rt'.manifest_root = rt.manifest_root
    BY <1>1, <2>2, EndedInOrder DEF Ended
  <2> QED BY <1>1, <2>1, <2>3, Quiets
<1>3. CASE DecisionReady(rt) /\ rt' = NoRoot(rt) /\ pc' = pc
  <2>1. InOrder(rt', "none", asked, felt) /\ rt'.manifest_root = rt.manifest_root
    BY <1>1, <1>3, NoRootSound
  <2> QED BY <1>1, <1>3, <2>1, Quiets
<1>4. CASE DecisionReady(rt) /\ rt' = Attention(rt) /\ pc' = pc
  <2>1. InOrder(rt', "none", asked, felt) /\ rt'.manifest_root = rt.manifest_root
    BY <1>1, <1>4, AttentionSound
  <2> QED BY <1>1, <1>4, <2>1, Quiets
<1>5. ASSUME DecisionReady(rt), ~rt.unsafe, NEW told, told \in BOOLEAN,
             rt' = [ManifestationBegin(Attention(rt)) EXCEPT !.notice = told],
             pc' = "manifest"
      PROVE  IInv'
  <2> DEFINE m == Attention(rt)
             x == TRUE
             e == Manifest(m, x, told)
  <2>1. /\ InOrder(m, "none", asked, felt) /\ m.manifest_root = rt.manifest_root
        /\ Armed(m) /\ m.claimed /\ m.expected_m_id
        /\ m.witnessed = rt.witnessed /\ m.activation = rt.activation
    BY <1>1, <1>5, AttentionSound
  <2>2. ~rt.witnessed /\ now >= rt.activation + WindowOpen /\ ~(now >= rt.activation + WindowEnd)
    BY <1>1, <1>5 DEF DecisionReady, WindowOver
  <2>3. m \in Runtimes BY <2>1 DEF InOrder, Sound
  <2> HIDE DEF m
  <2>4. rt' = e
    <3>1. ManifestationBegin(m) = [m EXCEPT !.manifest_root = TRUE, !.notice = FALSE]
      BY <1>1, <2>1, <2>2 DEF ManifestationBegin
    <3> QED BY <1>5, <2>3, <3>1 DEF m, Runtimes, Manifest
  <2>5. x \in BOOLEAN OBVIOUS
  <2>6. x OBVIOUS
  <2> HIDE DEF x
  <2>7. /\ InOrder(e, "none", asked, felt) /\ (e.manifest_root <=> x) /\ (Armed(e) <=> Armed(m))
        /\ (Committed(e) <=> Committed(m)) /\ e.claimed = m.claimed
        /\ e.witnessed = m.witnessed /\ e.activation = m.activation
        /\ e.expected_m_id = m.expected_m_id
    <3>1. InOrder(m, "none", asked, felt) BY <2>1
    <3>2. told \in BOOLEAN BY <1>5
    <3> HIDE DEF e
    <3>3. e = Manifest(m, x, told) BY DEF e
    <3> QED BY <2>5, <3>1, <3>2, <3>3, ManifestSound
  <2> HIDE DEF e
  <2>8. Committed(e) BY <2>1, <2>7 DEF InOrder, Sound, KindOK, SlotsTerminal
  <2>9. now \in e.activation + WindowOpen .. e.activation + WindowEnd - 1
    BY <1>1, <2>1, <2>2, <2>7, Typed, NextUseAssumption
  <2>10. PlaceOK'
    BY <1>1, <1>5, <2>1, <2>2, <2>4, <2>6, <2>7, <2>8, <2>9 DEF PlaceOK
  <2>11. TypeOK' BY <1>1, <1>5, <2>4, <2>7 DEF IInv, TypeOK, Places, InOrder, Sound
  <2>12. InOrder(rt', Busy', asked', felt') BY <1>1, <1>5, <2>4, <2>7 DEF Busy
  <2> QED BY <2>10, <2>11, <2>12, IInvNext
<1> QED BY <1>2, <1>3, <1>4, <1>5 DEF CompanionMoves

LEMMA FinalizeOK == IInv /\ Finalize => IInv'
<1> SUFFICES ASSUME IInv, Finalize PROVE IInv' OBVIOUS
<1>1. /\ InOrder(rt, "none", asked, felt) /\ now \in Nat /\ level \in Levels
      /\ now' = now /\ level' = level /\ asked' = asked /\ pc' = "monsters"
      /\ asked \in [Families -> Nat] /\ felt \in [Families -> Nat]
      /\ Committed(rt) /\ Armed(rt) /\ rt.claimed /\ ~rt.witnessed /\ rt.expected_m_id
  BY Here DEF Finalize, IInv, PlaceOK
<1>2. CASE rt' = Witness(rt) /\ felt' = [felt EXCEPT !["W"] = @ + 1]
  <2>1. InOrder(rt', "none", asked, felt') /\ ~rt'.manifest_root
    BY <1>1, <1>2, WitnessSound
  <2>2. felt' \in [Families -> Nat] BY <1>1, <1>2 DEF Families
  <2> QED BY <1>1, <2>1, <2>2, Quiets
<1>3. CASE rt' = Closed(rt) /\ felt' = felt
  <2> DEFINE x == FALSE
  <2>1. x \in BOOLEAN OBVIOUS
  <2>2. ~x OBVIOUS
  <2>3. rt' = Manifest(rt, x, x) BY <1>3 DEF Closed, Manifest
  <2> HIDE DEF x
  <2>4. InOrder(rt', "none", asked, felt) /\ (rt'.manifest_root <=> x)
    BY <1>1, <2>1, <2>3, ManifestSound
  <2> QED BY <1>1, <1>3, <2>2, <2>4, Quiets
<1> QED BY <1>2, <1>3 DEF Finalize

LEMMA MarkOK == IInv /\ MarkIdentityUnsafe => IInv'
<1> SUFFICES ASSUME IInv, MarkIdentityUnsafe PROVE IInv' OBVIOUS
<1> DEFINE b == TRUE
           e == [rt EXCEPT !.unsafe = b]
<1>1. /\ rt' = e /\ now' = now /\ level' = level /\ pc' = pc /\ asked' = asked /\ felt' = felt
      /\ InOrder(rt, Busy, asked, felt) /\ rt \in Runtimes
  BY Here DEF MarkIdentityUnsafe, IInv
<1>2. b \in BOOLEAN OBVIOUS
<1> HIDE DEF b
<1>3. e \in Runtimes BY <1>1, <1>2 DEF Runtimes
<1>4. /\ Alike(rt, e) /\ e.pending_w = rt.pending_w /\ e.f_inflight = rt.f_inflight
      /\ e.manifest_root = rt.manifest_root /\ e.expected_m_id = rt.expected_m_id
  BY <1>1 DEF Alike, Runtimes
<1> HIDE DEF e
<1>5. Busy' = Busy BY <1>1 DEF Busy
<1>6. Flight(e, Busy) BY <1>1, <1>4 DEF InOrder, Flight
<1>7. /\ Sound(e, Busy) /\ Settled(e) /\ LevelOK(e) /\ Tally(e, asked, felt)
      /\ (Committed(e) <=> Committed(rt)) /\ (Armed(e) <=> Armed(rt))
  BY <1>1, <1>3, <1>4, AlikeSound DEF InOrder
<1>8. InOrder(e, Busy, asked, felt) BY <1>6, <1>7 DEF InOrder
<1>9. TypeOK' BY <1>1, <1>3 DEF IInv, TypeOK
<1>10. PlaceOK' BY <1>1, <1>4, <1>7 DEF IInv, PlaceOK, Alike
<1>11. InOrder(rt', Busy', asked', felt') BY <1>1, <1>5, <1>8
<1> QED BY <1>9, <1>10, <1>11, IInvNext

(* A step into the callback's action, or back to the main loop. *)
LEMMA Uses ==
  ASSUME IInv, NEW f \in Families, Replied(rt', f, asked', felt'), rt'.manifest_root <=> FALSE,
         InOrder(rt', f, asked', felt') => now < Lifetime,
         pc' = IF InOrder(rt', "none", asked', felt') THEN "observe"
               ELSE IF f = "W" THEN "whistle" ELSE "fountain",
         now' = now, level' \in Levels, asked' \in [Families -> Nat], felt' \in [Families -> Nat]
  PROVE  IInv'
<1>1. CASE InOrder(rt', "none", asked', felt') BY <1>1, Quiets
<1>2. CASE ~InOrder(rt', "none", asked', felt')
  <2>1. InOrder(rt', f, asked', felt') /\ Committed(rt') BY <1>2 DEF Replied
  <2>2. rt' \in Runtimes BY <2>1 DEF InOrder, Sound
  <2>3. pc' = IF f = "W" THEN "whistle" ELSE "fountain" BY <1>2
  <2>4. TypeOK' BY <2>2, <2>3 DEF IInv, TypeOK, Places
  <2>5. Busy' = f BY <2>3 DEF Busy, Families
  <2>6. InOrder(rt', Busy', asked', felt') BY <2>1, <2>5
  <2>7. PlaceOK' BY <2>1, <2>3 DEF PlaceOK
  <2> QED BY <2>4, <2>6, <2>7, IInvNext
<1> QED BY <1>1, <1>2

(* What is pending says which use is in flight. *)
LEMMA PendingTells ==
  ASSUME NEW f \in Families, NEW e, NEW a, NEW g, Replied(e, f, a, g)
  PROVE  /\ f = "W" => (e.pending_w <=> ~InOrder(e, "none", a, g))
         /\ f = "F" => (e.f_inflight <=> ~InOrder(e, "none", a, g))
<1>1. CASE InOrder(e, "none", a, g) BY <1>1 DEF InOrder, Flight
<1>2. CASE ~InOrder(e, "none", a, g) BY <1>2 DEF Replied, InOrder, Flight
<1> QED BY <1>1, <1>2

LEMMA WhistleOK == IInv /\ Whistle => IInv'
<1> SUFFICES ASSUME IInv, Whistle PROVE IInv' OBVIOUS
<1> DEFINE b == Bounded(rt)
<1>1. /\ InOrder(rt, "none", asked, felt) /\ now \in Nat /\ level \in Levels
      /\ now' = now /\ level' = level /\ felt' = felt /\ ~rt.manifest_root
      /\ asked \in [Families -> Nat] /\ felt \in [Families -> Nat]
  BY Here DEF Whistle, IInv, PlaceOK
<1>2. AtRest(b) /\ Ended(rt, b) BY <1>1, BoundedRests DEF InOrder, AtRest
<1>3. InOrder(b, "none", asked, felt) /\ ~b.manifest_root
  BY <1>1, <1>2, EndedInOrder DEF Ended
<1>4. \/ rt' = b /\ asked' = asked /\ pc' = "observe"
      \/ rt' = Suppressed(b) /\ asked' = asked /\ pc' = "observe"
      \/ \E intent \in Intents :
            /\ rt' = OnAction(b, "W", intent) /\ asked' = Ask(b, "W")
            /\ pc' = IF rt'.pending_w THEN "whistle" ELSE "observe"
  BY DEF Whistle
<1> HIDE DEF b
<1>5. CASE rt' = b /\ asked' = asked /\ pc' = "observe"
  BY <1>1, <1>3, <1>5, Quiets
<1>6. CASE rt' = Suppressed(b) /\ asked' = asked /\ pc' = "observe"
  <2>1. InOrder(rt', "none", asked, felt) /\ rt'.manifest_root = b.manifest_root
    BY <1>1, <1>3, <1>6, SuppressedSound
  <2> QED BY <1>1, <1>3, <1>6, <2>1, Quiets
<1>7. ASSUME NEW intent \in Intents, rt' = OnAction(b, "W", intent), asked' = Ask(b, "W"),
             pc' = IF rt'.pending_w THEN "whistle" ELSE "observe"
      PROVE  IInv'
  <2>1. "W" \in Families BY DEF Families
  <2>2. /\ Replied(rt', "W", asked', felt) /\ rt'.manifest_root = b.manifest_root
        /\ InOrder(rt', "W", asked', felt) => now < Lifetime
    <3>1. Ask(b, "W") = More(b, "W", asked) BY DEF Ask, More
    <3> QED BY <1>1, <1>3, <1>7, <2>1, <3>1, OnActionSound
  <2>3. asked' \in [Families -> Nat] BY <1>1, <1>7, <2>1 DEF Ask
  <2>4. rt'.pending_w <=> ~InOrder(rt', "none", asked', felt)
    BY <2>1, <2>2, PendingTells
  <2>5. pc' = IF InOrder(rt', "none", asked', felt') THEN "observe"
              ELSE IF "W" = "W" THEN "whistle" ELSE "fountain"
    BY <1>1, <1>7, <2>4
  <2> QED BY <1>1, <1>3, <2>1, <2>2, <2>3, <2>5, Uses
<1> QED BY <1>4, <1>5, <1>6, <1>7

LEMMA DrinkOK == IInv /\ Drink => IInv'
<1> SUFFICES ASSUME IInv, Drink PROVE IInv' OBVIOUS
<1>1. /\ InOrder(rt, "none", asked, felt) /\ now \in Nat /\ level \in Levels
      /\ now' = now /\ level' = level /\ felt' = felt /\ ~rt.manifest_root
      /\ asked \in [Families -> Nat] /\ felt \in [Families -> Nat]
  BY Here DEF Drink, IInv, PlaceOK
<1>2. PICK intent \in Intents :
            /\ rt' = OnAction(rt, "F", intent) /\ asked' = Ask(rt, "F")
            /\ pc' = IF rt'.f_inflight THEN "fountain" ELSE "observe"
  BY DEF Drink
<1>3. "F" \in Families BY DEF Families
<1>4. /\ Replied(rt', "F", asked', felt) /\ rt'.manifest_root = rt.manifest_root
      /\ InOrder(rt', "F", asked', felt) => now < Lifetime
  <2>1. Ask(rt, "F") = More(rt, "F", asked) BY DEF Ask, More
  <2> QED BY <1>1, <1>2, <1>3, <2>1, OnActionSound
<1>5. asked' \in [Families -> Nat] BY <1>1, <1>2, <1>3 DEF Ask
<1>6. rt'.f_inflight <=> ~InOrder(rt', "none", asked', felt) BY <1>3, <1>4, PendingTells
<1>7. pc' = IF InOrder(rt', "none", asked', felt') THEN "observe"
            ELSE IF "F" = "W" THEN "whistle" ELSE "fountain"
  BY <1>1, <1>2, <1>6
<1> QED BY <1>1, <1>3, <1>4, <1>5, <1>7, Uses

LEMMA WhistleBindsOK == IInv /\ WhistleBinds => IInv'
<1> SUFFICES ASSUME IInv, WhistleBinds PROVE IInv' OBVIOUS
<1>1. /\ InOrder(rt, "W", asked, felt) /\ now \in Nat /\ level \in Levels /\ now < Lifetime
      /\ now' = now /\ level' = level /\ felt' = felt /\ asked' = asked /\ ~rt.manifest_root
      /\ asked \in [Families -> Nat] /\ felt \in [Families -> Nat] /\ ~rt.ring
      /\ pc' = "observe"
  BY Here DEF WhistleBinds, IInv, PlaceOK
<1>2. CASE rt' = Capture(rt)
  <2>1. InOrder(rt', "none", asked, felt) /\ rt'.manifest_root = rt.manifest_root
    BY <1>1, <1>2, CaptureSound
  <2> QED BY <1>1, <2>1, Quiets
<1>3. CASE rt' = Suppressed(rt)
  <2>1. InOrder(rt', "none", asked, felt) /\ rt'.manifest_root = rt.manifest_root
    BY <1>1, <1>3, SuppressedSound
  <2> QED BY <1>1, <2>1, Quiets
<1> QED BY <1>2, <1>3 DEF WhistleBinds

LEMMA WhistleRingsOK == IInv /\ WhistleRings => IInv'
<1> SUFFICES ASSUME IInv, WhistleRings PROVE IInv' OBVIOUS
<1>1. /\ InOrder(rt, "W", asked, felt) /\ now \in Nat /\ level \in Levels
      /\ now' = now /\ level' = level /\ asked' = asked /\ ~rt.manifest_root
      /\ asked \in [Families -> Nat] /\ felt \in [Families -> Nat] /\ rt.ring
      /\ pc' = "observe"
  BY Here DEF WhistleRings, IInv, PlaceOK
<1>2. PICK guarded \in BOOLEAN :
            /\ rt' = Ring(rt, guarded)
            /\ felt' = IF guarded THEN felt ELSE [felt EXCEPT !["W"] = @ + 1]
  BY DEF WhistleRings
<1>3. InOrder(rt', "none", asked, felt') /\ rt'.manifest_root = rt.manifest_root
  BY <1>1, <1>2, RingSound
<1>4. felt' \in [Families -> Nat] BY <1>1, <1>2 DEF Families
<1> QED BY <1>1, <1>3, <1>4, Quiets

LEMMA DrinkEndsOK == IInv /\ DrinkEnds => IInv'
<1> SUFFICES ASSUME IInv, DrinkEnds PROVE IInv' OBVIOUS
<1>1. /\ InOrder(rt, "F", asked, felt) /\ now \in Nat /\ level \in Levels
      /\ now' = now /\ level' = level /\ asked' = asked /\ ~rt.manifest_root
      /\ asked \in [Families -> Nat] /\ felt \in [Families -> Nat] /\ pc' = "observe"
  BY Here DEF DrinkEnds, IInv, PlaceOK
<1>2. PICK outcome \in DOMAIN FountainSlot :
            /\ rt' = FountainResult(rt, outcome)
            /\ felt' = IF outcome = "remapped" THEN [felt EXCEPT !["F"] = @ + 1] ELSE felt
  BY DEF DrinkEnds
<1>3. InOrder(rt', "none", asked, felt') /\ rt'.manifest_root = rt.manifest_root
  BY <1>1, <1>2, FountainSound
<1>4. felt' \in [Families -> Nat] BY <1>1, <1>2 DEF Families
<1> QED BY <1>1, <1>3, <1>4, Quiets

LEMMA SaveOK == IInv /\ Save => IInv'
<1> SUFFICES ASSUME IInv, Save PROVE IInv' OBVIOUS
<1>1. /\ rt' = rt /\ now' = now /\ level' = level /\ asked' = asked /\ felt' = felt
      /\ pc' = "out" /\ ~rt.pending_w /\ ~rt.f_inflight /\ (rt.manifest_root => rt.witnessed)
  BY DEF Save, SaveStatus
<1>2. /\ rt \in Runtimes /\ level \in Levels
      /\ asked \in [Families -> Nat] /\ felt \in [Families -> Nat]
  BY Here
<1>3. InOrder(rt, Busy, asked, felt) BY DEF IInv
<1>4. Busy = "none" BY <1>1, <1>3 DEF Busy, InOrder, Flight
<1>5. ~rt.manifest_root BY <1>1 DEF IInv, PlaceOK
<1> QED BY <1>1, <1>2, <1>3, <1>4, <1>5, Quiets

LEMMA ImportSound ==
  ASSUME NEW a, NEW g, NEW r, InOrder(r, "none", a, g), ~r.manifest_root, NEW there \in Levels,
         RestoreAccepts(r, there)
  PROVE  InOrder(Import(r, there), "none", a, g) /\ ~Import(r, there).manifest_root
<1> DEFINE s == [r EXCEPT !.current = there]
           e == Import(r, there)
<1>1. /\ Sound(s, "none") /\ Ended(r, s) /\ Settled(s) /\ s.current = there
      /\ s.level_token = r.level_token /\ s.armed_level = r.armed_level
      /\ (Committed(s) <=> Committed(r)) /\ (Armed(s) <=> Armed(r))
      /\ (Broad(s) <=> Broad(r))
  BY SeenSound DEF InOrder
<1>2. r \in Runtimes BY DEF InOrder, Sound
<1>3. e = [s EXCEPT !.expected_m_id = FALSE, !.manifest_root = FALSE, !.notice = FALSE]
  BY <1>2 DEF Import, Runtimes
<1> HIDE DEF s
<1>4. LevelOK(s) BY <1>1 DEF RestoreAccepts, LevelOK
<1>5. Flight(s, "none") /\ Tally(s, a, g) BY <1>1, EndedKeeps DEF InOrder
<1>6. s \in Runtimes BY <1>1 DEF Sound
<1> HIDE DEF e
<1>7. /\ e \in Runtimes /\ Alike(s, e) /\ e.pending_w = s.pending_w
      /\ e.f_inflight = s.f_inflight /\ ~e.manifest_root
  BY <1>3, <1>6, ZenonT(30) DEF Alike, Runtimes
<1>8. Flight(e, "none") BY <1>5, <1>7 DEF Flight
<1>9. Sound(e, "none") /\ Settled(e) /\ LevelOK(e) /\ Tally(e, a, g)
  BY <1>1, <1>4, <1>5, <1>7, AlikeSound
<1> QED BY <1>7, <1>8, <1>9 DEF InOrder, e

LEMMA RestoreOK == IInv /\ Restore => IInv'
<1> SUFFICES ASSUME IInv, Restore PROVE IInv' OBVIOUS
<1>1. /\ InOrder(rt, "none", asked, felt) /\ level \in Levels /\ ~rt.manifest_root
      /\ now' = now /\ level' = level /\ asked' = asked /\ felt' = felt
      /\ asked \in [Families -> Nat] /\ felt \in [Families -> Nat]
  BY Here DEF Restore, IInv, PlaceOK
<1>2. CASE RestoreAccepts(rt, level)
  <2>1. rt' = Import(rt, level) /\ pc' = "observe" BY <1>2 DEF Restore
  <2>2. InOrder(rt', "none", asked, felt) /\ ~rt'.manifest_root
    BY <1>1, <1>2, <2>1, ImportSound
  <2> QED BY <1>1, <2>1, <2>2, Quiets
<1>3. CASE ~RestoreAccepts(rt, level)
  <2>1. rt' = rt /\ pc' = "refused" BY <1>3 DEF Restore
  <2> QED BY <1>1, <2>1, Quiets
<1> QED BY <1>2, <1>3

LEMMA InitIInv == Init => IInv
<1> SUFFICES ASSUME Init PROVE IInv OBVIOUS
<1>1. PICK p \in Programs, d \in Deadlines : rt = Installed(p, d, level) BY DEF Init
<1>2. /\ level \in Levels /\ now = 0 /\ pc = "command" /\ Busy = "none"
      /\ asked = [f \in Families |-> 0] /\ felt = [f \in Families |-> 0]
  BY DEF Init, Busy
<1>3. /\ p.fams \in SUBSET Families /\ p.uses \in 0..2 /\ p.ring \in BOOLEAN /\ d \in Nat
      /\ p.ring => p.uses > 0 /\ p.fams = {"W"}
  BY NextUseAssumption DEF Declarable
<1> DEFINE w == IF "W" \in p.fams THEN "pending" ELSE "undeclared"
           s == IF "F" \in p.fams THEN "pending" ELSE "undeclared"
           cb == [f \in Families |-> FALSE]
<1>4. /\ w \in {"pending", "undeclared"} /\ s \in {"pending", "undeclared"}
      /\ p.ring => s = "undeclared"
      /\ w = "pending" \/ s = "pending"
  <2>1. p \in [fams : (SUBSET Families) \ {{}}, uses : 0..2, ring : BOOLEAN]
    BY <1>1, NextUseAssumption DEF Declarable
  <2>2. p.fams \in (SUBSET Families) \ {{}} BY <2>1
  <2>3. p.fams \subseteq {"W", "F"} /\ p.fams # {} BY <2>2 DEF Families
  <2>4. "W" \in p.fams \/ "F" \in p.fams BY <2>3
  <2> QED BY <1>3, <2>4
<1>5. cb \in [Families -> BOOLEAN] /\ ~cb["W"] /\ ~cb["F"] BY DEF Families
<1> HIDE DEF w, s, cb
<1>6. /\ rt.slot_w = w /\ rt.slot_f = s /\ rt.w_runtime = "inactive" /\ rt.phase = "committed"
      /\ rt.uses = p.uses /\ rt.ring = p.ring /\ rt.delivered = 0
      /\ rt.delay_used = FALSE /\ rt.delay_until = 0 /\ rt.callback_ordinal = 0
      /\ rt.callback = cb /\ rt.level_token = level /\ rt.current = level
      /\ rt.armed_level = 0 /\ rt.armed_m_id = FALSE /\ rt.activation = 0
      /\ rt.witnessed = FALSE /\ rt.claimed = FALSE /\ rt.next_seq = 3
      /\ rt.pending_w = FALSE /\ rt.f_inflight = FALSE /\ rt.manifest_root = FALSE
  BY <1>1 DEF Installed, w, s, cb
<1>7. rt \in Runtimes
  <2>1. rt = [phase |-> "committed", slot_w |-> w, slot_f |-> s,
         w_runtime |-> "inactive", uses |-> p.uses, ring |-> p.ring, delivered |-> 0,
         delay_used |-> FALSE, delay_until |-> 0, callback_ordinal |-> 0,
         callback |-> cb, deadline |-> d,
         level_token |-> level, current |-> level, armed_level |-> 0,
         armed_m_id |-> FALSE, activation |-> 0, witnessed |-> FALSE,
         claimed |-> FALSE, unsafe |-> FALSE, next_seq |-> 3,
         pending_w |-> FALSE, f_inflight |-> FALSE, expected_m_id |-> FALSE,
         manifest_root |-> FALSE, notice |-> FALSE]
    BY <1>1 DEF Installed, w, s, cb
  <2>2. w \in SlotW /\ s \in SlotF BY <1>4 DEF SlotW, SlotF
  <2> QED BY <1>2, <1>3, <1>5, <2>1, <2>2 DEF Runtimes, WRuntime
<1>8. Committed(rt) /\ ~Armed(rt) /\ ~SlotsTerminal(rt)
  BY <1>4, <1>6 DEF Committed, Armed, SlotsTerminal
<1>9. KindOK(rt) BY <1>3, <1>4, <1>6, <1>8 DEF KindOK, Broad
<1>10. WindowOK(rt, "none") BY <1>4, <1>6 DEF WindowOK
<1>11. CallsOK(rt, "none")
  BY <1>4, <1>5, <1>6, NextUseAssumption DEF CallsOK, Called2, One, Families, Slot
<1>12. RowsOK(rt, "none")
  BY <1>4, <1>6, <1>8 DEF RowsOK, WhistleRows, FountainRows, One
<1>13. DelayOK(rt) BY <1>6 DEF DelayOK
<1>14. Settled(rt) /\ LevelOK(rt) BY <1>6, <1>8 DEF Settled, LevelOK
<1>15. Flight(rt, "none") BY <1>6 DEF Flight
<1>16. Tally(rt, asked, felt)
  BY <1>2, <1>5, <1>6 DEF Tally, One, Families
<1>17. TypeOK BY <1>2, <1>7, NextUseAssumption DEF TypeOK, Places
<1>18. PlaceOK BY <1>2, <1>6 DEF PlaceOK
<1> QED
  BY <1>2, <1>7, <1>9, <1>10, <1>11, <1>12, <1>13, <1>14, <1>15, <1>16, <1>17, <1>18
  DEF IInv, InOrder, Sound

LEMMA NextIInv == IInv /\ [Next]_vars => IInv'
<1> SUFFICES ASSUME IInv, [Next]_vars PROVE IInv' OBVIOUS
<1>1. CASE UNCHANGED vars
  <2>1. Busy' = Busy BY <1>1 DEF vars, Busy
  <2>2. TypeOK' /\ PlaceOK' BY <1>1 DEF IInv, TypeOK, PlaceOK, vars
  <2>3. InOrder(rt', Busy', asked', felt') BY <1>1, <2>1 DEF IInv, vars
  <2> QED BY <2>2, <2>3, IInvNext
<1>2. CASE Next
  BY <1>2, ObserveOK, IdleOK, CompanionOK, FinalizeOK, MarkOK, WhistleOK, WhistleBindsOK,
     WhistleRingsOK, DrinkOK, DrinkEndsOK, SaveOK, RestoreOK DEF Next
<1> QED BY <1>1, <1>2

-----------------------------------------------------------------------------
(* The results *)

(* The record is at every moment what its declaration, its callbacks and the
   clock allow, and what is in flight is what the main loop is doing.         *)
THEOREM InductiveInvariant == Spec => []IInv
BY InitIInv, NextIInv, PTL DEF Spec

(* Every variable keeps its type. *)
THEOREM TypeCorrect == Spec => []TypeOK
<1>1. IInv => TypeOK BY DEF IInv
<1> QED BY <1>1, InductiveInvariant, PTL

LEMMA CalledCount ==
  ASSUME NEW r \in Runtimes
  PROVE  Cardinality({f \in Families : r.callback[f]}) = Called2(r)
<1> DEFINE C == {f \in Families : r.callback[f]}
<1>1. CASE r.callback["W"] /\ r.callback["F"]
  <2>1. C = {"W", "F"} BY <1>1 DEF Families
  <2>2. Cardinality({"W"}) = 1 /\ IsFiniteSet({"W"}) BY FS_Singleton
  <2>3. Cardinality({"W"} \cup {"F"}) = 2 BY <2>2, FS_AddElement
  <2>4. {"W"} \cup {"F"} = {"W", "F"} OBVIOUS
  <2> QED BY <1>1, <2>1, <2>3, <2>4 DEF Called2, One
<1>2. CASE r.callback["W"] /\ ~r.callback["F"]
  <2>1. C = {"W"} BY <1>2 DEF Families
  <2>2. r.callback["F"] # TRUE BY <1>2
  <2> QED BY <1>2, <2>1, <2>2, FS_Singleton DEF Called2, One
<1>3. CASE ~r.callback["W"] /\ r.callback["F"]
  <2>1. C = {"F"} BY <1>3 DEF Families
  <2>2. Cardinality(C) = 1 BY <2>1, FS_Singleton
  <2>3. One(r.callback["W"] = TRUE) = 0
    <3>1. r.callback["W"] # TRUE BY <1>3
    <3> QED BY <3>1 DEF One
  <2>4. One(r.callback["F"] = TRUE) = 1
    <3>1. r.callback \in [Families -> BOOLEAN] BY DEF Runtimes
    <3>2. r.callback["F"] \in BOOLEAN BY <3>1 DEF Families
    <3>3. r.callback["F"] = TRUE BY <1>3, <3>2
    <3> QED BY <3>3 DEF One
  <2> QED BY <2>2, <2>3, <2>4 DEF Called2
<1>4. CASE ~r.callback["W"] /\ ~r.callback["F"]
  <2>1. C = {} BY <1>4 DEF Families
  <2>2. r.callback["W"] # TRUE /\ r.callback["F"] # TRUE BY <1>4
  <2> QED BY <1>4, <2>1, <2>2, FS_EmptySet DEF Called2, One
<1> QED BY <1>1, <1>2, <1>3, <1>4

(* At rest, chaos_next_use_snapshot_validate accepts the record: no order of
   whistles, drinks, windows, boundaries, saves and restores makes the game
   unsavable, and the carrier of the rows is never full.                      *)
THEOREM AtRestItSaves == Spec => []AtRestSavable
<1>1. IInv => AtRestSavable
  <2> SUFFICES ASSUME IInv, pc \in {"observe", "monsters", "command"} PROVE SaveStatus(rt)
    BY DEF AtRestSavable
  <2>1. /\ InOrder(rt, "none", asked, felt) /\ rt \in Runtimes /\ ~rt.manifest_root
    BY Here DEF IInv, PlaceOK
  <2>2. /\ KindOK(rt) /\ WindowOK(rt, "none") /\ CallsOK(rt, "none") /\ RowsOK(rt, "none")
        /\ DelayOK(rt) /\ Settled(rt) /\ Flight(rt, "none")
    BY <2>1 DEF InOrder, Sound
  <2>3. KindKept(rt)
    <3>1. Committed(rt) \/ ~Armed(rt) BY <2>2 DEF KindOK, SlotsTerminal
    <3>2. ~Broad(rt) => (SlotsTerminal(rt) <=> ~Committed(rt)) BY <2>2 DEF KindOK, Settled
    <3> QED BY <2>2, <3>1, <3>2 DEF KindOK, KindKept
  <2>4. WindowKept(rt) BY <2>2 DEF WindowOK, WindowKept
  <2>5. CallbacksKept(rt)
    <3>1. Cardinality({f \in Families : rt.callback[f]}) = Called2(rt) BY <2>1, CalledCount
    <3>2. Called2(rt) \in Nat /\ rt.callback_ordinal \in Nat BY <2>1, Typed DEF Called2, One
    <3>3. IF Broad(rt) THEN rt.callback_ordinal \in Called2(rt)..Callbacks
                       ELSE rt.callback_ordinal = Called2(rt)
      BY <2>2, <3>2, NextUseAssumption DEF CallsOK
    <3>4. \A f \in Families : Slot(rt, f) \in {"pending", "undeclared"} => ~rt.callback[f]
      BY <2>2 DEF CallsOK, Families
    <3>5. /\ rt.slot_w \in {"armed", "quiet", "delay"} => rt.callback["W"]
          /\ rt.slot_f \in {"applied", "nonremappable", "quiet", "delay"} => rt.callback["F"]
      BY <2>2 DEF CallsOK
    <3> QED BY <3>1, <3>3, <3>4, <3>5 DEF CallbacksKept
  <2>6. rt.next_seq \in 3..PrivateMax + 1
    <3>1. rt.next_seq \in Nat /\ rt.delivered \in 0..2 /\ rt.uses \in 0..2
          /\ rt.callback_ordinal \in Nat
      BY <2>1, Typed
    <3>2. CASE Broad(rt)
      BY <2>2, <3>1, <3>2, NextUseAssumption DEF RowsOK, KindOK, CallsOK, One
    <3>3. CASE ~Broad(rt)
      BY <2>2, <3>1, <3>3, NextUseAssumption DEF RowsOK, WhistleRows, FountainRows, One
    <3> QED BY <3>2, <3>3
  <2>7. SnapshotValid(rt) BY <2>2, <2>3, <2>4, <2>5, <2>6 DEF SnapshotValid, DelayOK
  <2>8. ~rt.pending_w /\ ~rt.f_inflight BY <2>2 DEF Flight
  <2> QED BY <2>1, <2>7, <2>8 DEF SaveStatus
<1> QED BY <1>1, InductiveInvariant, PTL

(* A save in which the boundary has seen the hero's level, or whose program is
   over, is accepted by restore_level_bound_ok.                               *)
THEOREM SeenSavesRestore == Spec => []SeenSaveRestores
<1>1. IInv => SeenSaveRestores
  BY DEF IInv, InOrder, LevelOK, SeenSaveRestores, RestoreAccepts
<1> QED BY <1>1, InductiveInvariant, PTL

(* However the game is saved and restored, the program is asked and its effects
   are felt no more often than was declared.                                  *)
THEOREM GivesNoMore == Spec => []GivesWhatWasDeclared
<1>1. IInv => GivesWhatWasDeclared
  <2> SUFFICES ASSUME IInv PROVE GivesWhatWasDeclared OBVIOUS
  <2>1. /\ rt \in Runtimes /\ asked \in [Families -> Nat] /\ felt \in [Families -> Nat]
        /\ Tally(rt, asked, felt) /\ KindOK(rt) /\ CallsOK(rt, Busy) /\ WindowOK(rt, Busy)
    BY Here DEF IInv, InOrder, Sound
  <2>2. /\ rt.delivered \in 0..2 /\ rt.uses \in 0..2 /\ rt.callback_ordinal \in Nat
        /\ asked["W"] \in Nat /\ asked["F"] \in Nat /\ felt["W"] \in Nat /\ felt["F"] \in Nat
    BY <2>1, Typed DEF Families
  <2>3. CASE Broad(rt)
    BY <2>1, <2>2, <2>3, NextUseAssumption
    DEF GivesWhatWasDeclared, Tally, KindOK, CallsOK, Families
  <2>4. CASE ~Broad(rt)
    <3>1. rt.witnessed => rt.callback["W"]
      BY <2>1 DEF WindowOK, CallsOK
    <3>2. rt.slot_f = "applied" => rt.callback["F"] BY <2>1 DEF CallsOK
    <3>3. felt["W"] <= One(rt.callback["W"] = TRUE)
      BY <2>1, <2>2, <2>4, <3>1 DEF Tally, One
    <3>4. felt["F"] <= One(rt.callback["F"] = TRUE)
      BY <2>1, <2>2, <2>4, <3>2 DEF Tally, One
    <3>5. \A f \in Families : asked[f] = One(rt.callback[f] = TRUE) BY <2>1, <2>4 DEF Tally
    <3> QED BY <2>2, <2>4, <3>3, <3>4, <3>5 DEF GivesWhatWasDeclared, Families, One
  <2> QED BY <2>3, <2>4
<1> QED BY <1>1, InductiveInvariant, PTL

(* An effect is felt while its program lives, and the companion's only between
   A+5 and A+10, once a window.                                               *)
THEOREM WitnessOnTime == Spec => WitnessInWindow
<1> DEFINE InTime ==
       \A f \in Families : felt'[f] # felt[f] =>
          /\ Committed(rt)
          /\ f = "W" /\ ~rt.ring =>
                /\ Armed(rt) /\ ~rt.witnessed /\ rt'.witnessed
                /\ now \in rt.activation + WindowOpen .. rt.activation + WindowEnd - 1
<1>1. IInv /\ [Next]_vars => [InTime]_vars
  <2> SUFFICES ASSUME IInv, Next PROVE InTime BY DEF vars
  <2>1. felt \in [Families -> Nat] BY Here
  <2>2. CASE Finalize
    <3>1. CASE rt' = Witness(rt) /\ felt' = [felt EXCEPT !["W"] = @ + 1]
      <4>1. /\ InOrder(rt, "none", asked, felt) /\ Committed(rt) /\ Armed(rt) /\ rt.claimed
            /\ ~rt.witnessed /\ rt.expected_m_id
            /\ now \in rt.activation + WindowOpen .. rt.activation + WindowEnd - 1
        BY <2>2, Here DEF Finalize, IInv, PlaceOK
      <4>2. rt'.witnessed BY <2>1, <3>1, <4>1, WitnessSound
      <4> QED BY <4>1, <4>2
    <3>2. CASE felt' = felt BY <3>2
    <3> QED BY <2>2, <3>1, <3>2 DEF Finalize
  <2>3. CASE WhistleRings
    <3>1. rt.ring /\ Committed(rt) BY <2>3, Here DEF WhistleRings
    <3> QED BY <3>1
  <2>4. CASE DrinkEnds
    <3>1. Committed(rt) /\ felt'["W"] = felt["W"]
      BY <2>1, <2>4, Here DEF DrinkEnds, Families
    <3> QED BY <3>1
  <2>5. CASE \/ Observe \/ Tick \/ CompanionMoves \/ MarkIdentityUnsafe \/ CarriedOff
             \/ MonstersDone \/ Whistle \/ WhistleBinds \/ Drink \/ OtherCommand
             \/ Save \/ Restore
    <3>1. felt' = felt
      BY <2>5 DEF Observe, Tick, CompanionMoves, MarkIdentityUnsafe, CarriedOff,
                  MonstersDone, Whistle, WhistleBinds, Drink, OtherCommand, Save, Restore
    <3> QED BY <3>1
  <2> QED BY <2>2, <2>3, <2>4, <2>5 DEF Next
<1>2. WitnessInWindow <=> [][InTime]_vars BY DEF WitnessInWindow
<1> QED BY <1>1, <1>2, InductiveInvariant, PTL DEF Spec

(* Nothing in the game changes a program that has its termination row, but for
   what a restore resets.                                                     *)
THEOREM TerminatedStays == Spec => TerminatedIsFinal
<1> DEFINE Stays == ~Committed(rt) => rt' \in {rt, Import(rt, level)}
<1>1. IInv /\ [Next]_vars => [Stays]_vars
  <2> SUFFICES ASSUME IInv, Next, ~Committed(rt) PROVE rt' \in {rt, Import(rt, level)}
    BY DEF vars
  <2>1. /\ ~Armed(rt) /\ pc \notin {"whistle", "fountain", "manifest"}
        /\ rt \in Runtimes /\ level \in Levels /\ now \in Nat
        /\ InOrder(rt, "none", asked, felt)
    BY Here DEF IInv, PlaceOK
  <2>2. CASE Observe
    <3>1. Boundary(rt, level) = rt BY DEF Boundary
    <3> QED BY <2>2, <3>1 DEF Observe
  <2>3. CASE Whistle
    <3>1. Bounded(rt) = rt BY DEF Bounded, Boundary
    <3>2. ~Ready(rt, "W") BY DEF Ready, FamilyOpen
    <3> QED BY <2>3, <3>1, <3>2 DEF Whistle
  <2>4. CASE Drink BY <2>4 DEF Drink, FamilyOpen
  <2>5. CASE Restore BY <2>5 DEF Restore
  <2>6. CASE Tick \/ CarriedOff \/ MonstersDone \/ OtherCommand \/ Save
    BY <2>6 DEF Tick, CarriedOff, MonstersDone, OtherCommand, Save
  <2>7. CASE CompanionMoves \/ MarkIdentityUnsafe
    BY <2>1, <2>7 DEF CompanionMoves, MarkIdentityUnsafe
  <2>8. CASE Finalize \/ WhistleBinds \/ WhistleRings \/ DrinkEnds
    BY <2>1, <2>8 DEF Finalize, WhistleBinds, WhistleRings, DrinkEnds
  <2> QED BY <2>2, <2>3, <2>4, <2>5, <2>6, <2>7, <2>8 DEF Next
<1>2. TerminatedIsFinal <=> [][Stays]_vars BY DEF TerminatedIsFinal
<1> QED BY <1>1, <1>2, InductiveInvariant, PTL DEF Spec

=============================================================================
