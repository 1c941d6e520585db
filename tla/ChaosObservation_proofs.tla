----------------------- MODULE ChaosObservation_proofs -----------------------
(* Proofs about ChaosObservation: the log of a root, the origin it publishes,
   and whose notice it is, for every number of actions inside one another.   *)
EXTENDS ChaosObservation, SequenceTheorems, TLAPS

(* a root that stands is a started row that nothing has ended, and that no row
   names unless its notice is in                                             *)
RootStands ==
    obs.root > 0 =>
      /\ obs.root \in DOMAIN rows /\ rows[obs.root].stage = "started"
      /\ rows[obs.root].op = obs.op /\ rows[obs.root].turn = obs.turn
      /\ obs.op \in Operations /\ obs.turn <= moves
      /\ \A j \in (obs.root + 1)..Len(rows) :
           ~EndsAttribution(rows[j], obs.root) /\ (~obs.used => rows[j].root # obs.root)
      /\ \A k \in DOMAIN schedule : schedule[k].end < obs.root

(* what is armed is a fact of the family of the root *)
ArmedFits == obs.pending # "none" => obs.op \in Operations /\ obs.pending \in Facts[obs.op]

(* a root of this turn is the one of the action that runs *)
TopHolds ==
    obs.root > 0 /\ obs.turn = moves =>
      Acting /\ Top.root = obs.root /\ Top.op = obs.op

(* an action holds tokens of its own root only *)
TokensAreOwn ==
    \A c \in DOMAIN callers :
      callers[c].token # NoToken => callers[c].token.root = callers[c].root

IsNotice(n, root) ==
    /\ n \in DOMAIN rows /\ rows[n].stage = "notice" /\ rows[n].root = root
    /\ rows[n].fact \in OriginFacts

(* a pending origin has its notice in the log, or cannot be published: the
   transport has failed, or the last event number was given out before      *)
Noticed(o) == \/ failed
              \/ IsNotice(o.notice, o.root)
              \/ Len(rows) = MaxSeq /\ o.notice = MaxSeq

PendingIsNoticed ==
    \A op \in OriginOperations : origin[op].pending => Noticed(origin[op])


(* a published origin lies in order in the log *)
EntriesInOrder ==
    \A k \in DOMAIN schedule :
      schedule[k].root < schedule[k].notice /\ schedule[k].notice < schedule[k].end

(* What makes RootsAreTold and OriginsAreWitnessed inductive: they speak of rows
   that are written; these tie the root and the origins that the engine still
   holds in memory to the rows they will name when they are written.            *)
IInv == /\ TypeOK /\ RootStands /\ ArmedFits /\ TopHolds /\ TokensAreOwn /\ PendingIsNoticed
        /\ RootsAreTold /\ OriginsAreWitnessed /\ EntriesInOrder

-----------------------------------------------------------------------------
(* Types *)

Root == [root : 0..MaxSeq, turn : 0..MaxMoves, op : Operations \cup {"none"},
         pending : AnyFact \cup {"none"}, taken : BOOLEAN, used : BOOLEAN,
         blocked : BOOLEAN]
Caller == [op : Operations, root : 0..MaxSeq, token : Token]
Origin == [pending : BOOLEAN, root : 0..MaxSeq, notice : 0..MaxSeq]
Entry == [op : OriginOperations, root : 1..MaxSeq, notice : 1..MaxSeq, end : 1..MaxSeq]

LEMMA Constants == MaxSeq \in Nat /\ MaxMoves \in Nat /\ MaxDepth \in Nat /\ MaxOrigins \in Nat
  BY ObservationAssumption

LEMMA ClearedIsRoot == Cleared \in Root /\ Cleared.root = 0 /\ Cleared.pending = "none"
  BY Constants DEF Cleared, Root

LEMMA NoTokenIsToken == NoToken \in Token
  BY Constants DEF NoToken, Token

(* The families share no fact, and only two of them have facts for an origin. *)
LEMMA FamilyFacts ==
    ASSUME NEW op \in Operations, NEW fact \in Facts[op]
    PROVE  /\ fact \in AnyFact /\ fact # "none"
           /\ fact \in OriginFacts => op \in OriginOperations
  <1>1. op = "whistling" => fact = "sound"
    BY DEF Facts
  <1>2. op = "fountain_drink" =>
          fact \in {"water_refreshed", "water_foul", "cannot_reach", "detection_presented"}
    BY DEF Facts
  <1>3. op = "whistle_attention" => fact = "attention"
    BY DEF Facts
  <1>4. op = "door_open" => fact = "opened"
    BY DEF Facts
  <1>5. fact \in AnyFact
    BY DEF AnyFact
  <1> QED
    BY <1>1, <1>2, <1>3, <1>4, <1>5 DEF Operations, OriginFacts, OriginOperations

(* A call writes its row, or commits none. *)
Grows(row) ==
    /\ rows' = rows \/ (rows' = Append(rows, row) /\ Len(rows) < MaxSeq)
    /\ failed' \in BOOLEAN /\ (failed => failed')

LEMMA LogGrows ==
    ASSUME TypeOK, NEW row \in Row, NEW done \in BOOLEAN, Log(row, done)
    PROVE  /\ Grows(row)
           /\ done => rows' = Append(rows, row) /\ Len(rows) < MaxSeq
           /\ rows' # rows => done
           /\ rows' = rows => failed' \/ Len(rows) = MaxSeq
  <1>1. rows \in Seq(Row) /\ Len(rows) <= MaxSeq /\ failed \in BOOLEAN
    BY DEF TypeOK
  <1>2. Append(rows, row) # rows
    <2>1. Len(Append(rows, row)) = Len(rows) + 1
      BY <1>1
    <2> QED
      BY <1>1, <2>1
  <1>3. CASE done /\ CanLog /\ rows' = Append(rows, row) /\ UNCHANGED failed
    BY <1>1, <1>2, <1>3 DEF CanLog, Grows
  <1>4. CASE ~done /\ CanLog /\ Lossy /\ failed' = TRUE /\ UNCHANGED rows
    BY <1>1, <1>4 DEF Grows
  <1>5. CASE ~done /\ ~CanLog /\ UNCHANGED <<rows, failed>>
    <2>1. failed \/ Len(rows) = MaxSeq
      BY <1>1, <1>5, Constants DEF CanLog
    <2> QED
      BY <1>1, <1>5, <2>1 DEF Grows
  <1> QED
    BY <1>3, <1>4, <1>5 DEF Log

(* What a longer log is. *)
LEMMA GrownLog ==
    ASSUME TypeOK, NEW row \in Row, Grows(row)
    PROVE  /\ rows' \in Seq(Row) /\ Len(rows') <= MaxSeq /\ Len(rows') \in Nat
           /\ Len(rows) \in Nat /\ Len(rows) <= Len(rows')
           /\ \A i \in DOMAIN rows : i \in DOMAIN rows' /\ rows'[i] = rows[i]
           /\ \A i \in DOMAIN rows' : i \in DOMAIN rows \/ (i = Len(rows) + 1 /\ rows'[i] = row)
           /\ rows' # rows => Len(rows') = Len(rows) + 1 /\ rows'[Len(rows')] = row
  <1>1. rows \in Seq(Row) /\ Len(rows) <= MaxSeq /\ Len(rows) \in Nat
    BY DEF TypeOK
  <1>2. CASE rows' = rows
    BY <1>1, <1>2
  <1>3. CASE rows' = Append(rows, row) /\ Len(rows) < MaxSeq
    <2>1. /\ rows' \in Seq(Row) /\ Len(rows') = Len(rows) + 1 /\ rows'[Len(rows) + 1] = row
          /\ \A i \in 1..Len(rows) : rows'[i] = rows[i]
      BY <1>1, <1>3, AppendProperties
    <2>2. DOMAIN rows = 1..Len(rows) /\ DOMAIN rows' = 1..(Len(rows) + 1)
      BY <1>1, <2>1
    <2> QED
      BY <1>1, <1>3, <2>1, <2>2, Constants
  <1> QED
    BY <1>2, <1>3 DEF Grows

LEMMA RowOfIsRow ==
    ASSUME TypeOK, NEW stage \in {"started", "notice", "completed", "blocked", "boundary",
                                  "death", "other"},
           NEW op \in Operations \cup {"none"}, NEW root \in 0..MaxSeq,
           NEW fact \in AnyFact \cup {"none"}
    PROVE  /\ RowOf(stage, op, root, fact) \in Row
           /\ LET row == RowOf(stage, op, root, fact)
              IN  row.stage = stage /\ row.op = op /\ row.root = root /\ row.fact = fact
                  /\ row.turn = moves
  BY DEF RowOf, Row, TypeOK

-----------------------------------------------------------------------------
(* What a log that grows keeps: all that was told of rows and of origins. *)

(* the row may be told next *)
MayBeTold(row) ==
    row.root > 0 =>
      /\ row.root \in DOMAIN rows /\ rows[row.root].stage = "started"
      /\ rows[row.root].op = row.op /\ rows[row.root].turn = row.turn
      /\ \A j \in (row.root + 1)..Len(rows) :
           ~EndsAttribution(rows[j], row.root) /\ (row.stage = "notice" => rows[j].root # row.root)

LEMMA ToldGrows ==
    ASSUME IInv, NEW row \in Row, Grows(row), MayBeTold(row)
    PROVE  RootsAreTold'
  <1>1. TypeOK /\ RootsAreTold
    BY DEF IInv
  <1>2. /\ rows' \in Seq(Row) /\ Len(rows) \in Nat /\ DOMAIN rows = 1..Len(rows)
        /\ \A i \in DOMAIN rows : i \in DOMAIN rows' /\ rows'[i] = rows[i]
        /\ \A i \in DOMAIN rows' : i \in DOMAIN rows \/ (i = Len(rows) + 1 /\ rows'[i] = row)
    BY <1>1, GrownLog DEF TypeOK
  <1> SUFFICES ASSUME NEW i \in DOMAIN rows', rows'[i].root > 0
               PROVE  /\ rows'[i].root < i /\ rows'[rows'[i].root].stage = "started"
                      /\ rows'[rows'[i].root].op = rows'[i].op
                      /\ rows'[rows'[i].root].turn = rows'[i].turn
                      /\ \A j \in (rows'[i].root + 1)..(i - 1) :
                           /\ ~EndsAttribution(rows'[j], rows'[i].root)
                           /\ rows'[i].stage = "notice" => rows'[j].root # rows'[i].root
    BY DEF RootsAreTold, EndsAttribution
  <1> DEFINE root == rows'[i].root
  <1>3. root \in Nat /\ i \in Nat
    <2>1. i \in Nat /\ rows'[i] \in Row
      BY <1>2
    <2> QED
      BY <2>1, Constants DEF Row
  <1>4. CASE i \in DOMAIN rows
    <2>1. rows'[i] = rows[i]
      BY <1>2, <1>4
    <2>2. /\ root < i /\ rows[root].stage = "started"
          /\ rows[root].op = rows[i].op /\ rows[root].turn = rows[i].turn
          /\ \A j \in (root + 1)..(i - 1) :
               /\ ~EndsAttribution(rows[j], root)
               /\ rows[i].stage = "notice" => rows[j].root # root
      BY <1>1, <1>4, <2>1 DEF RootsAreTold
    <2>3. root \in DOMAIN rows
      BY <1>2, <1>3, <1>4, <2>2
    <2>4. \A j \in (root + 1)..(i - 1) : j \in DOMAIN rows
      BY <1>2, <1>3, <1>4
    <2> QED
      BY <1>2, <2>1, <2>2, <2>3, <2>4
  <1>5. CASE i = Len(rows) + 1 /\ rows'[i] = row
    <2>1. /\ root \in DOMAIN rows /\ rows[root].stage = "started"
          /\ rows[root].op = row.op /\ rows[root].turn = row.turn
          /\ \A j \in (root + 1)..Len(rows) :
               ~EndsAttribution(rows[j], root) /\ (row.stage = "notice" => rows[j].root # root)
      BY <1>5 DEF MayBeTold
    <2>2. root < i /\ i - 1 = Len(rows)
      BY <1>2, <1>3, <1>5, <2>1
    <2>3. \A j \in (root + 1)..(i - 1) : j \in DOMAIN rows
      BY <1>2, <1>3, <1>5
    <2> QED
      BY <1>2, <1>5, <2>1, <2>2, <2>3
  <1> QED
    BY <1>2, <1>4, <1>5

(* What is known of one published origin. *)
Witnessed(e) ==
    /\ e.root \in DOMAIN rows /\ e.notice \in DOMAIN rows /\ e.end \in DOMAIN rows
    /\ rows[e.root].stage = "started" /\ rows[e.root].op = e.op
    /\ rows[e.notice].stage = "notice" /\ rows[e.notice].root = e.root
    /\ rows[e.notice].fact \in OriginFacts
    /\ e.end < MaxSeq => rows[e.end].stage = "completed" /\ rows[e.end].root = e.root

LEMMA EntryFacts ==
    ASSUME IInv, NEW k \in DOMAIN schedule
    PROVE  /\ schedule[k] \in Entry /\ k \in Nat
           /\ Witnessed(schedule[k]) /\ schedule[k].root < schedule[k].notice
           /\ schedule[k].notice < schedule[k].end
           /\ \A j \in 1..(k - 1) : schedule[j].end < schedule[k].root
  <1>1. schedule \in Seq(Entry) /\ rows \in Seq(Row)
    BY DEF IInv, TypeOK, Entry
  <1>2. schedule[k] \in Entry /\ k \in Nat
    BY <1>1
  <1>3. schedule[k].root < schedule[k].notice /\ schedule[k].notice < schedule[k].end
    BY DEF IInv, EntriesInOrder
  <1>4. /\ schedule[k].end \in DOMAIN rows
        /\ rows[schedule[k].root].stage = "started"
        /\ rows[schedule[k].root].op = schedule[k].op
        /\ rows[schedule[k].notice].stage = "notice"
        /\ rows[schedule[k].notice].root = schedule[k].root
        /\ rows[schedule[k].notice].fact \in OriginFacts
        /\ schedule[k].end < MaxSeq => /\ rows[schedule[k].end].stage = "completed"
                                       /\ rows[schedule[k].end].root = schedule[k].root
        /\ \A j \in 1..(k - 1) : schedule[j].end < schedule[k].root
    BY DEF IInv, OriginsAreWitnessed
  <1>5. schedule[k].root \in 1..MaxSeq /\ schedule[k].notice \in 1..MaxSeq
        /\ schedule[k].end \in 1..MaxSeq
    BY <1>2 DEF Entry
  <1>6. schedule[k].root \in DOMAIN rows /\ schedule[k].notice \in DOMAIN rows
    <2>1. DOMAIN rows = 1..Len(rows) /\ Len(rows) \in Nat
      BY <1>1
    <2> QED
      BY <2>1, <1>3, <1>4, <1>5, Constants
  <1> QED
    BY <1>2, <1>3, <1>4, <1>6 DEF Witnessed

LEMMA WitnessedGrows ==
    ASSUME IInv, NEW row \in Row, Grows(row), NEW k \in DOMAIN schedule,
           schedule'[k] = schedule[k]
    PROVE  Witnessed(schedule[k])'
  <1>1. \A i \in DOMAIN rows : i \in DOMAIN rows' /\ rows'[i] = rows[i]
    BY GrownLog DEF IInv
  <1> QED
    BY <1>1, EntryFacts DEF Witnessed

LEMMA PublishedGrows ==
    ASSUME IInv, NEW row \in Row, Grows(row), schedule' = schedule
    PROVE  OriginsAreWitnessed' /\ EntriesInOrder'
  <1>1. EntriesInOrder'
    BY DEF IInv, EntriesInOrder
  <1>2. \A k \in DOMAIN schedule' :
          /\ Witnessed(schedule[k])'
          /\ \A j \in 1..(k - 1) : schedule'[j].end < schedule'[k].root
    BY WitnessedGrows, EntryFacts
  <1> QED
    BY <1>1, <1>2 DEF OriginsAreWitnessed, Witnessed

LEMMA NoticedGrows ==
    ASSUME IInv, NEW row \in Row, Grows(row), NEW op \in OriginOperations,
           origin[op].pending, origin'[op] = origin[op]
    PROVE  Noticed(origin[op])'
  <1>1. TypeOK /\ Noticed(origin[op])
    BY DEF IInv, PendingIsNoticed
  <1>2. \A i \in DOMAIN rows : i \in DOMAIN rows' /\ rows'[i] = rows[i]
    BY <1>1, GrownLog
  <1>3. CASE failed
    BY <1>3 DEF Grows, Noticed
  <1>4. CASE IsNotice(origin[op].notice, origin[op].root)
    BY <1>2, <1>4 DEF IsNotice, Noticed
  <1>5. CASE Len(rows) = MaxSeq /\ origin[op].notice = MaxSeq
    BY <1>5, Constants DEF Grows, Noticed
  <1> QED
    BY <1>1, <1>3, <1>4, <1>5 DEF Noticed

(* The rows, the origins and the schedule, when nothing but a row is new. *)
LEMMA RecordsGrow ==
    ASSUME IInv, NEW row \in Row, Grows(row), MayBeTold(row), NoOriginChange
    PROVE  PendingIsNoticed' /\ RootsAreTold' /\ OriginsAreWitnessed' /\ EntriesInOrder'
  <1>1. schedule' = schedule /\ origin' = origin
    BY DEF NoOriginChange
  <1>2. PendingIsNoticed'
    BY <1>1, NoticedGrows DEF PendingIsNoticed
  <1> QED
    BY <1>1, <1>2, ToldGrows, PublishedGrows

-----------------------------------------------------------------------------
(* What the root may become *)

LEMMA RootlessStands ==
    ASSUME obs'.root = 0, obs'.pending = "none"
    PROVE  RootStands' /\ ArmedFits' /\ TopHolds'
  BY DEF RootStands, ArmedFits, TopHolds

LEMMA ClearedStands ==
    ASSUME obs' = Cleared
    PROVE  RootStands' /\ ArmedFits' /\ TopHolds'
  BY ClearedIsRoot, RootlessStands

SameRoot ==
    /\ obs'.root = obs.root /\ obs'.turn = obs.turn /\ obs'.op = obs.op
    /\ obs.used => obs'.used

LEMMA RootGrows ==
    ASSUME IInv, NEW row \in Row, Grows(row), SameRoot, schedule' = schedule,
           moves' \in {moves, moves + 1},
           obs.root > 0 => ~EndsAttribution(row, obs.root),
           obs.root > 0 /\ ~obs'.used => row.root # obs.root
    PROVE  RootStands'
  <1> SUFFICES ASSUME obs.root > 0
               PROVE  /\ obs.root \in DOMAIN rows' /\ rows'[obs.root].stage = "started"
                      /\ rows'[obs.root].op = obs.op /\ rows'[obs.root].turn = obs.turn
                      /\ obs.op \in Operations /\ obs.turn <= moves'
                      /\ \A j \in (obs.root + 1)..Len(rows') :
                           /\ ~EndsAttribution(rows'[j], obs.root)
                           /\ ~obs'.used => rows'[j].root # obs.root
                      /\ \A k \in DOMAIN schedule : schedule[k].end < obs.root
    BY DEF RootStands, SameRoot, EndsAttribution
  <1>1. /\ obs.root \in DOMAIN rows /\ rows[obs.root].stage = "started"
        /\ rows[obs.root].op = obs.op /\ rows[obs.root].turn = obs.turn
        /\ obs.op \in Operations /\ obs.turn <= moves
        /\ \A j \in (obs.root + 1)..Len(rows) :
             ~EndsAttribution(rows[j], obs.root) /\ (~obs.used => rows[j].root # obs.root)
        /\ \A k \in DOMAIN schedule : schedule[k].end < obs.root
    BY DEF IInv, RootStands
  <1>2. /\ Len(rows) \in Nat /\ DOMAIN rows = 1..Len(rows) /\ obs.root \in Nat
        /\ moves \in Nat /\ obs.turn \in Nat
    BY Constants DEF IInv, TypeOK
  <1>3. /\ rows' \in Seq(Row) /\ DOMAIN rows' = 1..Len(rows')
        /\ \A i \in DOMAIN rows : i \in DOMAIN rows' /\ rows'[i] = rows[i]
        /\ \A i \in DOMAIN rows' : i \in DOMAIN rows \/ (i = Len(rows) + 1 /\ rows'[i] = row)
    BY GrownLog DEF IInv
  <1>4. ASSUME NEW j \in (obs.root + 1)..Len(rows')
        PROVE  ~EndsAttribution(rows'[j], obs.root) /\ (~obs'.used => rows'[j].root # obs.root)
    <2>1. j \in DOMAIN rows'
      BY <1>2, <1>3, <1>4
    <2>2. CASE j \in DOMAIN rows
      <3>1. j \in (obs.root + 1)..Len(rows) /\ rows'[j] = rows[j]
        BY <1>2, <1>3, <1>4, <2>2
      <3> QED
        BY <1>1, <3>1 DEF SameRoot
    <2>3. CASE rows'[j] = row
      BY <2>3
    <2> QED
      BY <1>3, <2>1, <2>2, <2>3
  <1>5. obs.turn <= moves'
    BY <1>1, <1>2
  <1> QED
    BY <1>1, <1>3, <1>4, <1>5

LEMMA QuietGrows ==
    ASSUME TypeOK, Quiet
    PROVE  /\ rows' = rows /\ failed' = failed
           /\ RowOf("other", "none", 0, "none") \in Row
           /\ RowOf("other", "none", 0, "none").root = 0
           /\ RowOf("other", "none", 0, "none").stage = "other"
           /\ Grows(RowOf("other", "none", 0, "none"))
           /\ MayBeTold(RowOf("other", "none", 0, "none"))
  <1>1. rows' = rows /\ failed' = failed /\ failed \in BOOLEAN
    BY DEF Quiet, TypeOK
  <1>2. /\ RowOf("other", "none", 0, "none") \in Row
        /\ RowOf("other", "none", 0, "none").root = 0
        /\ RowOf("other", "none", 0, "none").stage = "other"
    BY RowOfIsRow, Constants
  <1> QED
    BY <1>1, <1>2 DEF Grows, MayBeTold

LEMMA NotEnding ==
    ASSUME NEW row, NEW root, row.stage \in {"other", "notice"}
    PROVE  ~EndsAttribution(row, root)
  BY DEF EndsAttribution

-----------------------------------------------------------------------------
(* The actions that run *)

CallersOK == callers \in Seq(Caller) /\ Len(callers) <= MaxDepth

LEMMA CallersTyped == ASSUME IInv PROVE CallersOK /\ DOMAIN callers = 1..Len(callers)
  BY DEF IInv, TypeOK, CallersOK, Caller

LEMMA Held ==
    ASSUME IInv, NEW c \in DOMAIN callers, NEW token \in Token, Holding(c, token),
           token = NoToken \/ token.root = callers[c].root
    PROVE  /\ CallersOK' /\ Len(callers') = Len(callers) /\ TokensAreOwn'
           /\ callers'[c].token = token
           /\ \A b \in DOMAIN callers : callers'[b].op = callers[b].op
                                        /\ callers'[b].root = callers[b].root
  <1> DEFINE new == [callers[c] EXCEPT !.token = token]
  <1>1. callers \in Seq(Caller) /\ Len(callers) <= MaxDepth /\ callers[c] \in Caller
    BY CallersTyped DEF CallersOK
  <1>2. new \in Caller /\ new.op = callers[c].op /\ new.root = callers[c].root
        /\ new.token = token
    BY <1>1 DEF Caller
  <1>3. callers' = [callers EXCEPT ![c] = new]
    BY DEF Holding
  <1> HIDE DEF new
  <1>4. /\ callers' \in Seq(Caller) /\ Len(callers') = Len(callers)
        /\ DOMAIN callers' = DOMAIN callers /\ callers'[c] = new
        /\ \A b \in DOMAIN callers : b # c => callers'[b] = callers[b]
    BY <1>1, <1>2, <1>3
  <1>5. TokensAreOwn'
    BY <1>2, <1>4 DEF IInv, TokensAreOwn
  <1> QED
    BY <1>1, <1>2, <1>4, <1>5 DEF CallersOK

LEMMA Pushed ==
    ASSUME IInv, Len(callers) < MaxDepth, NEW op \in Operations, NEW root \in 0..MaxSeq,
           Push(op, root)
    PROVE  /\ CallersOK' /\ TokensAreOwn' /\ Acting'
           /\ Top'.op = op /\ Top'.root = root
  <1> DEFINE new == [op |-> op, root |-> root, token |-> NoToken]
  <1>1. callers \in Seq(Caller) /\ Len(callers) \in Nat
    BY CallersTyped DEF CallersOK
  <1>2. new \in Caller /\ new.op = op /\ new.root = root /\ new.token = NoToken
    BY NoTokenIsToken DEF Caller
  <1>3. callers' = Append(callers, new)
    BY DEF Push
  <1> HIDE DEF new
  <1>4. /\ callers' \in Seq(Caller) /\ Len(callers') = Len(callers) + 1
        /\ callers'[Len(callers) + 1] = new
        /\ \A b \in 1..Len(callers) : callers'[b] = callers[b]
    BY <1>1, <1>2, <1>3, AppendProperties
  <1>5. DOMAIN callers' = 1..(Len(callers) + 1) /\ DOMAIN callers = 1..Len(callers)
    BY <1>1, <1>4
  <1>6. TokensAreOwn'
    <2> SUFFICES ASSUME NEW b \in DOMAIN callers'
                 PROVE  callers'[b].token # NoToken => callers'[b].token.root = callers'[b].root
      BY DEF TokensAreOwn
    <2>1. CASE b \in DOMAIN callers
      BY <1>4, <1>5, <2>1 DEF IInv, TokensAreOwn
    <2>2. CASE b = Len(callers) + 1
      BY <1>2, <1>4, <2>2
    <2> QED
      BY <1>1, <1>5, <2>1, <2>2
  <1>7. Acting'
    BY <1>1, <1>4 DEF Acting
  <1>8. Top' = new
    BY <1>4 DEF Top
  <1>9. CallersOK'
    BY <1>1, <1>4, Constants DEF CallersOK
  <1> QED
    BY <1>2, <1>6, <1>7, <1>8, <1>9

LEMMA Popped ==
    ASSUME IInv, Acting, Pop
    PROVE  CallersOK' /\ TokensAreOwn'
  <1>1. callers \in Seq(Caller) /\ Len(callers) <= MaxDepth /\ callers # <<>>
        /\ callers' = SubSeq(callers, 1, Len(callers) - 1)
    BY CallersTyped DEF CallersOK, Acting, Pop
  <1>2. Len(callers) \in Nat \ {0}
    BY <1>1, EmptySeq
  <1>3. /\ callers' \in Seq(Caller) /\ Len(callers') = Len(callers) - 1
        /\ \A b \in 1..(Len(callers) - 1) : callers'[b] = callers[b]
    <2> DEFINE n == Len(callers) - 1
    <2>1. 1 \in 1..(Len(callers) + 1) /\ n \in (1 - 1)..Len(callers) /\ n \in Nat
      BY <1>2
    <2> HIDE DEF n
    <2>2. callers' = SubSeq(callers, 1, n)
      BY <1>1 DEF n
    <2>3. /\ callers' \in Seq(Caller) /\ Len(callers') = n
          /\ \A b \in 1..n : callers'[b] = callers[b]
      BY <1>1, <2>1, <2>2
    <2> QED
      BY <2>3 DEF n
  <1>4. DOMAIN callers' = 1..(Len(callers) - 1) /\ DOMAIN callers = 1..Len(callers)
    BY <1>1, <1>2, <1>3
  <1>5. \A b \in DOMAIN callers' : b \in DOMAIN callers /\ callers'[b] = callers[b]
    BY <1>2, <1>3, <1>4
  <1>6. TokensAreOwn'
    BY <1>5 DEF IInv, TokensAreOwn
  <1> QED
    BY <1>1, <1>2, <1>3, <1>6, Constants DEF CallersOK

-----------------------------------------------------------------------------
(* A step that writes nothing: what is asked of it *)

RootOK == RootStands /\ ArmedFits /\ TopHolds

ObsTyped == obs \in Root

RestTyped ==
    /\ over \in BOOLEAN /\ scheduleFailed \in BOOLEAN /\ moves \in 0..MaxMoves
    /\ origin \in [OriginOperations -> Origin]
    /\ schedule \in Seq(Entry) /\ Len(schedule) <= MaxOrigins

LogTyped == rows \in Seq(Row) /\ Len(rows) <= MaxSeq /\ failed \in BOOLEAN

LEMMA TypeParts == TypeOK <=> LogTyped /\ ObsTyped /\ CallersOK /\ RestTyped
  BY DEF TypeOK, LogTyped, ObsTyped, CallersOK, RestTyped, Root, Caller, Origin, Entry

LEMMA RestKept ==
    ASSUME IInv, World, NoOriginChange
    PROVE  RestTyped'
  BY TypeParts DEF IInv, RestTyped, World, NoOriginChange

LEMMA LogTypedGrows ==
    ASSUME IInv, NEW row \in Row, Grows(row)
    PROVE  LogTyped'
  <1>1. rows' \in Seq(Row) /\ Len(rows') <= MaxSeq
    BY GrownLog DEF IInv
  <1> QED
    BY <1>1 DEF LogTyped, Grows

LEMMA QuietStep ==
    ASSUME IInv, Quiet, NoOriginChange, RestTyped', ObsTyped', CallersOK', TokensAreOwn',
           RootOK'
    PROVE  IInv'
  <1> DEFINE row == RowOf("other", "none", 0, "none")
  <1>1. row \in Row /\ Grows(row) /\ MayBeTold(row)
    BY QuietGrows DEF IInv
  <1> HIDE DEF row
  <1>2. PendingIsNoticed' /\ RootsAreTold' /\ OriginsAreWitnessed' /\ EntriesInOrder'
    BY <1>1, RecordsGrow
  <1>3. LogTyped'
    BY <1>1, LogTypedGrows
  <1>4. TypeOK'
    BY <1>3, TypeParts DEF TypeOK, LogTyped, ObsTyped, CallersOK, RestTyped,
                           Root, Caller, Origin, Entry
  <1> QED
    BY <1>2, <1>4 DEF IInv, RootOK

(* A step that writes a row, and publishes nothing *)
LogStep(row) == Grows(row) /\ MayBeTold(row)

LEMMA WrittenStep ==
    ASSUME IInv, NEW row \in Row, LogStep(row), NoOriginChange, RestTyped', ObsTyped',
           CallersOK', TokensAreOwn', RootOK'
    PROVE  IInv'
  <1>1. PendingIsNoticed' /\ RootsAreTold' /\ OriginsAreWitnessed' /\ EntriesInOrder'
    BY RecordsGrow DEF LogStep
  <1>2. LogTyped'
    BY LogTypedGrows DEF LogStep
  <1>3. TypeOK'
    BY <1>2 DEF TypeOK, LogTyped, ObsTyped, CallersOK, RestTyped, Root, Caller, Origin, Entry
  <1> QED
    BY <1>1, <1>3 DEF IInv, RootOK

(* The root a quiet step leaves: cleared, or the same one *)
LEMMA SameRootStands ==
    ASSUME IInv, Quiet, World, NoOriginChange, SameRoot
    PROVE  RootStands'
  <1> DEFINE row == RowOf("other", "none", 0, "none")
  <1>1. row \in Row /\ Grows(row) /\ row.root = 0 /\ row.stage = "other"
    BY QuietGrows DEF IInv
  <1>2. schedule' = schedule /\ moves' = moves
    BY DEF NoOriginChange, World
  <1>3. obs.root \in Nat
    BY Constants, TypeParts DEF IInv, ObsTyped, Root
  <1> HIDE DEF row
  <1> QED
    BY <1>1, <1>2, <1>3, NotEnding, RootGrows

LEMMA Now ==
    ASSUME IInv
    PROVE  /\ Current(obs) => Ready /\ obs.root > 0 /\ obs.turn = moves /\ Fresh(obs) = obs
                              /\ Acting /\ Top.root = obs.root /\ Top.op = obs.op
                              /\ obs.op \in Operations
           /\ Fresh(obs) \in {obs, Cleared}
           /\ obs \in Root /\ obs.root \in Nat /\ moves \in Nat /\ obs.turn \in Nat
  <1>1. obs \in Root /\ obs.root \in Nat /\ moves \in Nat /\ obs.turn \in Nat
    BY Constants, TypeParts DEF IInv, ObsTyped, RestTyped, Root
  <1>2. Fresh(obs) \in {obs, Cleared}
    BY DEF Fresh
  <1>3. ASSUME Current(obs)
        PROVE  Ready /\ obs.root > 0 /\ obs.turn = moves /\ Fresh(obs) = obs
    BY <1>3, ClearedIsRoot DEF Current, Fresh
  <1> QED
    BY <1>1, <1>2, <1>3 DEF IInv, TopHolds, RootStands

(* the callers keep their places, operations and roots *)
SamePlaces ==
    /\ Len(callers') = Len(callers) /\ DOMAIN callers' = DOMAIN callers
    /\ \A b \in DOMAIN callers : callers'[b].op = callers[b].op /\ callers'[b].root = callers[b].root

LEMMA TopStays ==
    ASSUME IInv, SamePlaces, SameRoot, moves' = moves, CallersOK'
    PROVE  TopHolds'
  <1> SUFFICES ASSUME obs.root > 0, obs.turn = moves
               PROVE  Acting' /\ Top'.root = obs.root /\ Top'.op = obs.op
    BY DEF TopHolds, SameRoot
  <1>1. Acting /\ Top.root = obs.root /\ Top.op = obs.op
    BY DEF IInv, TopHolds
  <1>2. callers \in Seq(Caller) /\ callers # <<>> /\ callers' \in Seq(Caller)
    BY <1>1, CallersTyped DEF CallersOK, Acting
  <1>3. Len(callers) \in DOMAIN callers
    BY <1>2
  <1>4. callers' # <<>>
    BY <1>2, <1>3 DEF SamePlaces
  <1> QED
    BY <1>1, <1>3, <1>4 DEF SamePlaces, Top, Acting

LEMMA CallersKept ==
    ASSUME IInv, UNCHANGED callers
    PROVE  CallersOK' /\ TokensAreOwn' /\ SamePlaces
  BY CallersTyped DEF IInv, CallersOK, TokensAreOwn, SamePlaces

-----------------------------------------------------------------------------
(* The calls that write nothing *)

LEMMA ArmIInv == ASSUME IInv, NEW fact \in Explored, Arm(fact) PROVE IInv'
  <1>1. Acting /\ fact \in Facts[Top.op] /\ Quiet /\ UNCHANGED callers /\ World /\ NoOriginChange
    BY DEF Arm
  <1>2. CallersOK' /\ TokensAreOwn' /\ SamePlaces /\ RestTyped' /\ moves' = moves
    BY <1>1, CallersKept, RestKept DEF World
  <1>3. obs \in Root /\ Fresh(obs) \in {obs, Cleared}
    BY Now
  <1>4. CASE Current(obs) /\ ~obs.used /\ obs.op = Top.op
    <2>1. obs' = [obs EXCEPT !.pending = fact, !.taken = FALSE]
      BY <1>4 DEF Arm
    <2>2. obs.op \in Operations
      BY <1>4, Now
    <2>3. fact \in AnyFact
      BY <1>1, <1>4, <2>2, FamilyFacts
    <2>4. obs' \in Root /\ SameRoot /\ obs'.pending = fact
      BY <1>3, <2>1, <2>3 DEF Root, SameRoot
    <2>5. ArmedFits'
      BY <1>1, <1>4, <2>2, <2>4 DEF ArmedFits, SameRoot
    <2>6. RootStands' /\ TopHolds'
      BY <1>1, <1>2, <2>4, SameRootStands, TopStays
    <2> QED
      BY <1>1, <1>2, <2>4, <2>5, <2>6, QuietStep DEF RootOK, ObsTyped
  <1>5. CASE ~(Current(obs) /\ ~obs.used /\ obs.op = Top.op) /\ Fresh(obs) = obs
    <2>1. obs' = [obs EXCEPT !.pending = "none", !.taken = FALSE]
      BY <1>5 DEF Arm, Disarmed
    <2>2. obs' \in Root /\ SameRoot /\ obs'.pending = "none"
      BY <1>3, <2>1 DEF Root, SameRoot
    <2>3. RootStands' /\ TopHolds' /\ ArmedFits'
      BY <1>1, <1>2, <2>2, SameRootStands, TopStays DEF ArmedFits
    <2> QED
      BY <1>1, <1>2, <2>2, <2>3, QuietStep DEF RootOK, ObsTyped
  <1>6. CASE ~(Current(obs) /\ ~obs.used /\ obs.op = Top.op) /\ Fresh(obs) = Cleared
    <2>1. obs' = [Cleared EXCEPT !.pending = "none", !.taken = FALSE]
      BY <1>6 DEF Arm, Disarmed
    <2>2. obs' \in Root /\ obs'.root = 0 /\ obs'.pending = "none"
      BY <2>1, ClearedIsRoot DEF Root
    <2> QED
      BY <1>1, <1>2, <2>2, RootlessStands, QuietStep DEF RootOK, ObsTyped
  <1> QED
    BY <1>3, <1>4, <1>5, <1>6

LEMMA DisarmIInv == ASSUME IInv, Disarm PROVE IInv'
  <1>1. Quiet /\ UNCHANGED callers /\ World /\ NoOriginChange
        /\ obs' = [obs EXCEPT !.pending = "none", !.taken = FALSE]
    BY DEF Disarm, Disarmed
  <1>2. CallersOK' /\ TokensAreOwn' /\ SamePlaces /\ RestTyped' /\ moves' = moves
    BY <1>1, CallersKept, RestKept DEF World
  <1>3. obs' \in Root /\ SameRoot /\ obs'.pending = "none"
    BY <1>1, Now DEF Root, SameRoot
  <1>4. RootStands' /\ TopHolds' /\ ArmedFits'
    BY <1>1, <1>2, <1>3, SameRootStands, TopStays DEF ArmedFits
  <1> QED
    BY <1>1, <1>2, <1>3, <1>4, QuietStep DEF RootOK, ObsTyped

LEMMA TakeIInv == ASSUME IInv, NEW channel \in {"message", "map"}, Take(channel) PROVE IInv'
  <1> DEFINE token == [root |-> obs.root, fact |-> obs.pending]
  <1>1. /\ Acting /\ Current(obs) /\ obs' = [obs EXCEPT !.taken = TRUE]
        /\ Holding(Len(callers), token) /\ Quiet /\ World /\ NoOriginChange
    BY DEF Take
  <1>2. obs \in Root /\ Top.root = obs.root
    BY <1>1, Now
  <1>3. token \in Token /\ token.root = callers[Len(callers)].root
    BY <1>2 DEF Root, Token, Top
  <1>4. Len(callers) \in DOMAIN callers
    BY <1>1, CallersTyped, EmptySeq DEF CallersOK, Acting
  <1> HIDE DEF token
  <1>5. CallersOK' /\ TokensAreOwn' /\ SamePlaces
    <2>1. CallersOK' /\ Len(callers') = Len(callers) /\ TokensAreOwn'
          /\ \A b \in DOMAIN callers : callers'[b].op = callers[b].op
                                        /\ callers'[b].root = callers[b].root
      BY <1>1, <1>3, <1>4, Held
    <2> QED
      BY <2>1, CallersTyped DEF SamePlaces, CallersOK
  <1>6. obs' \in Root /\ SameRoot /\ obs'.pending = obs.pending
    BY <1>1, <1>2 DEF Root, SameRoot
  <1>7. ArmedFits'
    BY <1>6 DEF IInv, ArmedFits, SameRoot
  <1>8. RestTyped' /\ moves' = moves
    BY <1>1, RestKept DEF World
  <1>9. RootStands' /\ TopHolds'
    BY <1>1, <1>5, <1>6, <1>8, SameRootStands, TopStays
  <1> QED
    BY <1>1, <1>5, <1>6, <1>7, <1>8, <1>9, QuietStep DEF RootOK, ObsTyped

LEMMA GlanceIInv == ASSUME IInv, Glance PROVE IInv'
  <1>1. Quiet /\ UNCHANGED callers /\ World /\ NoOriginChange /\ obs' = Cleared
    BY DEF Glance
  <1> QED
    BY <1>1, CallersKept, RestKept, ClearedStands, ClearedIsRoot, QuietStep DEF RootOK, ObsTyped

LEMMA TurnIInv == ASSUME IInv, Turn PROVE IInv'
  <1>1. /\ Quiet /\ UNCHANGED callers /\ UNCHANGED obs /\ NoOriginChange
        /\ moves < MaxMoves /\ moves' = moves + 1 /\ over' = over
    BY DEF Turn
  <1>2. CallersOK' /\ TokensAreOwn'
    BY <1>1, CallersKept
  <1>3. RestTyped'
    BY <1>1, TypeParts, Constants DEF IInv, RestTyped, NoOriginChange
  <1>4. RootStands'
    <2> DEFINE row == RowOf("other", "none", 0, "none")
    <2>1. row \in Row /\ Grows(row) /\ row.root = 0 /\ row.stage = "other"
      BY <1>1, QuietGrows DEF IInv
    <2>2. SameRoot /\ schedule' = schedule /\ obs.root \in Nat
      BY <1>1, Now DEF SameRoot, NoOriginChange
    <2> HIDE DEF row
    <2> QED
      BY <1>1, <2>1, <2>2, NotEnding, RootGrows
  <1>5. TopHolds'
    <2>1. obs.root > 0 => obs.turn <= moves
      BY DEF IInv, RootStands
    <2>2. ~(obs.root > 0 /\ obs.turn = moves + 1)
      BY <2>1, Now
    <2> QED
      BY <1>1, <2>2 DEF TopHolds
  <1>6. ArmedFits' /\ ObsTyped'
    BY <1>1, TypeParts DEF IInv, ArmedFits, ObsTyped
  <1> QED
    BY <1>1, <1>2, <1>3, <1>4, <1>5, <1>6, QuietStep DEF RootOK

(* a root that is seen again: as it stands, or cleared *)
LEMMA SeenAgain ==
    ASSUME IInv, Quiet, World, NoOriginChange, CallersOK', TokensAreOwn', SamePlaces,
           obs' \in {obs, Cleared}
    PROVE  IInv'
  <1>1. RestTyped' /\ moves' = moves
    BY RestKept DEF World
  <1>2. CASE obs' = Cleared
    BY <1>1, <1>2, ClearedStands, ClearedIsRoot, QuietStep DEF RootOK, ObsTyped
  <1>3. CASE obs' = obs
    <2>1. SameRoot /\ obs' \in Root
      BY <1>3, Now DEF SameRoot
    <2>2. RootStands' /\ TopHolds'
      BY <1>1, <2>1, SameRootStands, TopStays
    <2>3. ArmedFits'
      BY <1>3 DEF IInv, ArmedFits
    <2> QED
      BY <1>1, <2>1, <2>2, <2>3, QuietStep DEF RootOK, ObsTyped
  <1> QED
    BY <1>2, <1>3

LEMMA BlockedIInv == ASSUME IInv, Blocked PROVE IInv'
  <1>1. Quiet /\ UNCHANGED callers /\ World /\ NoOriginChange
    BY DEF Blocked
  <1>2. CallersOK' /\ TokensAreOwn' /\ SamePlaces /\ RestTyped' /\ moves' = moves
    BY <1>1, CallersKept, RestKept DEF World
  <1>3. CASE Current(obs) /\ obs.op \in AllowBlocked
    <2>1. obs' = [obs EXCEPT !.blocked = TRUE]
      BY <1>3 DEF Blocked
    <2>2. obs' \in Root /\ SameRoot /\ obs'.pending = obs.pending
      BY <2>1, Now DEF Root, SameRoot
    <2>3. ArmedFits'
      BY <2>2 DEF IInv, ArmedFits, SameRoot
    <2>4. RootStands' /\ TopHolds'
      BY <1>1, <1>2, <2>2, SameRootStands, TopStays
    <2> QED
      BY <1>1, <1>2, <2>2, <2>3, <2>4, QuietStep DEF RootOK, ObsTyped
  <1>4. CASE ~(Current(obs) /\ obs.op \in AllowBlocked)
    <2>1. obs' \in {obs, Cleared}
      BY <1>4, Now DEF Blocked
    <2> QED
      BY <1>1, <1>2, <2>1, SeenAgain
  <1> QED
    BY <1>3, <1>4

LEMMA HeldNothing ==
    ASSUME IInv, NEW c \in DOMAIN callers, Holding(c, NoToken)
    PROVE  CallersOK' /\ TokensAreOwn' /\ SamePlaces /\ callers'[c].token = NoToken
  <1>1. /\ CallersOK' /\ Len(callers') = Len(callers) /\ TokensAreOwn'
        /\ callers'[c].token = NoToken
        /\ \A b \in DOMAIN callers : callers'[b].op = callers[b].op
                                     /\ callers'[b].root = callers[b].root
    BY NoTokenIsToken, Held
  <1> QED
    BY <1>1, CallersTyped DEF SamePlaces, CallersOK

LEMMA NotRenderedIInv == ASSUME IInv, NEW c \in DOMAIN callers, NotRendered(c) PROVE IInv'
  <1>1. Holding(c, NoToken) /\ Quiet /\ UNCHANGED obs /\ World /\ NoOriginChange
    BY DEF NotRendered
  <1> QED
    BY <1>1, HeldNothing, SeenAgain

-----------------------------------------------------------------------------
(* The calls that write a row *)

LEMMA UntoldMay ==
    ASSUME NEW row, row.root = 0
    PROVE  MayBeTold(row)
  BY DEF MayBeTold

(* an action begins with the root its row is, or with none *)
LEMMA RootBegins ==
    ASSUME IInv, NEW op \in Operations, Len(callers) < MaxDepth,
           Log(RowOf("started", op, 0, "none"), TRUE), obs' = Rooted(op),
           Push(op, Len(rows')), World, NoOriginChange
    PROVE  IInv'
  <1> DEFINE row == RowOf("started", op, 0, "none")
             n == Len(rows')
  <1>1. row \in Row /\ row.root = 0 /\ row.stage = "started" /\ row.op = op /\ row.turn = moves
    BY RowOfIsRow, Constants DEF IInv
  <1> HIDE DEF row
  <1>2. Grows(row) /\ rows' = Append(rows, row) /\ Len(rows) < MaxSeq
    BY <1>1, LogGrows DEF IInv, row
  <1>3. /\ n \in 1..MaxSeq /\ n = Len(rows) + 1 /\ rows'[n] = row /\ n \in DOMAIN rows'
        /\ Len(rows) \in Nat
    <2>1. rows \in Seq(Row) /\ rows' \in Seq(Row)
      BY <1>1, <1>2, GrownLog DEF IInv, TypeOK
    <2>2. n = Len(rows) + 1 /\ rows'[Len(rows) + 1] = row
      BY <1>1, <1>2, <2>1, AppendProperties
    <2> QED
      BY <1>2, <2>1, <2>2, Constants
  <1> HIDE DEF n
  <1>4. CallersOK' /\ TokensAreOwn' /\ Acting' /\ Top'.op = op /\ Top'.root = n
    BY <1>3, Pushed, Constants DEF n
  <1>5. /\ obs' \in Root /\ obs'.root = n /\ obs'.turn = moves /\ obs'.op = op
        /\ obs'.pending = "none" /\ moves \in Nat
    <2>1. obs' = [root |-> n, turn |-> moves, op |-> op, pending |-> "none", taken |-> FALSE,
                  used |-> FALSE, blocked |-> FALSE]
      BY DEF Rooted, Cleared, n
    <2>2. moves \in 0..MaxMoves
      BY DEF IInv, TypeOK
    <2> QED
      BY <1>3, <2>1, <2>2, Constants DEF Root
  <1>6. RestTyped' /\ moves' = moves /\ schedule' = schedule
    BY RestKept DEF World, NoOriginChange
  <1>7. RootStands'
    <2>1. ASSUME NEW k \in DOMAIN schedule PROVE schedule[k].end < n
      <3>1. schedule[k].end \in DOMAIN rows /\ rows \in Seq(Row)
        BY EntryFacts DEF Witnessed, IInv, TypeOK
      <3> QED
        BY <1>3, <3>1
    <2>2. \A j \in (n + 1)..n : FALSE
      BY <1>3
    <2> QED
      BY <1>1, <1>3, <1>5, <1>6, <2>1, <2>2 DEF RootStands, n
  <1>8. TopHolds' /\ ArmedFits'
    BY <1>4, <1>5 DEF TopHolds, ArmedFits
  <1> QED
    BY <1>1, <1>2, <1>4, <1>5, <1>6, <1>7, <1>8, UntoldMay, WrittenStep
       DEF RootOK, ObsTyped, LogStep

(* a row of no root is written, or not, and no root stands after it *)
LEMMA AttributionEnds ==
    ASSUME IInv, NEW stage \in {"started", "boundary", "death", "other"},
           NEW op \in Operations \cup {"none"}, NEW done \in BOOLEAN,
           Log(RowOf(stage, op, 0, "none"), done), obs' = Cleared,
           CallersOK', TokensAreOwn', RestTyped', NoOriginChange
    PROVE  IInv'
  <1> DEFINE row == RowOf(stage, op, 0, "none")
  <1>1. row \in Row /\ row.root = 0
    BY RowOfIsRow, Constants DEF IInv
  <1> HIDE DEF row
  <1>2. Grows(row)
    BY <1>1, LogGrows DEF IInv, row
  <1> QED
    BY <1>1, <1>2, UntoldMay, ClearedStands, ClearedIsRoot, WrittenStep
       DEF RootOK, ObsTyped, LogStep

LEMMA BeginIInv == ASSUME IInv, NEW op \in Operations, Begin(op) PROVE IInv'
  <1>1. Len(callers) < MaxDepth /\ World /\ NoOriginChange
    BY DEF Begin
  <1>2. RestTyped' /\ 0 \in 0..MaxSeq
    BY <1>1, RestKept, Constants
  <1>3. CASE ~Ready /\ Quiet /\ obs' = Cleared /\ Push(op, 0)
    BY <1>1, <1>2, <1>3, Pushed, ClearedStands, ClearedIsRoot, QuietStep DEF RootOK, ObsTyped
  <1>4. ASSUME NEW done \in BOOLEAN, Log(RowOf("started", op, 0, "none"), done),
               obs' = IF done THEN Rooted(op) ELSE Cleared,
               Push(op, IF done THEN Len(rows') ELSE 0)
        PROVE  IInv'
    <2>1. CASE done = TRUE
      BY <1>1, <1>4, <2>1, RootBegins
    <2>2. CASE done = FALSE
      <3>1. obs' = Cleared /\ Push(op, 0)
        BY <1>4, <2>2
      <3>2. CallersOK' /\ TokensAreOwn'
        BY <1>1, <1>2, <3>1, Pushed
      <3> QED
        BY <1>1, <1>2, <1>4, <3>1, <3>2, AttributionEnds
    <2> QED
      BY <1>4, <2>1, <2>2
  <1> QED
    BY <1>3, <1>4 DEF Begin

LEMMA BeginExclusiveIInv == ASSUME IInv, BeginExclusive PROVE IInv'
  <1>1. Len(callers) < MaxDepth /\ World /\ NoOriginChange /\ obs.root = 0
    BY DEF BeginExclusive
  <1>2. PICK done \in BOOLEAN :
          /\ Log(RowOf("started", "whistle_attention", 0, "none"), done)
          /\ IF done THEN /\ obs' = Rooted("whistle_attention")
                          /\ Push("whistle_attention", Len(rows'))
                     ELSE UNCHANGED <<obs, callers>>
    BY DEF BeginExclusive
  <1>3. "whistle_attention" \in Operations
    BY DEF Operations
  <1>4. CASE done = TRUE
    BY <1>1, <1>2, <1>3, <1>4, RootBegins
  <1>5. CASE done = FALSE
    <2> DEFINE row == RowOf("started", "whistle_attention", 0, "none")
    <2>1. row \in Row /\ row.root = 0
      BY <1>3, RowOfIsRow, Constants DEF IInv
    <2> HIDE DEF row
    <2>2. Grows(row)
      BY <1>2, <2>1, LogGrows DEF IInv, row
    <2>3. obs' = obs /\ callers' = callers
      BY <1>2, <1>5
    <2>4. RootStands' /\ TopHolds' /\ ArmedFits' /\ ObsTyped'
      BY <1>1, <2>3, TypeParts DEF IInv, RootStands, TopHolds, ArmedFits, ObsTyped
    <2> QED
      BY <1>1, <2>1, <2>2, <2>3, <2>4, RestKept, CallersKept, UntoldMay, WrittenStep
         DEF RootOK, LogStep
  <1> QED
    BY <1>2, <1>4, <1>5

LEMMA BoundaryIInv == ASSUME IInv, Boundary PROVE IInv'
  <1>1. obs' = Cleared /\ UNCHANGED callers /\ World /\ NoOriginChange
    BY DEF Boundary
  <1>2. PICK done \in BOOLEAN : Log(RowOf("boundary", "none", 0, "none"), done)
    BY DEF Boundary
  <1> QED
    BY <1>1, <1>2, CallersKept, RestKept, AttributionEnds

LEMMA DieIInv == ASSUME IInv, Die PROVE IInv'
  <1>1. obs' = Cleared /\ UNCHANGED callers /\ moves' = moves /\ over' = TRUE /\ NoOriginChange
    BY DEF Die
  <1>2. PICK done \in BOOLEAN : Log(RowOf("death", "none", 0, "none"), done)
    BY DEF Die
  <1>3. RestTyped'
    BY <1>1, TypeParts DEF IInv, RestTyped, NoOriginChange
  <1> QED
    BY <1>1, <1>2, <1>3, CallersKept, AttributionEnds

LEMMA ReportIInv == ASSUME IInv, Report PROVE IInv'
  <1> DEFINE row == RowOf("other", "none", 0, "none")
  <1>1. UNCHANGED obs /\ UNCHANGED callers /\ World /\ NoOriginChange
    BY DEF Report
  <1>2. row \in Row /\ row.root = 0 /\ row.stage = "other"
    BY RowOfIsRow, Constants DEF IInv
  <1>3. PICK done \in BOOLEAN : Log(row, done)
    BY DEF Report
  <1> HIDE DEF row
  <1>4. Grows(row)
    BY <1>2, <1>3, LogGrows DEF IInv
  <1>5. SameRoot /\ obs.root \in Nat /\ moves' = moves /\ schedule' = schedule
    BY <1>1, Now DEF SameRoot, World, NoOriginChange
  <1>6. RootStands'
    BY <1>2, <1>4, <1>5, NotEnding, RootGrows
  <1>7. CallersOK' /\ TokensAreOwn' /\ SamePlaces
    BY <1>1, CallersKept
  <1>8. TopHolds' /\ ArmedFits' /\ ObsTyped'
    BY <1>1, <1>5, <1>7, TopStays, TypeParts DEF IInv, ArmedFits, ObsTyped
  <1> QED
    BY <1>1, <1>2, <1>4, <1>6, <1>7, <1>8, RestKept, UntoldMay, WrittenStep DEF RootOK, LogStep

(* the root may be told of in the row its notice or its end is *)
LEMMA RootMay ==
    ASSUME IInv, NEW stage, NEW fact, obs.turn = moves,
           stage = "notice" => ~obs.used
    PROVE  MayBeTold(RowOf(stage, obs.op, obs.root, fact))
  <1> DEFINE row == RowOf(stage, obs.op, obs.root, fact)
  <1>1. row.root = obs.root /\ row.stage = stage /\ row.op = obs.op /\ row.turn = moves
    BY DEF RowOf
  <1> HIDE DEF row
  <1>2. MayBeTold(row)
    BY <1>1 DEF IInv, RootStands, MayBeTold
  <1> QED
    BY <1>2 DEF row

LEMMA NoticeIInv ==
    ASSUME IInv, NEW c \in DOMAIN callers, Holding(c, NoToken), World,
           NEW token \in Token, Accepts(obs, token), Notice(token.fact)
    PROVE  IInv'
  <1> DEFINE fact == token.fact
             row == RowOf("notice", obs.op, obs.root, fact)
  <1>1. /\ Ready /\ obs.root > 0 /\ obs.turn = moves /\ ~obs.used /\ obs.pending = fact
        /\ obs.op \in Operations
    BY Now DEF Accepts
  <1>2. obs \in Root /\ fact \in AnyFact \cup {"none"} /\ obs.root \in 0..MaxSeq
    BY Now DEF Root, Token
  <1>3. /\ row \in Row /\ row.root = obs.root /\ row.stage = "notice" /\ row.fact = fact
    BY <1>1, <1>2, RowOfIsRow DEF IInv
  <1>4. PICK done \in BOOLEAN : Log(row, done)
    BY DEF Notice
  <1>5. MayBeTold(row)
    BY <1>1, RootMay
  <1>6. origin' = IF fact \notin OriginFacts THEN origin
                  ELSE [origin EXCEPT ![obs.op] = [pending |-> TRUE, root |-> obs.root,
                                                   notice |-> Len(rows')]]
    BY DEF Notice
  <1>7. obs' = [obs EXCEPT !.pending = "none", !.taken = FALSE, !.used = TRUE,
                           !.blocked = @ \/ fact \in ImpliesBlocked]
    BY DEF Notice, Used
  <1>8. UNCHANGED <<schedule, scheduleFailed>>
    BY DEF Notice
  <1> HIDE DEF row, fact
  <1>9. Grows(row) /\ (rows' = rows => failed' \/ Len(rows) = MaxSeq)
    BY <1>3, <1>4, LogGrows DEF IInv
  <1>10. CallersOK' /\ TokensAreOwn' /\ SamePlaces
    BY HeldNothing
  <1>11. obs' \in Root /\ SameRoot /\ obs'.pending = "none" /\ obs'.used
    <2> DEFINE b == obs.blocked \/ fact \in ImpliesBlocked
    <2>1. b \in BOOLEAN
      OBVIOUS
    <2>2. obs' = [obs EXCEPT !.pending = "none", !.taken = FALSE, !.used = TRUE, !.blocked = b]
      BY <1>7
    <2> HIDE DEF b
    <2> QED
      BY <1>2, <2>1, <2>2 DEF Root, SameRoot
  <1>12. moves' = moves /\ over' = over /\ schedule' = schedule /\ scheduleFailed' = scheduleFailed
    BY <1>8 DEF World
  <1>13. RootStands' /\ TopHolds' /\ ArmedFits'
    BY <1>3, <1>9, <1>10, <1>11, <1>12, NotEnding, RootGrows, TopStays DEF ArmedFits
  <1>14. /\ Len(rows') \in 0..MaxSeq /\ rows' \in Seq(Row) /\ Len(rows) \in Nat
         /\ rows' # rows => Len(rows') \in DOMAIN rows' /\ rows'[Len(rows')] = row
    <2>1. /\ rows' \in Seq(Row) /\ Len(rows') <= MaxSeq /\ Len(rows') \in Nat
          /\ Len(rows) \in Nat
          /\ rows' # rows => Len(rows') = Len(rows) + 1 /\ rows'[Len(rows')] = row
      BY <1>3, <1>9, GrownLog DEF IInv
    <2> QED
      BY <2>1, Constants
  <1>15. fact \in OriginFacts => obs.op \in OriginOperations
    <2>1. CASE fact \in OriginFacts
      <3>1. obs.pending # "none"
        BY <1>1, <2>1 DEF OriginFacts
      <3>2. fact \in Facts[obs.op]
        BY <1>1, <3>1 DEF IInv, ArmedFits
      <3> QED
        BY <1>1, <2>1, <3>2, FamilyFacts
    <2> QED
      BY <2>1
  <1>16. origin' \in [OriginOperations -> Origin] /\ PendingIsNoticed'
    <2>1. origin \in [OriginOperations -> Origin]
      BY TypeParts DEF IInv, RestTyped
    <2>2. CASE fact \notin OriginFacts
      <3>1. origin' = origin
        BY <1>6, <2>2
      <3> QED
        BY <1>3, <1>9, <2>1, <3>1, NoticedGrows DEF PendingIsNoticed
    <2>3. CASE fact \in OriginFacts
      <3> DEFINE o == [pending |-> TRUE, root |-> obs.root, notice |-> Len(rows')]
      <3>1. o \in Origin /\ o.root = obs.root /\ o.notice = Len(rows')
        BY <1>2, <1>14 DEF Origin
      <3>2. origin' = [origin EXCEPT ![obs.op] = o]
        BY <1>6, <2>3
      <3> HIDE DEF o
      <3>3. /\ origin' \in [OriginOperations -> Origin] /\ origin'[obs.op] = o
            /\ \A op \in OriginOperations : op # obs.op => origin'[op] = origin[op]
        BY <1>15, <2>1, <2>3, <3>1, <3>2
      <3>4. Noticed(origin[obs.op])'
        <4>1. CASE rows' = rows
          <5>1. failed' \/ Len(rows') = MaxSeq
            BY <1>9, <4>1
          <5>2. (origin[obs.op].notice)' = Len(rows') \/ failed'
            BY <1>11, <3>1, <3>3 DEF SameRoot
          <5> QED
            BY <5>1, <5>2 DEF Noticed
        <4>2. CASE rows' # rows
          BY <1>3, <1>11, <1>14, <2>3, <3>1, <3>3, <4>2 DEF Noticed, IsNotice, SameRoot
        <4> QED
          BY <4>1, <4>2
      <3>5. \A op \in OriginOperations : op # obs.op /\ origin'[op].pending => Noticed(origin[op])'
        BY <1>3, <1>9, <3>3, NoticedGrows
      <3>6. obs'.op = obs.op
        BY <1>11 DEF SameRoot
      <3>7. \A op \in OriginOperations : origin'[op].pending => Noticed(origin[op])'
        BY <3>4, <3>5, <3>6
      <3> QED
        BY <3>3, <3>7 DEF PendingIsNoticed
    <2> QED
      BY <2>2, <2>3
  <1>17. RestTyped'
    BY <1>12, <1>16, TypeParts DEF IInv, RestTyped
  <1>18. RootsAreTold' /\ OriginsAreWitnessed' /\ EntriesInOrder' /\ LogTyped'
    BY <1>3, <1>5, <1>9, <1>12, ToldGrows, PublishedGrows, LogTypedGrows
  <1>19. TypeOK'
    BY <1>10, <1>11, <1>17, <1>18
       DEF TypeOK, LogTyped, ObsTyped, CallersOK, RestTyped, Root, Caller, Origin, Entry
  <1> QED
    BY <1>10, <1>13, <1>16, <1>18, <1>19 DEF IInv

LEMMA DeliverIInv == ASSUME IInv, NEW c \in DOMAIN callers, Deliver(c) PROVE IInv'
  <1>1. Holding(c, NoToken) /\ World
    BY DEF Deliver
  <1>2. callers[c].token \in Token
    <2>1. callers[c] \in Caller
      BY CallersTyped DEF CallersOK
    <2> QED
      BY <2>1 DEF Caller
  <1>3. CASE Accepts(obs, callers[c].token) /\ Notice(callers[c].token.fact)
    BY <1>1, <1>2, <1>3, NoticeIInv
  <1>4. CASE obs' = Fresh(obs) /\ Quiet /\ NoOriginChange
    BY <1>1, <1>4, Now, HeldNothing, SeenAgain
  <1>5. CASE Quiet /\ UNCHANGED obs /\ NoOriginChange
    BY <1>1, <1>5, HeldNothing, SeenAgain
  <1> QED
    BY <1>3, <1>4, <1>5 DEF Deliver

-----------------------------------------------------------------------------
(* The ends *)

EntryOf(op) == [op |-> op, root |-> origin[op].root, notice |-> origin[op].notice,
                end |-> Len(rows')]

(* What an origin that may be published is: its root completed, its notice is in. *)
LEMMA EntryIsWitnessed ==
    ASSUME IInv, obs.root > 0, NEW done \in BOOLEAN,
           Log(RowOf("completed", obs.op, obs.root, "none"), done),
           IsOrigin(obs.op, obs.root), ~failed',
           Publishable(EntryOf(obs.op).root, EntryOf(obs.op).notice, EntryOf(obs.op).end)
    PROVE  LET e == EntryOf(obs.op) IN
             /\ e \in Entry /\ e.root = obs.root
             /\ e.root < e.notice /\ e.notice < e.end
             /\ e.end \in DOMAIN rows'
             /\ rows'[e.root].stage = "started" /\ rows'[e.root].op = e.op
             /\ rows'[e.notice].stage = "notice" /\ rows'[e.notice].root = e.root
             /\ rows'[e.notice].fact \in OriginFacts
             /\ e.end < MaxSeq => rows'[e.end].stage = "completed" /\ rows'[e.end].root = e.root
  <1> DEFINE op == obs.op
             row == RowOf("completed", op, obs.root, "none")
             root == origin[op].root
             notice == origin[op].notice
             n == Len(rows')
             e == EntryOf(op)
  <1>1. op \in OriginOperations /\ origin[op].pending /\ root = obs.root
    BY DEF IsOrigin
  <1>2. e.op = op /\ e.root = root /\ e.notice = notice /\ e.end = n
    BY DEF EntryOf
  <1>3. obs \in Root /\ obs.op \in Operations /\ obs.root \in 0..MaxSeq
    BY Now DEF IInv, RootStands, Root
  <1>4. row \in Row /\ row.stage = "completed" /\ row.root = obs.root
    BY <1>3, RowOfIsRow DEF IInv
  <1> HIDE DEF row
  <1>5. Grows(row) /\ (rows' = rows => failed' \/ Len(rows) = MaxSeq)
    BY <1>4, LogGrows DEF IInv, row
  <1>6. /\ rows' \in Seq(Row) /\ n <= MaxSeq /\ n \in Nat /\ Len(rows) \in Nat /\ Len(rows) <= n
        /\ \A i \in DOMAIN rows : i \in DOMAIN rows' /\ rows'[i] = rows[i]
        /\ rows' # rows => rows'[n] = row
    BY <1>4, <1>5, GrownLog DEF IInv
  <1>7. origin[op] \in Origin
    BY <1>1, TypeParts DEF IInv, RestTyped
  <1>8. root \in 0..MaxSeq /\ notice \in 0..MaxSeq
    BY <1>7 DEF Origin
  <1>9. root >= 1 /\ notice > root /\ n > notice
    BY <1>2 DEF Publishable
  <1> HIDE DEF n, notice, root
  <1>10. e \in Entry
    <2>1. e = [op |-> op, root |-> root, notice |-> notice, end |-> n]
      BY DEF EntryOf, n, notice, root
    <2> QED
      BY <1>1, <1>6, <1>8, <1>9, <2>1, Constants DEF Entry
  <1> HIDE DEF e
  <1>11. root < notice /\ notice < n /\ n \in DOMAIN rows'
    BY <1>6, <1>8, <1>9, Constants DEF n
  <1>12. Noticed(origin[op])
    BY <1>1 DEF IInv, PendingIsNoticed
  <1>13. ~failed
    BY <1>5 DEF Grows
  <1>14. ~(Len(rows) = MaxSeq /\ notice = MaxSeq)
    BY <1>6, <1>9, Constants
  <1>15. /\ notice \in DOMAIN rows /\ rows[notice].stage = "notice" /\ rows[notice].root = root
         /\ rows[notice].fact \in OriginFacts
    BY <1>12, <1>13, <1>14 DEF Noticed, IsNotice, notice, root
  <1>16. obs.root \in DOMAIN rows /\ rows[obs.root].stage = "started" /\ rows[obs.root].op = op
    BY DEF IInv, RootStands
  <1>17. n < MaxSeq => rows'[n] = row
    <2>1. rows' = rows => n = MaxSeq
      BY <1>5 DEF n
    <2> QED
      BY <1>6, <2>1, Constants
  <1> QED
    BY <1>1, <1>2, <1>4, <1>6, <1>10, <1>11, <1>15, <1>16, <1>17 DEF e

(* What publishing an entry, or closing the schedule, leaves of the records *)
LEMMA PublishedStands ==
    ASSUME IInv, obs.root > 0, NEW done \in BOOLEAN,
           Log(RowOf("completed", obs.op, obs.root, "none"), done),
           IsOrigin(obs.op, obs.root), PublishOrigin(obs.op)
    PROVE  /\ schedule' \in Seq(Entry) /\ Len(schedule') <= MaxOrigins
           /\ OriginsAreWitnessed' /\ EntriesInOrder'
  <1> DEFINE row == RowOf("completed", obs.op, obs.root, "none")
             e == EntryOf(obs.op)
  <1>1. obs \in Root /\ obs.op \in Operations /\ obs.root \in 0..MaxSeq
    BY Now DEF IInv, RootStands, Root
  <1>2. row \in Row /\ Grows(row)
    BY <1>1, RowOfIsRow, LogGrows DEF IInv
  <1> HIDE DEF row
  <1>3. schedule \in Seq(Entry) /\ Len(schedule) <= MaxOrigins
    BY TypeParts DEF IInv, RestTyped
  <1>4. CASE schedule' = schedule
    BY <1>2, <1>3, <1>4, PublishedGrows
  <1>5. CASE ~failed' /\ Publishable(e.root, e.notice, e.end) /\ schedule' = Append(schedule, e)
    <2>1. /\ e \in Entry /\ e.root = obs.root
          /\ e.root < e.notice /\ e.notice < e.end
          /\ e.end \in DOMAIN rows'
          /\ rows'[e.root].stage = "started" /\ rows'[e.root].op = e.op
          /\ rows'[e.notice].stage = "notice" /\ rows'[e.notice].root = e.root
          /\ rows'[e.notice].fact \in OriginFacts
          /\ e.end < MaxSeq => rows'[e.end].stage = "completed" /\ rows'[e.end].root = e.root
      BY <1>5, EntryIsWitnessed
    <2>2. Len(schedule) < MaxOrigins
      BY <1>5 DEF Publishable
    <2> HIDE DEF e
    <2>3. /\ schedule' \in Seq(Entry) /\ Len(schedule') = Len(schedule) + 1
          /\ Len(schedule) \in Nat /\ schedule'[Len(schedule) + 1] = e
          /\ \A k \in 1..Len(schedule) : schedule'[k] = schedule[k]
      BY <1>3, <1>5, <2>1, AppendProperties
    <2>4. DOMAIN schedule = 1..Len(schedule) /\ DOMAIN schedule' = 1..(Len(schedule) + 1)
      BY <1>3, <2>3
    <2>5. ASSUME NEW k \in DOMAIN schedule'
          PROVE  /\ schedule'[k].end \in DOMAIN rows'
                 /\ rows'[schedule'[k].root].stage = "started"
                 /\ rows'[schedule'[k].root].op = schedule'[k].op
                 /\ rows'[schedule'[k].notice].stage = "notice"
                 /\ rows'[schedule'[k].notice].root = schedule'[k].root
                 /\ rows'[schedule'[k].notice].fact \in OriginFacts
                 /\ schedule'[k].end < MaxSeq =>
                      /\ rows'[schedule'[k].end].stage = "completed"
                      /\ rows'[schedule'[k].end].root = schedule'[k].root
                 /\ \A j \in 1..(k - 1) : schedule'[j].end < schedule'[k].root
                 /\ schedule'[k].root < schedule'[k].notice
                 /\ schedule'[k].notice < schedule'[k].end
      <3>1. k \in Nat
        BY <2>3
      <3>2. CASE k \in DOMAIN schedule
        <4>1. schedule'[k] = schedule[k]
          BY <2>3, <2>4, <3>2
        <4>2. Witnessed(schedule[k])'
          BY <1>2, <3>2, <4>1, WitnessedGrows
        <4>3. \A j \in 1..(k - 1) : schedule[j].end < schedule[k].root
          BY <3>2, EntryFacts
        <4>4. \A j \in 1..(k - 1) : schedule'[j] = schedule[j]
          BY <2>3, <2>4, <3>1, <3>2
        <4>5. schedule[k].root < schedule[k].notice /\ schedule[k].notice < schedule[k].end
          BY <3>2, EntryFacts
        <4> QED
          BY <4>1, <4>2, <4>3, <4>4, <4>5 DEF Witnessed
      <3>3. CASE k = Len(schedule) + 1
        <4>1. schedule'[k] = e
          BY <2>3, <3>3
        <4>2. \A j \in 1..(k - 1) : j \in DOMAIN schedule /\ schedule'[j] = schedule[j]
          BY <2>3, <2>4, <3>3
        <4>3. \A j \in DOMAIN schedule : schedule[j].end < obs.root
          BY DEF IInv, RootStands
        <4> QED
          BY <2>1, <4>1, <4>2, <4>3
      <3> QED
        BY <2>3, <2>4, <3>1, <3>2, <3>3
    <2>6. OriginsAreWitnessed' /\ EntriesInOrder'
      BY <2>5 DEF OriginsAreWitnessed, EntriesInOrder
    <2> QED
      BY <2>2, <2>3, <2>6, Constants
  <1> QED
    BY <1>4, <1>5 DEF PublishOrigin, EntryOf

LEMMA EndIInv == ASSUME IInv, End PROVE IInv'
  <1>1. Acting /\ Top.op # "whistle_attention" /\ Pop /\ World
    BY DEF End
  <1>2. CallersOK' /\ TokensAreOwn' /\ moves' = moves /\ over' = over
    BY <1>1, Popped DEF World
  <1>3. CASE EndsNothing /\ Quiet /\ NoOriginChange
             /\ obs' = IF Top.op = "door_open" THEN Disarmed(obs) ELSE obs
    <2>1. obs' \in Root /\ SameRoot /\ obs'.pending \in {"none", obs.pending}
      <3>1. CASE obs' = obs
        BY <3>1, Now DEF SameRoot
      <3>2. CASE obs' = [obs EXCEPT !.pending = "none", !.taken = FALSE]
        BY <3>2, Now DEF Root, SameRoot
      <3> QED
        BY <1>3, <3>1, <3>2 DEF Disarmed
    <2>2. ~(obs.root > 0 /\ obs.turn = moves)
      BY <1>1, <1>3, Now DEF EndsNothing, IInv, TopHolds
    <2>3. TopHolds' /\ ArmedFits'
      BY <1>2, <2>1, <2>2 DEF TopHolds, SameRoot, IInv, ArmedFits
    <2>4. RootStands' /\ RestTyped'
      BY <1>1, <1>3, <2>1, SameRootStands, RestKept
    <2> QED
      BY <1>2, <1>3, <2>1, <2>3, <2>4, QuietStep DEF RootOK, ObsTyped
  <1>4. CASE obs' = Cleared /\ Quiet /\ NoOriginChange
    BY <1>1, <1>2, <1>4, RestKept, ClearedStands, ClearedIsRoot, QuietStep DEF RootOK, ObsTyped
  <1>5. ASSUME ~EndsNothing, Current(obs), obs' = Cleared, NEW done \in BOOLEAN,
               Log(RowOf(IF obs.blocked THEN "blocked" ELSE "completed", obs.op, obs.root,
                         "none"), done),
               IF ~obs.blocked /\ IsOrigin(obs.op, obs.root) THEN PublishOrigin(obs.op)
               ELSE NoOriginChange
        PROVE  IInv'
    <2> DEFINE stage == IF obs.blocked THEN "blocked" ELSE "completed"
               row == RowOf(stage, obs.op, obs.root, "none")
    <2>1. /\ obs.root > 0 /\ obs.turn = moves /\ obs.op \in Operations /\ obs \in Root
          /\ obs.root \in 0..MaxSeq
      BY <1>5, Now DEF Root
    <2>2. row \in Row
      BY <2>1, RowOfIsRow DEF IInv
    <2>3. MayBeTold(row)
      BY <2>1, RootMay
    <2>4. Grows(row)
      BY <1>5, <2>2, LogGrows DEF IInv
    <2>5. RootOK' /\ ObsTyped'
      BY <1>5, ClearedStands, ClearedIsRoot DEF RootOK, ObsTyped
    <2>6. CASE ~obs.blocked /\ IsOrigin(obs.op, obs.root)
      <3>1. PublishOrigin(obs.op) /\ stage = "completed"
        BY <1>5, <2>6
      <3>2. /\ schedule' \in Seq(Entry) /\ Len(schedule') <= MaxOrigins
            /\ OriginsAreWitnessed' /\ EntriesInOrder'
        BY <1>5, <2>1, <2>6, <3>1, PublishedStands
      <3> HIDE DEF row, stage
      <3>3. /\ obs.op \in OriginOperations
            /\ origin' = [origin EXCEPT ![obs.op].pending = FALSE]
            /\ scheduleFailed' \in {scheduleFailed, TRUE}
        BY <2>6, <3>1 DEF PublishOrigin, IsOrigin
      <3>4. origin \in [OriginOperations -> Origin] /\ scheduleFailed \in BOOLEAN
            /\ over \in BOOLEAN /\ moves \in 0..MaxMoves
        BY TypeParts DEF IInv, RestTyped
      <3>5. /\ origin' \in [OriginOperations -> Origin] /\ ~origin'[obs.op].pending
            /\ \A op \in OriginOperations : op # obs.op => origin'[op] = origin[op]
        <4> DEFINE o == [origin[obs.op] EXCEPT !.pending = FALSE]
        <4>1. o \in Origin /\ ~o.pending
          BY <3>3, <3>4 DEF Origin
        <4>2. origin' = [origin EXCEPT ![obs.op] = o]
          BY <3>3
        <4> HIDE DEF o
        <4> QED
          BY <3>3, <3>4, <4>1, <4>2
      <3>6. RestTyped'
        BY <1>2, <3>2, <3>3, <3>4, <3>5 DEF RestTyped
      <3>7. \A op \in OriginOperations : origin'[op].pending => Noticed(origin[op])'
        BY <2>2, <2>4, <3>5, NoticedGrows
      <3>8. PendingIsNoticed'
        BY <3>7 DEF PendingIsNoticed
      <3>9. RootsAreTold' /\ LogTyped'
        BY <2>2, <2>3, <2>4, ToldGrows, LogTypedGrows
      <3>10. TypeOK'
        BY <1>2, <2>5, <3>6, <3>9
           DEF TypeOK, LogTyped, ObsTyped, CallersOK, RestTyped, Root, Caller, Origin, Entry
      <3> QED
        BY <1>2, <2>5, <3>2, <3>8, <3>9, <3>10 DEF IInv, RootOK
    <2>7. CASE ~(~obs.blocked /\ IsOrigin(obs.op, obs.root))
      <3>1. NoOriginChange
        BY <1>5, <2>7
      <3> HIDE DEF row, stage
      <3> QED
        BY <1>1, <1>2, <2>2, <2>3, <2>4, <2>5, <3>1, RestKept, WrittenStep DEF LogStep
    <2> QED
      BY <2>6, <2>7
  <1> QED
    BY <1>3, <1>4, <1>5 DEF End

LEMMA FinishIInv == ASSUME IInv, Finish PROVE IInv'
  <1>1. Acting /\ Top.op = "whistle_attention" /\ Pop /\ World /\ NoOriginChange
    BY DEF Finish
  <1>2. CallersOK' /\ TokensAreOwn' /\ RestTyped' /\ moves' = moves
    BY <1>1, Popped, RestKept DEF World
  <1>3. CASE Top.root = obs.root /\ obs.op = "whistle_attention" /\ obs.turn = moves
    <2>1. obs' = Cleared
      BY <1>3 DEF Finish
    <2>2. PICK done \in BOOLEAN, stage \in {"completed", "blocked"} :
            Log(RowOf(stage, obs.op, obs.root, "none"), done)
      BY <1>3 DEF Finish
    <2> DEFINE row == RowOf(stage, obs.op, obs.root, "none")
    <2>3. obs.op \in Operations /\ obs.root \in 0..MaxSeq
      BY <1>3, Now DEF Root, Operations
    <2>4. row \in Row
      BY <2>3, RowOfIsRow DEF IInv
    <2>5. MayBeTold(row)
      BY <1>3, RootMay
    <2> HIDE DEF row
    <2>6. Grows(row)
      BY <2>2, <2>4, LogGrows DEF IInv, row
    <2> QED
      BY <1>1, <1>2, <2>1, <2>4, <2>5, <2>6, ClearedStands, ClearedIsRoot, WrittenStep
         DEF RootOK, ObsTyped, LogStep
  <1>4. CASE ~(Top.root = obs.root /\ obs.op = "whistle_attention" /\ obs.turn = moves)
    <2>1. Quiet /\ UNCHANGED obs
      BY <1>4 DEF Finish
    <2>2. SameRoot /\ obs' \in Root
      BY <2>1, Now DEF SameRoot
    <2>3. ~(obs.root > 0 /\ obs.turn = moves)
      BY <1>1, <1>4 DEF IInv, TopHolds
    <2>4. TopHolds' /\ ArmedFits'
      BY <1>2, <2>1, <2>3 DEF TopHolds, IInv, ArmedFits
    <2>5. RootStands'
      BY <1>1, <2>1, <2>2, SameRootStands
    <2> QED
      BY <1>1, <1>2, <2>1, <2>2, <2>4, <2>5, QuietStep DEF RootOK, ObsTyped
  <1> QED
    BY <1>3, <1>4

-----------------------------------------------------------------------------
(* Every step, and the theorems *)

LEMMA InitIInv == Init => IInv
  <1> SUFFICES ASSUME Init PROVE IInv
    OBVIOUS
  <1>1. /\ rows = <<>> /\ failed = FALSE /\ moves = 0 /\ over = FALSE /\ obs = Cleared
        /\ callers = <<>> /\ origin = [op \in OriginOperations |-> NoOrigin]
        /\ schedule = <<>> /\ scheduleFailed = FALSE
    BY DEF Init
  <1>2. NoOrigin \in Origin /\ ~NoOrigin.pending
    BY Constants DEF NoOrigin, Origin
  <1>3. LogTyped /\ ObsTyped /\ CallersOK
    <2>1. rows \in Seq(Row) /\ Len(rows) <= MaxSeq
      BY <1>1, Constants
    <2>2. callers \in Seq(Caller) /\ Len(callers) <= MaxDepth
      BY <1>1, Constants
    <2>3. failed \in BOOLEAN
      BY <1>1, Zenon
    <2> QED
      BY <1>1, <2>1, <2>2, <2>3, ClearedIsRoot, Zenon DEF LogTyped, ObsTyped, CallersOK
  <1>4. RestTyped
    <2>1. over \in BOOLEAN /\ scheduleFailed \in BOOLEAN
      BY <1>1, Zenon
    <2>2. schedule \in Seq(Entry) /\ Len(schedule) <= MaxOrigins /\ moves \in 0..MaxMoves
      BY <1>1, Constants
    <2>3. origin \in [OriginOperations -> Origin]
      BY <1>1, <1>2
    <2> QED
      BY <2>1, <2>2, <2>3, Zenon DEF RestTyped
  <1>5. TypeOK
    BY <1>3, <1>4, TypeParts
  <1>6. RootStands /\ ArmedFits /\ TopHolds
    BY <1>1, ClearedIsRoot DEF RootStands, ArmedFits, TopHolds
  <1>7. TokensAreOwn /\ RootsAreTold /\ OriginsAreWitnessed /\ EntriesInOrder
    BY <1>1 DEF TokensAreOwn, RootsAreTold, OriginsAreWitnessed, EntriesInOrder
  <1>8. PendingIsNoticed
    BY <1>1, <1>2 DEF PendingIsNoticed
  <1> QED
    BY <1>5, <1>6, <1>7, <1>8 DEF IInv

LEMMA StutterIInv == ASSUME IInv, UNCHANGED vars PROVE IInv'
  <1>1. Quiet /\ NoOriginChange /\ World /\ UNCHANGED callers /\ UNCHANGED obs
    BY DEF vars, Quiet, NoOriginChange, World
  <1> QED
    BY <1>1, CallersKept, SeenAgain

LEMMA NextIInv == IInv /\ [Next]_vars => IInv'
  <1> SUFFICES ASSUME IInv, [Next]_vars PROVE IInv'
    OBVIOUS
  <1>1. ASSUME NEW op \in Operations \ {"whistle_attention"}, Begin(op) PROVE IInv'
    BY <1>1, BeginIInv
  <1>2. CASE BeginExclusive
    BY <1>2, BeginExclusiveIInv
  <1>3. ASSUME NEW c \in DOMAIN callers, NotRendered(c) \/ Deliver(c) PROVE IInv'
    BY <1>3, NotRenderedIInv, DeliverIInv
  <1>4. CASE Disarm \/ Blocked \/ End \/ Finish
    BY <1>4, DisarmIInv, BlockedIInv, EndIInv, FinishIInv
  <1>5. ASSUME NEW fact \in Explored, Arm(fact) PROVE IInv'
    BY <1>5, ArmIInv
  <1>6. ASSUME NEW channel \in {"message", "map"}, Take(channel) PROVE IInv'
    BY <1>6, TakeIInv
  <1>7. CASE Glance \/ Boundary \/ Die \/ Report \/ Turn
    BY <1>7, GlanceIInv, BoundaryIInv, DieIInv, ReportIInv, TurnIInv
  <1>8. CASE UNCHANGED vars
    BY <1>8, StutterIInv
  <1> QED
    BY <1>1, <1>2, <1>3, <1>4, <1>5, <1>6, <1>7, <1>8 DEF Next

(* The strengthening holds in every reachable state: what chaos_engine.c keeps in
   memory of the standing root, of the tokens and of the pending origins agrees
   with events.jsonl, whichever writes failed.                                  *)
THEOREM InductiveInvariant == Spec => []IInv
  BY InitIInv, NextIInv, PTL DEF Spec

(* Types: the log stays within MaxSeq rows, the stack within MaxDepth actions and
   the schedule of chaos_engine.c within MaxOrigins records.                      *)
THEOREM TypeCorrect == Spec => []TypeOK
  <1>1. IInv => TypeOK
    BY DEF IInv
  <1> QED
    BY <1>1, InductiveInvariant, PTL

(* One root permits at most one notice and one end, in that order, linked within
   one operation and turn, and a new root, a boundary or death ends it: what
   observation_notice, chaos_observation_end and chaos_observation_finish write,
   however the actions interrupt one another.                                  *)
THEOREM EveryRootIsTold == Spec => []RootsAreTold
  <1>1. IInv => RootsAreTold
    BY DEF IInv
  <1> QED
    BY <1>1, InductiveInvariant, PTL

(* Every record chaos_observation_end publishes to next_use-schedule.jsonl stands
   for one completed root of the log that noticed what its family is published for,
   whatever writes failed, and no root is published twice.                         *)
THEOREM EveryOriginIsWitnessed == Spec => []OriginsAreWitnessed
  <1>1. IInv => OriginsAreWitnessed
    BY DEF IInv
  <1> QED
    BY <1>1, InductiveInvariant, PTL

-----------------------------------------------------------------------------
(* Whose notice it is *)

NoNewNotice ==
    \A i \in DOMAIN rows' \ DOMAIN rows : rows'[i].stage # "notice"

LEMMA OtherRow ==
    ASSUME IInv, NEW row \in Row, row.stage # "notice", NEW done \in BOOLEAN, Log(row, done)
    PROVE  NoNewNotice
  <1>1. \A i \in DOMAIN rows' : i \in DOMAIN rows \/ rows'[i] = row
    BY LogGrows, GrownLog DEF IInv
  <1> QED
    BY <1>1 DEF NoNewNotice

LEMMA NoRow == ASSUME rows' = rows PROVE NoNewNotice
  BY DEF NoNewNotice

(* Only the delivery of a token writes a notice. *)
LEMMA OnlyDelivered ==
    ASSUME IInv, [Next]_vars
    PROVE  NoNewNotice \/ \E c \in DOMAIN callers : Deliver(c)
  <1>1. \A op \in Operations, stage \in {"started", "completed", "blocked"}, done \in BOOLEAN,
           root \in 0..MaxSeq :
           Log(RowOf(stage, op, root, "none"), done) => NoNewNotice
    <2> TAKE op \in Operations, stage \in {"started", "completed", "blocked"},
             done \in BOOLEAN, root \in 0..MaxSeq
    <2> HAVE Log(RowOf(stage, op, root, "none"), done)
    <2>1. RowOf(stage, op, root, "none") \in Row /\ RowOf(stage, op, root, "none").stage = stage
      BY RowOfIsRow DEF IInv
    <2> QED
      BY <2>1, OtherRow
  <1>2. \A stage \in {"boundary", "death", "other"}, done \in BOOLEAN :
           Log(RowOf(stage, "none", 0, "none"), done) => NoNewNotice
    <2> TAKE stage \in {"boundary", "death", "other"}, done \in BOOLEAN
    <2> HAVE Log(RowOf(stage, "none", 0, "none"), done)
    <2>1. RowOf(stage, "none", 0, "none") \in Row /\ RowOf(stage, "none", 0, "none").stage = stage
      BY RowOfIsRow, Constants DEF IInv
    <2> QED
      BY <2>1, OtherRow
  <1>3. 0 \in 0..MaxSeq
    BY Constants
  <1>4. ASSUME NEW op \in Operations, Begin(op) PROVE NoNewNotice
    BY <1>1, <1>3, <1>4, NoRow DEF Begin, Quiet
  <1>5. ASSUME BeginExclusive PROVE NoNewNotice
    BY <1>1, <1>3, <1>5 DEF BeginExclusive, Operations
  <1>6. ASSUME End PROVE NoNewNotice
    <2>1. CASE Quiet
      BY <2>1, NoRow DEF Quiet
    <2>2. CASE Current(obs) /\ \E done \in BOOLEAN :
                 Log(RowOf(IF obs.blocked THEN "blocked" ELSE "completed", obs.op, obs.root,
                           "none"), done)
      <3>1. obs.op \in Operations /\ obs.root \in 0..MaxSeq
        BY <2>2, Now DEF Root
      <3> QED
        BY <1>1, <2>2, <3>1
    <2> QED
      BY <1>6, <2>1, <2>2 DEF End
  <1>7. ASSUME Finish PROVE NoNewNotice
    <2>1. CASE Quiet
      BY <2>1, NoRow DEF Quiet
    <2>2. CASE obs.op = "whistle_attention" /\ \E done \in BOOLEAN, stage \in {"completed", "blocked"} :
                 Log(RowOf(stage, obs.op, obs.root, "none"), done)
      <3>1. obs.op \in Operations /\ obs.root \in 0..MaxSeq
        BY <2>2, Now DEF Root, Operations
      <3> QED
        BY <1>1, <2>2, <3>1
    <2> QED
      BY <1>7, <2>1, <2>2 DEF Finish
  <1>8. ASSUME Boundary \/ Die \/ Report PROVE NoNewNotice
    BY <1>2, <1>8 DEF Boundary, Die, Report
  <1>9. ASSUME Disarm \/ Blocked \/ Glance \/ Turn PROVE NoNewNotice
    BY <1>9, NoRow DEF Disarm, Blocked, Glance, Turn, Quiet
  <1>10. ASSUME NEW fact \in Explored, Arm(fact) PROVE NoNewNotice
    BY <1>10, NoRow DEF Arm, Quiet
  <1>11. ASSUME NEW channel \in {"message", "map"}, Take(channel) PROVE NoNewNotice
    BY <1>11, NoRow DEF Take, Quiet
  <1>12. ASSUME NEW c \in DOMAIN callers, NotRendered(c) PROVE NoNewNotice
    BY <1>12, NoRow DEF NotRendered, Quiet
  <1>13. ASSUME UNCHANGED vars PROVE NoNewNotice
    BY <1>13, NoRow DEF vars
  <1> QED
    BY <1>4, <1>5, <1>6, <1>7, <1>8, <1>9, <1>10, <1>11, <1>12, <1>13 DEF Next

LEMMA DeliveredIsOwn ==
    ASSUME IInv, NEW c \in DOMAIN callers, Deliver(c),
           NEW i \in DOMAIN rows' \ DOMAIN rows
    PROVE  /\ callers[c].root = rows'[i].root /\ callers'[c].token = NoToken
           /\ callers[c].token = [root |-> rows'[i].root, fact |-> rows'[i].fact]
  <1> DEFINE token == callers[c].token
             row == RowOf("notice", obs.op, obs.root, token.fact)
  <1>1. token # NoToken /\ callers'[c].token = NoToken
    BY HeldNothing DEF Deliver
  <1>2. token \in Token
    <2>1. callers[c] \in Caller
      BY CallersTyped DEF CallersOK
    <2> QED
      BY <2>1 DEF Caller
  <1>3. MeantFor(token) /\ Accepts(obs, token) /\ Notice(token.fact)
    BY DEF Deliver, Quiet
  <1>4. obs.op \in Operations /\ obs.root \in 0..MaxSeq
    BY <1>3, Now DEF Accepts, Root
  <1>5. row \in Row /\ row.root = obs.root /\ row.fact = token.fact
    BY <1>2, <1>4, RowOfIsRow DEF IInv, Token
  <1>6. PICK done \in BOOLEAN : Log(row, done)
    BY <1>3 DEF Notice
  <1> HIDE DEF row
  <1>7. rows'[i] = row
    BY <1>5, <1>6, LogGrows, GrownLog DEF IInv
  <1>8. token.root = callers[c].root
    BY <1>1 DEF IInv, TokensAreOwn
  <1>9. token.root = obs.root
    BY <1>3 DEF MeantFor
  <1>10. token = [root |-> token.root, fact |-> token.fact]
    BY <1>2 DEF Token
  <1> QED
    BY <1>1, <1>5, <1>7, <1>8, <1>9, <1>10

LEMMA StepNoticeIsOwn ==
    IInv /\ [Next]_vars =>
      [ \A i \in DOMAIN rows' \ DOMAIN rows :
          rows'[i].stage = "notice" =>
            \E c \in DOMAIN callers :
              /\ callers[c].root = rows'[i].root /\ callers'[c].token = NoToken
              /\ callers[c].token = [root |-> rows'[i].root, fact |-> rows'[i].fact] ]_vars
  <1> SUFFICES ASSUME IInv, [Next]_vars, NEW i \in DOMAIN rows' \ DOMAIN rows,
                      rows'[i].stage = "notice"
               PROVE  \E c \in DOMAIN callers :
                        /\ callers[c].root = rows'[i].root /\ callers'[c].token = NoToken
                        /\ callers[c].token = [root |-> rows'[i].root, fact |-> rows'[i].fact]
    OBVIOUS
  <1>1. PICK c \in DOMAIN callers : Deliver(c)
    BY OnlyDelivered DEF NoNewNotice
  <1> QED
    BY <1>1, DeliveredIsOwn

(* A notice is written only when the action that began its root hands in the token
   that root gave it for that very fact: no nested or later action takes another's
   notice in observation_take and observation_deliver.                            *)
THEOREM NoticesAreOwn == Spec => NoticeIsOwn
  BY InductiveInvariant, StepNoticeIsOwn, PTL DEF Spec, NoticeIsOwn

=============================================================================
