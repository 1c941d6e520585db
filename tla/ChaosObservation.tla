--------------------------- MODULE ChaosObservation --------------------------
(****************************************************************************)
(* The selected-action observations of chaos_engine.c: one transient root   *)
(* at a time, begun by a native action (a whistle, a fountain, a door, the   *)
(* attention of a pet), armed with the fact its next message would witness, *)
(* noticed only when that message was rendered, and ended when the action   *)
(* returns.  A completed root that noticed an ordinary whistle or refreshed *)
(* water becomes an origin in next_use-schedule.jsonl.                      *)
(*                                                                          *)
(* The callers are a stack: at any of its calls an action may be            *)
(* interrupted by another one, by a turn, by a level change or by death;    *)
(* and an older action's message may come to be rendered while the newer    *)
(* one still runs, as the engine's own contract tests drive it.  rows is    *)
(* events.jsonl of one process, so an event's number is its place; a write  *)
(* that fails commits no row.                                               *)
(****************************************************************************)
EXTENDS Naturals, Sequences

CONSTANTS
    Explored,   \* the facts explored, and with them their families
    MaxSeq,     \* CHAOS_MAX_COUNTER, for the event number
    MaxOrigins, \* records next_use-schedule.jsonl may hold
    MaxDepth,   \* bound: actions inside one another
    MaxMoves,   \* bound: turns explored
    Lossy       \* whether a write may fail

ASSUME ObservationAssumption ==
    /\ MaxSeq \in Nat /\ MaxOrigins \in Nat /\ MaxDepth \in Nat /\ MaxMoves \in Nat
    /\ Lossy \in BOOLEAN
    /\ Explored \subseteq {"sound", "water_refreshed", "water_foul", "cannot_reach",
                           "detection_presented", "attention", "opened"}

VARIABLES
    rows,      \* events.jsonl
    failed,    \* io.failed
    moves,     \* moves
    over,      \* program_state.gameover
    obs,       \* observation_root, _turn, _operation, _pending, _used, _blocked
    callers,   \* the native actions running, each with the root and token it holds
    origin,    \* next_use_origin[]
    schedule,  \* next_use-schedule.jsonl
    scheduleFailed \* next_use_schedule_failed

vars == <<rows, failed, moves, over, obs, callers, origin, schedule, scheduleFailed>>

(* The registered families and facts.  Facts that are treated alike are one: the
   five tones of a whistle, and a door that opens or resists.                    *)
Facts == [
    whistling |-> {"sound"},
    fountain_drink |-> {"water_refreshed", "water_foul", "cannot_reach", "detection_presented"},
    whistle_attention |-> {"attention"},
    door_open |-> {"opened"}]
Operations == {"whistling", "fountain_drink", "whistle_attention", "door_open"}
AnyFact == UNION {Facts[op] : op \in Operations}
Channel(fact) == IF fact = "detection_presented" THEN "map" ELSE "message"
AllowBlocked == {"fountain_drink", "whistle_attention"}
ImpliesBlocked == {"cannot_reach"}
OriginFacts == {"sound", "water_refreshed"}
OriginOperations == {"whistling", "fountain_drink"}

Cleared == [root |-> 0, turn |-> 0, op |-> "none", pending |-> "none", taken |-> FALSE,
            used |-> FALSE, blocked |-> FALSE]
NoToken == [root |-> 0, fact |-> "none"]
NoOrigin == [pending |-> FALSE, root |-> 0, notice |-> 0]

Row == [stage : {"started", "notice", "completed", "blocked", "boundary", "death", "other"},
        op : Operations \cup {"none"}, root : 0..MaxSeq, fact : AnyFact \cup {"none"},
        turn : 0..MaxMoves]
Token == [root : 0..MaxSeq, fact : AnyFact \cup {"none"}]

TypeOK ==
    /\ rows \in Seq(Row) /\ Len(rows) <= MaxSeq
    /\ failed \in BOOLEAN /\ over \in BOOLEAN /\ scheduleFailed \in BOOLEAN
    /\ moves \in 0..MaxMoves
    /\ obs \in [root : 0..MaxSeq, turn : 0..MaxMoves, op : Operations \cup {"none"},
                pending : AnyFact \cup {"none"}, taken : BOOLEAN, used : BOOLEAN,
                blocked : BOOLEAN]
    /\ callers \in Seq([op : Operations, root : 0..MaxSeq, token : Token])
    /\ Len(callers) <= MaxDepth
    /\ origin \in [OriginOperations -> [pending : BOOLEAN, root : 0..MaxSeq,
                                        notice : 0..MaxSeq]]
    /\ schedule \in Seq([op : OriginOperations, root : 1..MaxSeq, notice : 1..MaxSeq,
                         end : 1..MaxSeq])
    /\ Len(schedule) <= MaxOrigins

Init ==
    /\ rows = <<>> /\ failed = FALSE /\ moves = 0 /\ over = FALSE
    /\ obs = Cleared /\ callers = <<>>
    /\ origin = [op \in OriginOperations |-> NoOrigin]
    /\ schedule = <<>> /\ scheduleFailed = FALSE

-----------------------------------------------------------------------------
Ready == ~failed /\ ~over

(* observation_current: a root of an earlier turn is cleared on sight *)
Fresh(o) == IF o.turn # moves THEN Cleared ELSE o
Current(o) == Ready /\ Fresh(o).root > 0

RowOf(stage, op, root, fact) ==
    [stage |-> stage, op |-> op, root |-> root, fact |-> fact, turn |-> moves]

(* Wrong: the last event number is given out once more. *)
CanLogOnce == ~failed /\ Len(rows) <= MaxSeq

CanLog == ~failed /\ Len(rows) < MaxSeq

(* chaos_io_observation or chaos_io_event: `done` tells whether the row is in *)
Log(row, done) ==
    \/ done /\ CanLog /\ rows' = Append(rows, row) /\ UNCHANGED failed
    \/ ~done /\ CanLog /\ Lossy /\ failed' = TRUE /\ UNCHANGED rows
    \/ ~done /\ ~CanLog /\ UNCHANGED <<rows, failed>>

Quiet == UNCHANGED <<rows, failed>>
NoOriginChange == UNCHANGED <<origin, schedule, scheduleFailed>>
World == UNCHANGED <<moves, over>>

Top == callers[Len(callers)]
Acting == callers # <<>>
Push(op, root) == callers' = Append(callers, [op |-> op, root |-> root, token |-> NoToken])
Pop == callers' = SubSeq(callers, 1, Len(callers) - 1)
Holding(c, token) == callers' = [callers EXCEPT ![c].token = token]

-----------------------------------------------------------------------------
(* The calls an action makes, in the order it makes them. *)

Rooted(op) == [Cleared EXCEPT !.root = Len(rows'), !.turn = moves, !.op = op]

(* chaos_observation_begin clears before it knows whether it can start *)
Begin(op) ==
    /\ Len(callers) < MaxDepth
    /\ \/ /\ Ready
          /\ \E done \in BOOLEAN :
               /\ Log(RowOf("started", op, 0, "none"), done)
               /\ obs' = IF done THEN Rooted(op) ELSE Cleared
               /\ Push(op, IF done THEN Len(rows') ELSE 0)
       \/ ~Ready /\ Quiet /\ obs' = Cleared /\ Push(op, 0)
    /\ World /\ NoOriginChange

(* chaos_observation_begin_exclusive gives way to any root still standing, stale
   or not; a refusal gives its caller nothing to act on                        *)
BeginExclusive ==
    /\ obs.root = 0 /\ Ready /\ Len(callers) < MaxDepth
    /\ \E done \in BOOLEAN :
         /\ Log(RowOf("started", "whistle_attention", 0, "none"), done)
         /\ IF done THEN /\ obs' = Rooted("whistle_attention")
                         /\ Push("whistle_attention", Len(rows'))
                    ELSE UNCHANGED <<obs, callers>>
    /\ World /\ NoOriginChange

Disarmed(o) == [o EXCEPT !.pending = "none", !.taken = FALSE]

(* an action arms after it disarmed what it armed before *)
Arm(fact) ==
    /\ Acting /\ fact \in Facts[Top.op] /\ Top.token = NoToken /\ obs.pending = "none"
    /\ obs' = IF Current(obs) /\ ~obs.used /\ obs.op = Top.op
              THEN [obs EXCEPT !.pending = fact, !.taken = FALSE]
              ELSE Disarmed(Fresh(obs))
    /\ Quiet /\ UNCHANGED callers /\ World /\ NoOriginChange

Disarm ==
    /\ Acting /\ obs.pending # "none"
    /\ obs' = Disarmed(obs)
    /\ Quiet /\ UNCHANGED callers /\ World /\ NoOriginChange

(* observation_take: a message or a map display claims the armed fact *)
Take(channel) ==
    /\ Acting /\ Top.token = NoToken
    /\ obs.pending # "none" /\ ~obs.taken /\ ~obs.used /\ Channel(obs.pending) = channel
    /\ Current(obs)
    /\ obs' = [obs EXCEPT !.taken = TRUE]
    /\ Holding(Len(callers), [root |-> obs.root, fact |-> obs.pending])
    /\ Quiet /\ World /\ NoOriginChange

(* any message of anyone clears a root of an earlier turn *)
Glance ==
    /\ obs.root > 0 /\ obs.turn # moves /\ obs' = Cleared
    /\ Quiet /\ UNCHANGED callers /\ World /\ NoOriginChange

(* the message was suppressed, repeated or stopped before it was rendered *)
NotRendered(c) ==
    /\ callers[c].token # NoToken /\ Holding(c, NoToken)
    /\ Quiet /\ UNCHANGED obs /\ World /\ NoOriginChange

(* Wrong: the root stays open for another notice. *)
UsedForgotten(o, fact) ==
    [o EXCEPT !.pending = "none", !.taken = FALSE,
              !.blocked = @ \/ fact \in ImpliesBlocked]

Used(o, fact) ==
    [o EXCEPT !.pending = "none", !.taken = FALSE, !.used = TRUE,
              !.blocked = @ \/ fact \in ImpliesBlocked]

(* observation_notice.  Whether its row was written is not asked here. *)
Notice(fact) ==
    /\ obs' = Used(obs, fact)
    /\ \E done \in BOOLEAN : Log(RowOf("notice", obs.op, obs.root, fact), done)
    /\ origin' = IF fact \notin OriginFacts THEN origin
                 ELSE [origin EXCEPT ![obs.op] = [pending |-> TRUE, root |-> obs.root,
                                                  notice |-> Len(rows')]]
    /\ UNCHANGED <<schedule, scheduleFailed>>

Accepts(o, token) == /\ Current(o) /\ ~o.used
                     /\ o.taken /\ o.pending = token.fact

(* Wrong: the root of the token is not asked for. *)
MeantForAny(token) == TRUE

MeantFor(token) == token.root = obs.root

(* observation_deliver: a token of another root must not even expire this one *)
Deliver(c) ==
    /\ callers[c].token # NoToken /\ Holding(c, NoToken)
    /\ LET token == callers[c].token
       IN  \/ MeantFor(token) /\ Accepts(obs, token) /\ Notice(token.fact)
           \/ /\ MeantFor(token) /\ ~Accepts(obs, token)
              /\ obs' = Fresh(obs) /\ Quiet /\ NoOriginChange
           \/ ~MeantFor(token) /\ Quiet /\ UNCHANGED obs /\ NoOriginChange
    /\ World

Blocked ==
    /\ Acting /\ Top.op = "fountain_drink"
    /\ obs' = IF Current(obs) /\ obs.op \in AllowBlocked
              THEN [obs EXCEPT !.blocked = TRUE] ELSE Fresh(obs)
    /\ Quiet /\ UNCHANGED callers /\ World /\ NoOriginChange

-----------------------------------------------------------------------------
(* chaos_observation_end, and the origin it publishes. *)

(* Wrong: an origin that some earlier root of the family left pending counts. *)
IsOriginOfAny(op, root) == op \in OriginOperations /\ origin[op].pending

IsOrigin(op, root) ==
    op \in OriginOperations /\ origin[op].pending /\ origin[op].root = root

(* chaos_next_use_note_origin accepts the record *)
Publishable(root, notice, end) ==
    root >= 1 /\ notice > root /\ end > notice /\ Len(schedule) < MaxOrigins

(* One failure, whatever its cause, closes the schedule for this process *)
PublishOrigin(op) ==
    LET entry == [op |-> op, root |-> origin[op].root, notice |-> origin[op].notice,
                  end |-> Len(rows')]
        may == ~scheduleFailed /\ ~failed' /\ Publishable(entry.root, entry.notice, entry.end)
    IN  /\ origin' = [origin EXCEPT ![op].pending = FALSE]
        /\ \/ may /\ schedule' = Append(schedule, entry) /\ UNCHANGED scheduleFailed
           \/ (may => Lossy) /\ UNCHANGED schedule /\ scheduleFailed' = TRUE

EndsNothing == \/ obs.op = "whistle_attention" \/ Top.root = 0 \/ Top.root # obs.root

End ==
    /\ Acting /\ Top.op # "whistle_attention" /\ Pop /\ World
    /\ \/ /\ EndsNothing /\ Quiet /\ NoOriginChange
          /\ obs' = IF Top.op = "door_open" THEN Disarmed(obs) ELSE obs
       \/ ~EndsNothing /\ ~Current(obs) /\ obs' = Cleared /\ Quiet /\ NoOriginChange
       \/ /\ ~EndsNothing /\ Current(obs) /\ obs' = Cleared
          /\ \E done \in BOOLEAN :
               Log(RowOf(IF obs.blocked THEN "blocked" ELSE "completed", obs.op, obs.root,
                         "none"), done)
          /\ IF ~obs.blocked /\ IsOrigin(obs.op, obs.root) THEN PublishOrigin(obs.op)
             ELSE NoOriginChange

(* chaos_observation_finish: the caller names the stage, and a root that is not
   this turn's is left as it stands                                            *)
Finish ==
    /\ Acting /\ Top.op = "whistle_attention" /\ Pop /\ World /\ NoOriginChange
    /\ IF Top.root = obs.root /\ obs.op = "whistle_attention" /\ obs.turn = moves
       THEN /\ \E done \in BOOLEAN, stage \in {"completed", "blocked"} :
                 Log(RowOf(stage, obs.op, obs.root, "none"), done)
            /\ obs' = Cleared
       ELSE Quiet /\ UNCHANGED obs

-----------------------------------------------------------------------------
(* What else happens to a root. *)

(* level_leave, level_enter or session: attribution ends even if nothing is written
   (bound: where no root stands it is any other event)                             *)
Boundary ==
    /\ obs.root > 0
    /\ obs' = Cleared
    /\ \E done \in BOOLEAN : Log(RowOf("boundary", "none", 0, "none"), done)
    /\ UNCHANGED callers /\ World /\ NoOriginChange

Die ==
    /\ ~over /\ over' = TRUE
    /\ obs' = Cleared
    /\ \E done \in BOOLEAN : Log(RowOf("death", "none", 0, "none"), done)
    /\ UNCHANGED <<callers, moves>> /\ NoOriginChange

(* any other event (bound: a second one in a row is not explored) *)
Report ==
    /\ CanLog /\ (rows # <<>> => rows[Len(rows)].stage # "other")
    /\ \E done \in BOOLEAN : Log(RowOf("other", "none", 0, "none"), done)
    /\ UNCHANGED <<obs, callers>> /\ World /\ NoOriginChange

(* bound: where no root stands a turn would pass unnoticed *)
Turn ==
    /\ obs.root > 0 /\ ~over /\ moves < MaxMoves /\ moves' = moves + 1
    /\ Quiet /\ UNCHANGED <<obs, callers, over>> /\ NoOriginChange

Next ==
    \/ \E op \in Operations \ {"whistle_attention"} : Facts[op] \cap Explored # {} /\ Begin(op)
    \/ "attention" \in Explored /\ BeginExclusive
    \/ \E c \in DOMAIN callers : NotRendered(c) \/ Deliver(c)
    \/ Disarm \/ Blocked \/ End \/ Finish
    \/ \E fact \in Explored : Arm(fact)
    \/ \E channel \in {"message", "map"} : Take(channel)
    \/ Glance \/ Boundary \/ Die \/ Report \/ Turn

Spec == Init /\ [][Next]_vars

-----------------------------------------------------------------------------
(****************************************************************************)
(* What the log and the schedule may be taken to prove.                     *)
(****************************************************************************)

EndsAttribution(row, root) ==
    \/ row.stage \in {"started", "boundary", "death"}
    \/ row.root = root /\ row.stage \in {"completed", "blocked"}

(* "One transient root permits at most one notice and one terminal, in that    *)
(* order, linked within the same operation, turn and session.  A replacement   *)
(* root, session, level boundary or death ends attribution."                   *)
RootsAreTold ==
    \A i \in DOMAIN rows : LET root == rows[i].root IN
      root > 0 =>
        /\ root < i /\ rows[root].stage = "started"
        /\ rows[root].op = rows[i].op /\ rows[root].turn = rows[i].turn
        /\ \A j \in (root + 1)..(i - 1) :
             /\ ~EndsAttribution(rows[j], root)
             /\ rows[i].stage = "notice" => rows[j].root # root

(* Every published origin stands for one completed root in the log that        *)
(* noticed what its family is published for, whatever writes failed; and no    *)
(* root is published twice.  The very last event number is excepted: once it   *)
(* is used the end of a root is refused without failing the transport, and     *)
(* chaos_observation_end publishes the number all the same.                    *)
OriginsAreWitnessed ==
    \A k \in DOMAIN schedule : LET e == schedule[k] IN
      /\ e.end \in DOMAIN rows
      /\ rows[e.root].stage = "started" /\ rows[e.root].op = e.op
      /\ rows[e.notice].stage = "notice" /\ rows[e.notice].root = e.root
      /\ rows[e.notice].fact \in OriginFacts
      /\ e.end < MaxSeq => rows[e.end].stage = "completed" /\ rows[e.end].root = e.root
      /\ \A j \in 1..(k - 1) : schedule[j].end < e.root

(* "Action-bound tokens prevent nested/replacement actions from stealing a     *)
(* notice": a notice is written only when the action that began its root hands *)
(* in the token that root gave it for that fact.                               *)
NoticeIsOwn ==
    [][ \A i \in DOMAIN rows' \ DOMAIN rows :
          rows'[i].stage = "notice" =>
            \E c \in DOMAIN callers :
              /\ callers[c].root = rows'[i].root /\ callers'[c].token = NoToken
              /\ callers[c].token = [root |-> rows'[i].root, fact |-> rows'[i].fact] ]_vars
=============================================================================
