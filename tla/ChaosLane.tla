------------------------------ MODULE ChaosLane ------------------------------
(****************************************************************************)
(* An authoring lane of the director (chaos/lane.py): one request for model *)
(* content per game, made on a background thread, with a deadline on the    *)
(* lane's own clock, a durable record of every step, and a publication by   *)
(* rename.  surface tells the two lanes apart: CurioLane publishes only     *)
(* while the engine's curio is still open, HoundLane falls back to its      *)
(* hand-made program whatever goes wrong.                                   *)
(*                                                                          *)
(* poll() is one step for each file it writes and each time it takes the    *)
(* lock; the thread, the engine and a crash of the director may come        *)
(* between any two of them.                                                 *)
(****************************************************************************)
EXTENDS Naturals, FiniteSets

CONSTANTS
    Surfaces,   \* the lanes to consider: "curio", "hound"
    MaxStarts   \* bound: directors started in one game

ASSUME LaneAssumption == Surfaces \subseteq {"curio", "hound"} /\ MaxStarts \in Nat

VARIABLES
    surface,    \* which lane this is
    record,     \* curio-lane.json or haunt-lane.json
    receipt,    \* receipt.json of the two evidence directories
    candidate,  \* curio.lua or haunting.lua: whose source it is
    phase,      \* the engine: whether it still waits for a candidate
    looked,     \* history: the source the engine read
    wanted,     \* the game has shown what the request waits for
    pc,         \* where the director is: between two polls, or inside one
    noted,      \* self._phase or self._decided: what its events told it
    backend,    \* self.backend is not None and self.validator is not None
    thread,     \* the authoring thread
    last,       \* self.receipts[-1]
    clock,      \* _expired, _settled, and whether the deadline has passed
    requests,   \* history: requests made in this game
    starts      \* history: directors started

disk == <<record, receipt, candidate>>
engine == <<phase, looked, wanted>>
memory == <<noted, backend, thread, last, clock>>
history == <<requests, starts, surface>>
vars == <<disk, engine, pc, memory, history>>

Attempts == 1..2                          \* EVIDENCE: a request and its regeneration
Source == [k \in Attempts |-> IF k = 1 THEN "first" ELSE "second"]
Sources == {"none", "first", "second", "hand"}
Steps == {"idle", "requested", "ready", "failed", "published", "no_model", "fallback"}

(* A final receipt.  "again" is an outcome of REGENERATE, "refused" any other
   one that is not ready: the transport, the host's checks, the prose.        *)
Outcomes == {"ready", "again", "refused"}
Failures == {"refused", "again", "lane_error", "deadline", "abandoned", "closed"}

NoThread == [at |-> "none", attempt |-> 1]
Fresh == [expired |-> FALSE, settled |-> FALSE, over |-> FALSE]

Records == [step : Steps, outcome : Failures \cup {"none", "ready"}, evidence : 0..2]
Threads == [at : {"none", "loop", "asking", "dead"}, attempt : 1..3]
Clocks == [expired : BOOLEAN, settled : BOOLEAN, over : BOOLEAN]

TypeOK ==
    /\ record \in Records
    /\ receipt \in [Attempts -> Outcomes \cup {"none", "deadline"}]
    /\ candidate \in Sources /\ looked \in Sources
    /\ phase \in {"open", "taken", "closed"} /\ noted \in {"open", "taken", "closed"}
    /\ wanted \in BOOLEAN /\ backend \in BOOLEAN
    /\ pc \in {"off", "conflict", "init", "hand", "poll", "start", "expire", "mark"}
    /\ thread \in Threads /\ clock \in Clocks
    /\ last \in Outcomes \cup {"lane_error", "deadline"}
    /\ requests \in Nat /\ starts \in 0..MaxStarts /\ surface \in Surfaces

Up == pc \notin {"off", "conflict"}

Rest == /\ noted' = "open" /\ backend' = FALSE /\ thread' = NoThread
        /\ last' = "lane_error" /\ clock' = Fresh

(* new_record: durable before anything else, with nothing asked *)
Init ==
    /\ record = [step |-> "idle", outcome |-> "none", evidence |-> 0]
    /\ receipt = [k \in Attempts |-> "none"] /\ candidate = "none"
    /\ phase = "open" /\ looked = "none" /\ wanted = FALSE
    /\ pc = "off" /\ noted = "open" /\ backend = FALSE /\ thread = NoThread
    /\ last = "lane_error" /\ clock = Fresh
    /\ requests = 0 /\ starts = 0 /\ surface \in Surfaces

-----------------------------------------------------------------------------
(* The engine and the game. *)

Wanted ==
    /\ ~wanted /\ wanted' = TRUE
    /\ UNCHANGED <<disk, phase, looked, pc, memory, history>>

(* chaos_curio_safe, chaos_haunt_tick: only absence is looked at twice *)
EngineReads ==
    /\ phase = "open" /\ candidate # "none"
    /\ phase' = "taken" /\ looked' = candidate
    /\ UNCHANGED <<disk, wanted, pc, memory, history>>

(* nothing is admitted at the curio's expiry depth or below *)
EngineCloses ==
    /\ surface = "curio" /\ phase = "open" /\ phase' = "closed"
    /\ UNCHANGED <<disk, looked, wanted, pc, memory, history>>

-----------------------------------------------------------------------------
(* The director's process. *)

Start ==
    /\ ~Up /\ pc = "off" /\ starts < MaxStarts /\ starts' = starts + 1
    /\ pc' = "init" /\ noted' = phase /\ backend' \in BOOLEAN
    /\ UNCHANGED <<disk, engine, thread, last, clock, requests, surface>>

(* a crash, an I/O error it does not survive, or the end of the play *)
Stop == /\ Up /\ pc' = "off" /\ Rest
        /\ UNCHANGED <<disk, engine, history>>

Note ==
    /\ pc = "poll" /\ noted # phase /\ noted' = phase
    /\ UNCHANGED <<disk, engine, pc, backend, thread, last, clock, history>>

Write(step, outcome, evidence) ==
    record' = [step |-> step, outcome |-> outcome, evidence |-> evidence]

OnlyRecord == UNCHANGED <<receipt, candidate, engine, memory, history>>

Ready == {k \in Attempts : receipt[k] = "ready"}
Latest == CHOOSE k \in Ready : \A j \in Ready : j <= k

(* Wrong: a restored game asks once more. *)
InFlightRetries ==
    /\ pc = "init" /\ record.step = "requested" /\ pc' = "poll"
    /\ IF Ready # {} THEN Write("ready", "ready", Latest) ELSE Write("idle", "none", 0)
    /\ OnlyRecord

(* Wrong: an answer that was not marked published is abandoned too. *)
InFlightForgets ==
    /\ pc = "init" /\ record.step \in {"requested", "ready"} /\ pc' = "poll"
    /\ Write("failed", "abandoned", 0) /\ OnlyRecord

(* _restore_in_flight: never ask again, keep a completed ready answer *)
InFlight ==
    /\ pc = "init" /\ record.step = "requested" /\ pc' = "poll"
    /\ IF Ready # {} THEN Write("ready", "ready", Latest) ELSE Write("failed", "abandoned", 0)
    /\ OnlyRecord

(* mark_no_model; for the hound its hand-made program follows at once *)
NoModel ==
    /\ pc = "init" /\ record.step = "idle" /\ ~backend
    /\ pc' = IF surface = "hound" THEN "hand" ELSE "poll"
    /\ Write("no_model", "none", 0) /\ OnlyRecord

Begins ==
    /\ pc = "init" /\ record.step # "requested" /\ (record.step = "idle" => backend)
    /\ pc' = IF surface = "hound" /\ record.step = "no_model" THEN "hand" ELSE "poll"
    /\ UNCHANGED record /\ OnlyRecord

-----------------------------------------------------------------------------
(* poll() *)

Asks ==
    /\ pc = "poll" /\ record.step = "idle" /\ wanted /\ noted = "open"
    /\ Write("requested", "none", 0) /\ pc' = "start" /\ OnlyRecord

StartsThread ==
    /\ pc = "start" /\ pc' = "poll"
    /\ thread' = [at |-> "loop", attempt |-> 1] /\ requests' = requests + 1
    /\ UNCHANGED <<disk, engine, noted, backend, last, clock, starts, surface>>

Alive == thread.at \in {"loop", "asking"}

(* _finished *)
Finishes ==
    /\ pc = "poll" /\ record.step = "requested" /\ thread.at = "dead"
    /\ IF last = "ready" THEN Write("ready", "ready", thread.attempt) ELSE Write("failed", last, 0)
    /\ thread' = NoThread
    /\ UNCHANGED <<receipt, candidate, engine, pc, noted, backend, last, clock, history>>

(* Wrong: the poll waits for the thread to say that it is late. *)
ExpiresIfTold ==
    /\ pc = "poll" /\ record.step = "requested" /\ Alive
    /\ clock.expired /\ ~clock.settled
    /\ pc' = "expire"
    /\ UNCHANGED <<disk, engine, noted, backend, thread, last, clock, history>>

(* _check_deadline: its lock, and after it the record *)
Expires ==
    /\ pc = "poll" /\ record.step = "requested" /\ Alive
    /\ clock.over /\ ~clock.settled
    /\ clock' = [clock EXCEPT !.expired = TRUE] /\ pc' = "expire"
    /\ UNCHANGED <<disk, engine, noted, backend, thread, last, history>>

RecordsExpiry ==
    /\ pc = "expire" /\ pc' = "poll"
    /\ Write("failed", "deadline", 0) /\ OnlyRecord

(* publish_source: an identical file is an earlier publication, any other a conflict *)
Place(source, next) ==
    /\ IF candidate = "none" \/ candidate = source
       THEN candidate' = source /\ pc' = next /\ UNCHANGED memory
       ELSE UNCHANGED candidate /\ pc' = "conflict" /\ Rest
    /\ UNCHANGED <<record, receipt, engine, history>>

Publishable == surface = "curio" => noted = "open"

Publishes ==
    /\ pc = "poll" /\ record.step = "ready" /\ Publishable
    /\ Place(Source[record.evidence], "mark")

ClosedFirst ==
    /\ pc = "poll" /\ record.step = "ready" /\ ~Publishable
    /\ UNCHANGED pc /\ Write("failed", "closed", record.evidence) /\ OnlyRecord

(* Wrong: only a game without a model falls back. *)
FallsBackUnasked ==
    surface = "hound" /\ pc = "hand" /\ Place("hand", "poll")

(* _publish_fallback *)
FallsBack ==
    /\ surface = "hound"
    /\ \/ pc = "poll" /\ record.step = "failed" /\ Place("hand", "mark")
       \/ pc = "hand" /\ Place("hand", "poll")

(* Wrong: the published record does not say which answer it was. *)
MarksBare ==
    /\ pc = "mark" /\ pc' = "poll"
    /\ IF record.step = "ready" THEN Write("published", "ready", 0)
       ELSE Write("fallback", record.outcome, 0)
    /\ OnlyRecord

Marks ==
    /\ pc = "mark" /\ pc' = "poll"
    /\ IF record.step = "ready" THEN Write("published", "ready", record.evidence)
       ELSE Write("fallback", record.outcome, 0)
    /\ OnlyRecord

-----------------------------------------------------------------------------
(* The authoring thread, _author. *)

TimePasses ==
    /\ Alive /\ ~clock.over /\ clock' = [clock EXCEPT !.over = TRUE]
    /\ UNCHANGED <<disk, engine, pc, noted, backend, thread, last, history>>

MayAsk(attempt) == attempt \in Attempts /\ ~clock.over /\ ~clock.expired

(* the head of the loop, read without the lock *)
Loops ==
    /\ thread.at = "loop"
    /\ thread' = [thread EXCEPT !.at = IF MayAsk(thread.attempt) THEN "asking" ELSE "dead"]
    /\ UNCHANGED <<disk, engine, pc, noted, backend, last, clock, history>>

(* author_curio, author_hound: an exception before there is a receipt *)
Raises ==
    /\ thread.at = "asking" /\ thread' = [thread EXCEPT !.at = "dead"]
    /\ last' = "lane_error"
    /\ UNCHANGED <<disk, engine, pc, noted, backend, clock, history>>

(* Wrong: a ready answer stands however late it comes. *)
StandsIfReady(outcome) == outcome = "ready" \/ ~(clock.expired \/ clock.over)

Stands(outcome) == ~(clock.expired \/ clock.over)

(* _gate, under the lock: what the late thread would have said is not said *)
Gate ==
    /\ thread.at = "asking"
    /\ \E outcome \in Outcomes, written \in BOOLEAN, reported \in BOOLEAN :
         LET said == IF Stands(outcome) THEN outcome ELSE "deadline"
             again == reported /\ said = "again"
         IN  /\ reported => written
             /\ receipt' = IF written THEN [receipt EXCEPT ![thread.attempt] = said] ELSE receipt
             /\ clock' = IF Stands(outcome) THEN [clock EXCEPT !.settled = @ \/ outcome = "ready"]
                         ELSE [clock EXCEPT !.expired = TRUE]
             /\ last' = IF reported THEN said ELSE "lane_error"
             /\ thread' = IF again THEN [at |-> "loop", attempt |-> thread.attempt + 1]
                          ELSE [thread EXCEPT !.at = "dead"]
    /\ UNCHANGED <<record, candidate, engine, pc, noted, backend, history>>

-----------------------------------------------------------------------------
Poll == \/ InFlight \/ NoModel \/ Begins \/ Asks \/ StartsThread \/ Finishes \/ Expires
        \/ RecordsExpiry \/ Publishes \/ ClosedFirst \/ FallsBack \/ Marks

Next ==
    \/ Wanted \/ EngineReads \/ EngineCloses
    \/ Start \/ Stop \/ Note \/ Poll
    \/ TimePasses \/ Loops \/ Raises \/ Gate

Spec == Init /\ [][Next]_vars

(* The director loop polls while the lane is active, and the clock runs.  The
   thread may hang: nothing is assumed of it, of the engine or of a restart.   *)
FairSpec == Spec /\ WF_vars(Poll) /\ WF_vars(TimePasses)

-----------------------------------------------------------------------------
(* The deadline is the lane's: once it gave up, or a restore did, "anything the *)
(* authoring thread produces afterwards is written as that deadline failure     *)
(* (never ready)", and a restore "keeps a completed ready answer".  So a game    *)
(* that failed has no ready answer lying about, unless the failure was to tell.  *)
FailedHasNoAnswer ==
    /\ record.step \in {"failed", "fallback"}
    /\ record.outcome \in {"deadline", "abandoned", "refused", "again"}
    => Ready = {}

(* What the engine may find under the candidate's name is the source of the one  *)
(* verified answer the record names, or the hand-made program of a game whose    *)
(* request failed: never both, whatever crashed in between.                      *)
CandidateIsRecorded ==
    /\ \A k \in Attempts : candidate = Source[k] =>
         receipt[k] = "ready" /\ record.evidence = k
    /\ candidate = "hand" => record.step \in {"failed", "fallback", "no_model"}

(* publish_source: "anything else is a conflict", and there never is one.        *)
NeverConflicts == pc # "conflict"

Content(source) == IF source \in {"first", "second"} THEN "model" ELSE source

(* A game asks once, offers one candidate and never changes it (ChaosAuthored).  *)
Authored == INSTANCE ChaosAuthored WITH
    fallback <- surface = "hound",
    content <- Content(candidate),
    read <- Content(looked)

AsksOnceOffersOnce == Authored!Spec

(* "A hung or trickling request cannot keep the lane requested."                 *)
RequestSettles == record.step = "requested" ~> record.step # "requested" \/ ~Up

(* "On any lane failure ... publishes the hand-authored footsteps.lua instead,    *)
(* so the hound still happens": a request always ends in a candidate.            *)
HoundStillHappens ==
    surface = "hound" /\ record.step = "requested" ~> candidate # "none" \/ ~Up

(* curio_director.py, _publish: "another admission came first: nothing is         *)
(* published and the player sees nothing".                                       *)
ClosedIsUnpublished == record.outcome = "closed" => candidate = "none"
=============================================================================
