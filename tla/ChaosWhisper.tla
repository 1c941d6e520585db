----------------------------- MODULE ChaosWhisper ----------------------------
(****************************************************************************)
(* The whisper mailbox: the engine (chaos_start, chaos_io_safe) and the     *)
(* director (chaos/director.py) are two processes that share three files of *)
(* the run directory and nothing else.  The director renames requests into  *)
(* whisper.json and reads events.jsonl; the engine reads whisper.json at    *)
(* its safe points and appends to events.jsonl and whispers.jsonl.  Every   *)
(* append may fail, the engine may die or be hung up anywhere and be        *)
(* restored from its last save, and a director may come and go.             *)
(*                                                                          *)
(* A request is its id and its safe-point index.  Whether the account can   *)
(* afford it is ChaosLedger's matter, here a choice.  Files other than the  *)
(* director's (a malformed whisper.json) are not modelled.                  *)
(****************************************************************************)
EXTENDS Integers, Sequences, FiniteSets

CONSTANTS
    MaxSeq,       \* CHAOS_MAX_COUNTER, for the event number
    MaxSafe,      \* CHAOS_MAX_COUNTER, for the safe-point index
    MaxId,        \* bound: ids a director may use (run()'s max_submissions)
    MaxSessions,  \* bound: engine processes
    MaxDirectors, \* bound: director processes
    Lossy         \* whether an append may fail

ASSUME WhisperAssumption ==
    /\ MaxSeq \in Nat /\ MaxSafe \in Nat /\ MaxId \in Nat
    /\ MaxSessions \in Nat \ {0} /\ MaxDirectors \in Nat \ {0} /\ Lossy \in BOOLEAN

VARIABLES
    pc,       \* the engine: "new", "arrive", "enter" (chaos_start), "play", a step
              \* of chaos_io_safe, "off" (no process) or "over" (the hero died)
    u,        \* the part of u.chaos a whisper moves, and the whispers it holds
    next,     \* chaos_io_safe's staged copy of it
    r,        \* the request in hand
    verdict,  \* what its acknowledgement will say
    failed,   \* io.failed: this process writes no more
    events,   \* events.jsonl, the complete lines
    torn,     \* events.jsonl ends in an incomplete line
    journal,  \* whispers.jsonl: <<session, request>>
    whisper,  \* whisper.json
    saved,    \* the save file or checkpoint
    session,  \* which engine process this is
    applied,  \* history: <<session, request>> that took effect
    director, \* the director process: what it read, holds and plans
    stopped,  \* why the last director stopped
    late,     \* history: some request was published at an index already reached
    directors \* director processes started so far

engine == <<pc, u, next, r, verdict, failed, saved, session, applied>>
files == <<events, torn, journal>>
sidecar == <<director, stopped, late, directors>>
vars == <<engine, files, whisper, sidecar>>

Request == [id : 1..MaxId, at : 1..MaxSafe]
NoRequest == [id |-> 0, at |-> 0]
Effect == [id : 1..MaxId, at : 1..MaxSafe, safe : 1..MaxSafe]
Saved == [seq : 0..MaxSeq, safe : 0..MaxSafe, last_id : 0..MaxId, effects : Seq(Effect)]
NewGame == [seq |-> 0, safe |-> 0, last_id |-> 0, effects |-> <<>>]
NoLine == [name |-> "none", seq |-> 0, safe |-> 0, last_id |-> 0]

EventNames == {"session", "safe_point", "telegraph", "accepted", "rejected", "death",
               "other", "unreadable"}
Line == [name : EventNames, session : 1..MaxSessions, seq : 0..MaxSeq, safe : 0..MaxSafe,
         last_id : 0..MaxId, request : Request \cup {NoRequest}]

Latest(lines) == IF lines = <<>> THEN NoLine ELSE lines[Len(lines)]

Idle == [up |-> FALSE, read |-> 0, known |-> NoRequest, plan |-> NoRequest]

TypeOK ==
    /\ pc \in {"new", "arrive", "enter", "play", "read", "journal", "telegraph", "show", "ack",
               "off", "over"}
    /\ u \in Saved /\ next \in Saved /\ saved \in Saved \cup {NoRequest}
    /\ r \in Request \cup {NoRequest} /\ whisper \in Request \cup {NoRequest}
    /\ verdict \in {"accepted", "rejected"}
    /\ failed \in BOOLEAN /\ torn \in BOOLEAN /\ late \in BOOLEAN
    /\ events \in Seq(Line)
    /\ journal \subseteq (1..MaxSessions) \X Request /\ applied \subseteq journal
    /\ session \in 0..MaxSessions /\ directors \in 0..MaxDirectors
    /\ director.up \in BOOLEAN /\ director.read \in 0..Len(events)
    /\ director.known \in Request \cup {NoRequest}
    /\ director.plan \in Request \cup {NoRequest}
    /\ stopped \in {"running", "error", "death", "cap"}

Init ==
    /\ pc = "new" /\ u = NewGame /\ next = NewGame /\ r = NoRequest /\ verdict = "rejected"
    /\ failed = FALSE /\ saved = NoRequest /\ session = 0 /\ applied = {}
    /\ events = <<>> /\ torn = FALSE /\ journal = {}
    /\ whisper = NoRequest
    /\ director = Idle /\ stopped = "running" /\ late = FALSE /\ directors = 0

-----------------------------------------------------------------------------
(* event() and append().  A line completes a torn one into something no reader
   can parse.                                                                 *)

LineAdded(line) == IF torn THEN Append(events, [line EXCEPT !.name = "unreadable"])
                   ELSE Append(events, line)

(* A write that fails may leave nothing, a torn line or -- when only the fsync
   failed -- the whole line; the event number stays and the transport is shut. *)
WriteLost(line) ==
    /\ Lossy
    /\ failed' = TRUE
    /\ \/ UNCHANGED <<events, torn>>
       \/ events' = events /\ torn' = TRUE
       \/ events' = LineAdded(line) /\ torn' = FALSE

WriteMade(line) == events' = LineAdded(line) /\ torn' = FALSE /\ failed' = failed

CanWrite(st) == ~failed /\ st.seq < MaxSeq

EventLine(st, name, request, number) ==
    [name |-> name, session |-> number, seq |-> st.seq + 1, safe |-> st.safe,
     last_id |-> st.last_id, request |-> request]

(* Wrong: the number is not checked against its limit. *)
EventUnbounded(st, name, request, number, done) ==
    \/ done /\ WriteMade(EventLine(st, name, request, number)) /\ u' = [st EXCEPT !.seq = @ + 1]
    \/ ~done /\ failed /\ u' = st /\ UNCHANGED <<events, torn, failed>>

(* The event named after st: `done` tells whether it was logged *)
Event(st, name, request, number, done) ==
    \/ /\ done /\ CanWrite(st)
       /\ WriteMade(EventLine(st, name, request, number))
       /\ u' = [st EXCEPT !.seq = @ + 1]
    \/ ~done /\ CanWrite(st) /\ WriteLost(EventLine(st, name, request, number)) /\ u' = st
    \/ ~done /\ ~CanWrite(st) /\ u' = st /\ UNCHANGED <<events, torn, failed>>

-----------------------------------------------------------------------------
(* The engine: sessions, saves and deaths. *)

AtRest == next' = NewGame /\ r' = NoRequest /\ verdict' = "rejected"
Unsaved == UNCHANGED <<saved, session, applied, journal, whisper, sidecar>>

(* chaos_start of a new game: the session event, the first level's event, and
   then its safe point *)
Start ==
    /\ pc = "new" /\ pc' = "arrive" /\ session' = 1
    /\ \E done \in BOOLEAN : Event(u, "session", NoRequest, 1, done)
    /\ AtRest /\ UNCHANGED <<saved, applied, journal, whisper, sidecar>>

Arrive ==
    /\ pc = "arrive" /\ pc' = "enter"
    /\ \E done \in BOOLEAN : Event(u, "other", NoRequest, session, done)
    /\ AtRest /\ Unsaved

(* chaos_start after dorecover: the record is the save's, the files are as they are *)
Restore ==
    /\ pc = "off" /\ saved # NoRequest /\ session < MaxSessions
    /\ pc' = "play" /\ session' = session + 1
    /\ \E done \in BOOLEAN : Event(saved, "session", NoRequest, session', done)
    /\ AtRest /\ UNCHANGED <<saved, applied, journal, whisper, sidecar>>

(* any other event the game reports between safe points (bound: a second one in
   a row is not explored) *)
Report ==
    /\ pc = "play" /\ CanWrite(u) /\ pc' = "play"
    /\ Latest(events).name # "other"
    /\ \E done \in BOOLEAN : Event(u, "other", NoRequest, session, done)
    /\ AtRest /\ Unsaved

Die ==
    /\ pc = "play" /\ pc' = "over"
    /\ \E done \in BOOLEAN : Event(u, "death", NoRequest, session, done)
    /\ AtRest /\ Unsaved

(* a checkpoint at a level change, or the save the player asks for *)
Save ==
    /\ pc = "play" /\ saved' = u
    /\ UNCHANGED <<pc, u, failed, session, applied, files, whisper, sidecar>> /\ AtRest

Running == pc \notin {"new", "off", "over"}

(* The process ends and its memory, io.failed included, goes with it. *)
Ends == /\ Running /\ pc' = "off" /\ failed' = FALSE /\ u' = NewGame /\ AtRest
        /\ UNCHANGED <<session, applied, files, whisper, sidecar>>

(* a crash, or a quit: nothing is saved *)
Stop == Ends /\ UNCHANGED saved

(* hangup(): the signal handler saves whatever u.chaos is, then terminates *)
HangUp == Ends /\ saved' = u

-----------------------------------------------------------------------------
(* The engine: chaos_io_safe, one step per file operation. *)

Unread == UNCHANGED <<saved, session, journal, whisper, sidecar>>

SafePoint ==
    /\ pc \in {"enter", "play"} /\ ~failed /\ u.safe < MaxSafe
    /\ \E done \in BOOLEAN :
         /\ Event([u EXCEPT !.safe = @ + 1], "safe_point", NoRequest, session, done)
         /\ pc' = IF done THEN "read" ELSE "play"
    /\ AtRest /\ UNCHANGED applied /\ Unread

(* The first safe point when the transport is closed: nothing is done *)
NoSafePoint ==
    /\ pc = "enter" /\ (failed \/ u.safe = MaxSafe) /\ pc' = "play"
    /\ AtRest /\ UNCHANGED <<u, failed, files, applied, saved, session, whisper, sidecar>>

(* Wrong: a request that missed its index is admitted at the next one. *)
JudgeLate(st, q) ==
    IF q.id <= st.last_id THEN {"duplicate"}
    ELSE IF q.at > st.safe THEN {"future"} ELSE {"ok", "refused"}

(* Wrong: a missed index keeps waiting. *)
JudgePatient(st, q) ==
    IF q.id <= st.last_id THEN {"duplicate"}
    ELSE IF q.at # st.safe THEN {"future"} ELSE {"ok", "refused"}

(* chaos_admit's order: the id, the index, then everything the account says *)
Judge(st, q) ==
    IF q.id <= st.last_id THEN {"duplicate"}
    ELSE IF q.at > st.safe THEN {"future"}
    ELSE IF q.at # st.safe THEN {"schedule"} ELSE {"ok", "refused"}

(* Wrong: a refused or late request keeps its id. *)
ConsumedIfAdmitted(st, q, result) ==
    IF result # "ok" THEN st ELSE [st EXCEPT !.last_id = q.id]

Consumed(st, q, result) ==
    IF result = "duplicate" THEN st ELSE [st EXCEPT !.last_id = q.id]

NothingToDo ==
    /\ pc = "read" /\ (whisper = NoRequest \/ "future" \in Judge(u, whisper))
    /\ pc' = "play" /\ AtRest /\ UNCHANGED <<u, failed, events, torn, applied>> /\ Unread

Reject ==
    /\ pc = "read" /\ whisper # NoRequest
    /\ \E result \in Judge(u, whisper) \cap {"duplicate", "schedule", "refused"} :
         u' = Consumed(u, whisper, result)
    /\ pc' = "ack" /\ r' = whisper /\ verdict' = "rejected"
    /\ UNCHANGED <<next, failed, events, torn, applied>> /\ Unread

(* The id is consumed now; the effect waits in the staged copy. *)
Admit ==
    /\ pc = "read" /\ whisper # NoRequest /\ "ok" \in Judge(u, whisper)
    /\ u' = Consumed(u, whisper, "ok")
    /\ next' = [u' EXCEPT !.effects =
                  Append(@, [id |-> whisper.id, at |-> whisper.at, safe |-> u.safe])]
    /\ pc' = "journal" /\ r' = whisper
    /\ UNCHANGED <<verdict, failed, events, torn, applied>> /\ Unread

Journal ==
    /\ pc = "journal"
    /\ \/ /\ pc' = "telegraph" /\ journal' = journal \cup {<<session, r>>}
          /\ UNCHANGED <<next, r, verdict, failed>>
       \/ /\ Lossy /\ pc' = "play" /\ failed' = TRUE
          /\ journal' \in {journal, journal \cup {<<session, r>>}}
          /\ AtRest
    /\ UNCHANGED <<u, events, torn, applied, saved, session, whisper, sidecar>>

Telegraph ==
    /\ pc = "telegraph"
    /\ \E done \in BOOLEAN :
         /\ Event(u, "telegraph", r, session, done)
         /\ IF done THEN pc' = "show" /\ UNCHANGED <<next, r, verdict>>
                    ELSE pc' = "play" /\ AtRest
    /\ UNCHANGED applied /\ Unread

(* Wrong: the staged record brings back the event number it was copied with. *)
CommitStale(st, staged) == staged

(* next.seq = s->seq; *s = next *)
Commit(st, staged) == [staged EXCEPT !.seq = st.seq]

(* The warning is shown: now the staged copy is the record *)
Show ==
    /\ pc = "show" /\ pc' = "ack" /\ verdict' = "accepted"
    /\ u' = Commit(u, next) /\ applied' = applied \cup {<<session, r>>}
    /\ UNCHANGED <<next, r, failed, events, torn>> /\ Unread

(* Wrong: a warning that was not shown is acknowledged like one that was. *)
ShowFailsAccepted ==
    /\ pc = "show" /\ pc' = "ack" /\ verdict' = "accepted"
    /\ UNCHANGED <<u, next, r, failed, events, torn, applied>> /\ Unread

ShowFails ==
    /\ pc = "show" /\ pc' = "ack" /\ verdict' = "rejected"
    /\ UNCHANGED <<u, next, r, failed, events, torn, applied>> /\ Unread

Ack ==
    /\ pc = "ack" /\ pc' = "play"
    /\ \E done \in BOOLEAN : Event(u, verdict, r, session, done)
    /\ AtRest /\ UNCHANGED applied /\ Unread

EngineStep == \/ Arrive \/ NoSafePoint \/ NothingToDo \/ Reject \/ Admit \/ Journal
              \/ Telegraph \/ Show \/ ShowFails \/ Ack

-----------------------------------------------------------------------------
(* The director (director.run).  What it knows is what the lines it read say: a
   poll reads the whole log, and a plan remembers how many lines it came from.  *)

IsAck(line) == line.name \in {"accepted", "rejected"}

(* Wrong: the order of the lines is not checked. *)
TrustedUnordered(lines) ==
    \A i \in DOMAIN lines : lines[i].name # "unreadable"

(* EventReader and State.ingest accept the whole log *)
Trusted(lines) ==
    /\ \A i \in DOMAIN lines :
         /\ lines[i].name # "unreadable"
         /\ i > 1 => /\ lines[i].seq > lines[i - 1].seq
                     /\ lines[i].safe >= lines[i - 1].safe
                     /\ lines[i].last_id >= lines[i - 1].last_id
                     /\ lines[i - 1].name # "death"
                     /\ lines[i].name = "session" => lines[i].session > 1
    /\ \A i, j \in DOMAIN lines :
         i < j /\ IsAck(lines[i]) /\ IsAck(lines[j])
               /\ lines[i].request.id = lines[j].request.id
           => /\ lines[i].request = lines[j].request
              /\ ~(lines[i].name = "accepted" /\ lines[j].name = "accepted")

Answered(lines, q) == \E i \in DOMAIN lines : IsAck(lines[i]) /\ lines[i].request = q

(* Wrong: a consumed request counts as answered. *)
PendingForgets(lines, mail, known) ==
    IF mail = NoRequest \/ Answered(lines, mail) \/ mail.id <= Latest(lines).last_id
    THEN "none" ELSE "wait"

(* Wrong: no allowance for the time between the telegraph and its answer. *)
PendingStrict(lines, mail, known) ==
    IF mail = NoRequest \/ Answered(lines, mail) THEN "none"
    ELSE IF mail.id <= Latest(lines).last_id \/ mail.at < Latest(lines).safe
            \/ (known = NoRequest /\ mail.at = Latest(lines).safe) THEN "error"
    ELSE "wait"

(* Mailbox.pending: "none", "wait" or, when the evidence does not fit, "error" *)
Pending(lines, mail, known) ==
    LET latest == Latest(lines)
    IN  IF known # NoRequest /\ mail # known THEN "error"
        ELSE IF mail = NoRequest \/ Answered(lines, mail) THEN "none"
        ELSE IF mail.id <= latest.last_id
        THEN IF /\ known # NoRequest /\ mail.id = latest.last_id /\ mail.at = latest.safe
                /\ latest.name = "telegraph" THEN "wait" ELSE "error"
        ELSE IF mail.at < latest.safe \/ (known = NoRequest /\ mail.at = latest.safe)
        THEN "error" ELSE "wait"

(* What a backend may choose: the next id, at an index still ahead *)
Choices(lines) == {q \in Request : /\ q.id = Latest(lines).last_id + 1
                                   /\ q.at \in (Latest(lines).safe + 1)..(Latest(lines).safe + 2)}

Alone == UNCHANGED <<engine, files>>

(* Mailbox.__init__ takes the lock of the run directory: one director at a time *)
DirectorStarts ==
    /\ ~director.up /\ directors < MaxDirectors
    /\ director' = [Idle EXCEPT !.up = TRUE]
    /\ directors' = directors + 1 /\ stopped' = "running"
    /\ Alone /\ UNCHANGED <<whisper, late>>

StopsFor(why) == director' = Idle /\ stopped' = why
Polling == director.up /\ director.plan = NoRequest

Mistrusts ==
    /\ Polling
    /\ \/ ~Trusted(events)
       \/ /\ Latest(events).name # "death"
          /\ Pending(events, whisper, director.known) = "error"
    /\ StopsFor("error")
    /\ Alone /\ UNCHANGED <<whisper, late, directors>>

Readable == Polling /\ Trusted(events) /\ Latest(events).name # "death"

SeesDeath ==
    /\ Polling /\ Trusted(events) /\ Latest(events).name = "death"
    /\ StopsFor("death")
    /\ Alone /\ UNCHANGED <<whisper, late, directors>>

Waits ==
    /\ Readable /\ Pending(events, whisper, director.known) = "wait"
    /\ director' = [director EXCEPT !.known = whisper]
    /\ Alone /\ UNCHANGED <<whisper, stopped, late, directors>>

Chooses ==
    /\ Readable /\ Pending(events, whisper, director.known) = "none"
    /\ \/ director' = [director EXCEPT !.known = NoRequest]
       \/ \E plan \in Choices(events) :
            director' = [director EXCEPT !.known = NoRequest, !.plan = plan,
                                         !.read = Len(events)]
    /\ Alone /\ UNCHANGED <<whisper, stopped, late, directors>>

(* Mailbox.submit: a rename, some time after the lines it was chosen from *)
Submit ==
    /\ director.up /\ director.plan # NoRequest
    /\ Pending(SubSeq(events, 1, director.read), whisper, NoRequest) = "none"
    /\ whisper' = director.plan
    /\ director' = [director EXCEPT !.known = director.plan, !.plan = NoRequest,
                                 !.read = 0]
    /\ late' = (late \/ director.plan.at <= u.safe)
    /\ Alone /\ UNCHANGED <<stopped, directors>>

(* its deadline, its submission cap, or the player ends it *)
DirectorEnds ==
    /\ director.up /\ StopsFor("cap")
    /\ Alone /\ UNCHANGED <<whisper, late, directors>>

-----------------------------------------------------------------------------
Next == \/ Start \/ EngineStep \/ SafePoint \/ Report \/ Die \/ Save \/ Stop \/ HangUp
        \/ Restore
        \/ DirectorStarts \/ Mistrusts \/ SeesDeath \/ Waits \/ Chooses \/ Submit
        \/ DirectorEnds

(* The process runs its handler to the end, and the game goes on reaching safe points *)
Fairness == WF_vars(Start \/ EngineStep) /\ WF_vars(SafePoint)

Spec == Init /\ [][Next]_vars
FairSpec == Spec /\ Fairness

-----------------------------------------------------------------------------
(****************************************************************************)
(* What the two processes promise.                                          *)
(****************************************************************************)

(* "journal is written and flushed before telegraph/effect"; an accepted       *)
(* acknowledgement is the only proof that an effect happened: each such line   *)
(* stands for an effect that was journalled, announced in an earlier line of   *)
(* the same process and installed -- whatever writes failed and wherever the   *)
(* process died.                                                               *)
AckIsProof ==
    \A i \in DOMAIN events :
      events[i].name = "accepted" =>
        /\ <<events[i].session, events[i].request>> \in journal \cap applied
        /\ \E j \in 1..(i - 1) : /\ events[j].name = "telegraph"
                                 /\ events[j].session = events[i].session
                                 /\ events[j].request = events[i].request

(* In the game as it stands, rolled back or not, no whisper took effect twice, *)
(* in the wrong order or at another index than its own, and every one of them  *)
(* is consumed: "replaying an already-consumed ID after restore cannot apply   *)
(* twice", "the engine never retimes it".                                      *)
AppliedOnceOnTime ==
    \A i \in DOMAIN u.effects :
      /\ u.effects[i].at = u.effects[i].safe
      /\ u.effects[i].id <= u.last_id
      /\ \A j \in 1..(i - 1) : u.effects[j].id < u.effects[i].id

(* The lines of one process are numbered without a gap or a repetition, and    *)
(* while it can write the game knows the number of the last one.               *)
EventsNumbered ==
    /\ \A i \in DOMAIN events :
         i > 1 /\ events[i].session = events[i - 1].session
           => events[i].seq = events[i - 1].seq + 1
    /\ Running /\ ~failed /\ events # <<>> => u.seq = Latest(events).seq

(* "Never overwrite an unacknowledged request."                                *)
NeverOverwritesUnanswered ==
    [][ whisper' # whisper /\ whisper # NoRequest => Answered(events, whisper) ]_vars

(* The director gives up only for a cause: a lost write, an engine or director *)
(* that came back, or a request it published too late.  While one healthy game *)
(* and one director run, no moment of a poll looks like damage.                *)
CleanRunsAreTrusted ==
    stopped = "error" => \/ failed \/ pc = "off" \/ session > 1 \/ directors > 1 \/ late

(* What a director would believe if it polled a settled game now: no effect    *)
(* the game does not have.  A rollback to an older save, a repeated number or  *)
(* a torn line always reaches it as an error first.                            *)
BelievedIsInstalled ==
    Trusted(events) /\ pc = "play" /\ ~failed
      => \A i \in DOMAIN events :
           events[i].name = "accepted" =>
             \E j \in DOMAIN u.effects : u.effects[j].id = events[i].request.id

(* A request published with two safe points to spare is answered, unless the   *)
(* process stops, a write is lost or the event numbers run out.                *)
PublishedIsAnswered ==
    \A q \in Request :
      (whisper = q /\ u.safe + 2 <= MaxSafe)
        ~> (Answered(events, q) \/ failed \/ pc \in {"off", "over"} \/ u.seq = MaxSeq)
=============================================================================
