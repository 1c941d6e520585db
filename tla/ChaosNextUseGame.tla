-------------------------- MODULE ChaosNextUseGame --------------------------
(****************************************************************************)
(* The next-use programs of one game and the director that proposes them.   *)
(* A use the player noticed is logged (events.jsonl) and published as an     *)
(* origin (next_use-schedule.jsonl).  The director answers the latest origin *)
(* of a family with an envelope for the next ordinal, meant for one safe     *)
(* point.  The engine decides an envelope once, at a safe point that reads   *)
(* it: it refuses, or it installs a program whose every transition goes to   *)
(* an append-only journal.  Only a program whose journal is closed, or a     *)
(* refusal, makes room for another, and only for an origin of its own later  *)
(* time.  The game may be saved, checkpointed, killed and restored; a        *)
(* restored journal has to be, byte for byte, the one the save left.         *)
(*                                                                          *)
(* One row stands for the two or three of a use (ChaosObservation has them); *)
(* what a program does between two transitions is ChaosNextUse.              *)
(****************************************************************************)
EXTENDS Naturals, Sequences, SequencesExt

CONSTANTS
    Families,   \* the families of origins
    Cap,        \* CHAOS_NEXT_USE_PROGRAM_CAP
    MaxSeq,     \* bound: event numbers explored
    MaxSafe,    \* CHAOS_MAX_COUNTER, for the safe point
    MaxSaves,   \* bound: saves and checkpoints explored
    MaxRecords, \* CHAOS_JOURNAL_RECORDS_MAX
    Lossy       \* whether a write may fail

ASSUME NextUseGameAssumption ==
    /\ Cap \in Nat \ {0} /\ MaxSeq \in Nat \ {0} /\ MaxSafe \in Nat /\ MaxSaves \in Nat
    /\ MaxRecords \in Nat \ {0} /\ Lossy \in BOOLEAN
    /\ "none" \notin Families

VARIABLES
    game,      \* what a save carries: u.chaos, program_history and live_runtime
    saved,     \* the save file, or the latest checkpoint
    proc,      \* what dies with the process
    envelope,  \* next_use-envelope[.k].json
    journal,   \* the journal file of each ordinal
    told,      \* what the director reads of events.jsonl, of the event numbers in
               \* next_use-schedule.jsonl and of next_use-lifecycle.jsonl
    director   \* NextUseScheduler: the envelope it is about to write, if any

files == <<envelope, journal, told>>
vars == <<game, saved, proc, files, director>>

Ordinals == 1..Cap

NoProgram == [at |-> "none", journal |-> "none", tip |-> <<>>, origin |-> 0]
NoEnvelope == [family |-> "none", origin |-> 0, at |-> 0]
NoFile == [there |-> FALSE, rows |-> <<>>]
Unbound == [f \in Families |-> 0]

Down == [up |-> FALSE, mute |-> FALSE, scheduleFailed |-> FALSE, resumeFailed |-> FALSE,
         origin |-> Unbound, evidence |-> Unbound]
Idle == [ordinal |-> 0, choice |-> NoEnvelope]

Header == [kind |-> "header", cursor |-> 0]
Transition(n) == [kind |-> "transition", cursor |-> n]
End(n) == [kind |-> "end", cursor |-> n]
Torn == [kind |-> "torn", cursor |-> 0]

JournalRow == [kind : {"header", "transition", "end", "torn"}, cursor : 0..MaxRecords]
Program == [at : {"none", "live", "ended"}, journal : {"none", "open", "complete", "failed"},
            tip : Seq(JournalRow), origin : 0..MaxSeq]
Game == [seq : 0..MaxSeq, safe : 0..MaxSafe, count : 0..Cap, terminal : BOOLEAN,
         tseq : 0..MaxSeq, prog : Program, closed : [Ordinals -> Program]]
Envelope == [family : Families \cup {"none"}, origin : 0..MaxSeq, at : 0..MaxSafe]

Process == [up : BOOLEAN, mute : BOOLEAN, scheduleFailed : BOOLEAN, resumeFailed : BOOLEAN,
            origin : [Families -> 0..MaxSeq], evidence : [Families -> 0..MaxSeq]]
File == [there : BOOLEAN, rows : Seq(JournalRow)]
EventLine == [safe : 0..MaxSafe, kind : {"session", "other", "notice", "end"},
              family : Families \cup {"none"}]
Told == [events : Seq(EventLine), schedule : SUBSET (1..MaxSeq),
         lifecycle : Seq([ordinal : Ordinals, tseq : 0..MaxSeq])]

TypeOK ==
    /\ game \in Game /\ saved \in [times : 0..MaxSaves, game : Game]
    /\ proc \in Process
    /\ envelope \in [Ordinals -> Envelope] /\ journal \in [Ordinals -> File]
    /\ told \in Told /\ Len(told.events) <= MaxSeq
    /\ director \in [ordinal : 0..Cap, choice : Envelope]

-----------------------------------------------------------------------------
(* The event log *)

Line(safe, kind, f) == [safe |-> safe, kind |-> kind, family |-> f]

(* The log has a line that no reader accepts: nothing is read of it any more. *)
Spoilt == [events |-> <<>>, schedule |-> {}, lifecycle |-> <<>>]

(* A line goes to the end of the file, whatever number it carries: after a
   return to an older save the numbers do not go on.                       *)
Written(line) ==
    IF Len(told.events) = game.seq THEN [told EXCEPT !.events = Append(@, line)] ELSE Spoilt

(* event of chaos_io.c.  A failed write leaves the line or nothing; a part of one
   is nothing until the next line follows, and makes that one unreadable.        *)
Logged(line, done) ==
    IF game.seq >= MaxSeq THEN {}
    ELSE IF done THEN {Written(line)}
    ELSE IF Lossy THEN {told, Written(line)} ELSE {}

Numbered(g, done) == IF done THEN [g EXCEPT !.seq = @ + 1] ELSE g

(* a whole game is written: by a save, a hangup or a checkpoint *)
Kept(g) == saved.times < MaxSaves /\ saved' = [times |-> saved.times + 1, game |-> g]

-----------------------------------------------------------------------------
(* What the player does *)

(* bound: uses are explored while the game may still get a program *)
Playing == proc.up /\ ~proc.mute /\ ~proc.resumeFailed /\ game.count < Cap

(* the row of an origin, by the number of its last event *)
Announced(t, n) == IF t = Spoilt THEN t ELSE [t EXCEPT !.schedule = @ \cup {n}]

(* observation_notice and observation_end of a use that completes: any failure
   closes the schedule for this process, though the row may be there             *)
UseEnds(f) ==
    /\ Playing
    /\ \E done \in BOOLEAN : \E t \in Logged(Line(game.safe, "end", f), done) :
         /\ game' = Numbered(game, done)
         /\ \/ /\ done /\ ~proc.scheduleFailed
               /\ proc' = [proc EXCEPT !.origin[f] = game'.seq]
               /\ told' = Announced(t, game'.seq)
            \/ /\ done => proc.scheduleFailed \/ Lossy
               /\ proc' = [proc EXCEPT !.origin[f] = 0, !.scheduleFailed = TRUE,
                                       !.mute = ~done]
               /\ \/ told' = t
                  \/ done /\ ~proc.scheduleFailed /\ told' = Announced(t, game'.seq)
    /\ UNCHANGED <<saved, envelope, journal, director>>

(* A use that is noticed and never completes takes the family's origin with it
   (bound: where there is one to take).                                        *)
UseBreaksOff(f) ==
    /\ Playing /\ proc.origin[f] > 0
    /\ \E done \in BOOLEAN :
         /\ told' \in Logged(Line(game.safe, "notice", f), done)
         /\ game' = Numbered(game, done)
         /\ proc' = [proc EXCEPT !.origin[f] = 0, !.mute = ~done]
    /\ UNCHANGED <<saved, envelope, journal, director>>

-----------------------------------------------------------------------------
(* A program and its journal *)

(* Wrong: the number of the event that ended it is not kept. *)
EndedUnnumbered(g) == [g EXCEPT !.prog.at = "ended", !.terminal = TRUE]

(* append_termination and chaos_next_use_safe_terminal *)
Ended(g) == [g EXCEPT !.prog.at = "ended", !.terminal = TRUE, !.tseq = g.seq]

(* Wrong: numbered before the count is raised. *)
ReceiptEarly(g) == [ordinal |-> g.count - 1, tseq |-> g.tseq]

(* chaos_next_use_terminal_receipt *)
Receipt(g) == [ordinal |-> g.count, tseq |-> g.tseq]

Receipted(t, g) ==
    IF t = Spoilt THEN {t}
    ELSE (IF Lossy THEN {t} ELSE {}) \cup {[t EXCEPT !.lifecycle = Append(@, Receipt(g))]}

JournalFailed(g) == [g EXCEPT !.prog.journal = "failed"]

(* fail: of the new rows none, some or all are in the file, unacknowledged, and
   perhaps a part of one or the marker of the failure                             *)
Left(rows, new) ==
    {rows \o SubSeq(new, 1, n) \o torn : n \in 0..Len(new), torn \in {<<>>, <<Torn>>}}

Cursor(p) == Len(p.tip) - 1

RowsOf(p, final) ==
    <<Transition(Cursor(p) + 1)>> \o (IF final THEN <<End(Cursor(p) + 1)>> ELSE <<>>)

(* capture_leave and sink.  The program goes on, or ends, all the same when its
   journal has failed.                                                         *)
Step(final) ==
    /\ proc.up /\ game.prog.at = "live"
    /\ LET g == IF final THEN Ended(game) ELSE game
           k == g.count
           new == RowsOf(g.prog, final)
       IN  \/ /\ g.prog.journal = "failed" /\ final
              /\ game' = g /\ UNCHANGED <<journal, told>>
           \/ /\ g.prog.journal = "open" /\ Cursor(g.prog) < MaxRecords
              /\ journal' = [journal EXCEPT ![k].rows = @ \o new]
              /\ game' = [g EXCEPT !.prog.tip = @ \o new,
                                   !.prog.journal = IF final THEN "complete" ELSE "open"]
              /\ IF final THEN told' \in Receipted(told, g) ELSE UNCHANGED told
           \/ /\ g.prog.journal = "open" /\ (Lossy \/ Cursor(g.prog) = MaxRecords)
              /\ \E rows \in Left(journal[k].rows,
                                  IF Cursor(g.prog) = MaxRecords THEN <<>> ELSE new) :
                    journal' = [journal EXCEPT ![k].rows = rows]
              /\ game' = JournalFailed(g) /\ UNCHANGED told
    /\ UNCHANGED <<saved, proc, envelope, director>>

-----------------------------------------------------------------------------
(* The safe point *)

(* next_use_bind_owned: an origin that is not ready leaves the evidence as it was *)
Evidence ==
    [f \in Families |-> IF proc.origin[f] > 0 THEN proc.origin[f] ELSE proc.evidence[f]]

Retirable(p) == p.at = "none" \/ (p.at = "ended" /\ p.journal = "complete")

(* chaos_next_use_safe_opportunity, for a game that has had an attempt *)
Opportunity(g, e) == g.terminal /\ e > g.tseq /\ Retirable(g.prog)

(* chaos_next_use_safe_try, before it looks for an envelope *)
Open(g, e) ==
    /\ ~proc.resumeFailed /\ g.count < Cap
    /\ g.count > 0 => \E f \in Families : e[f] > 0 /\ Opportunity(g, e[f])

Due(g) == /\ envelope[g.count + 1] # NoEnvelope /\ envelope[g.count + 1].at <= g.safe
          /\ Retirable(g.prog)

(* Wrong: the program before is dropped. *)
SettledForgetful(g) ==
    [g EXCEPT !.prog = NoProgram, !.count = @ + 1, !.terminal = TRUE, !.tseq = g.seq]

(* settle_attempt *)
Settled(g) ==
    [g EXCEPT !.closed = IF g.prog = NoProgram THEN @ ELSE [@ EXCEPT ![g.count] = g.prog],
              !.prog = NoProgram, !.count = @ + 1, !.terminal = TRUE, !.tseq = g.seq]

(* envelope_origin_reasons finds none: the origin is the engine's own, or a
   later one of its family takes its place, and it is of this attempt's time *)
OriginHolds(g, env, e) ==
    /\ e[env.family] > 0 /\ e[env.family] >= env.origin
    /\ g.count > 0 => e[env.family] > g.tseq

Admissible(g, env, e) == env.at = g.safe /\ OriginHolds(g, env, e)

Installed(g, origin) ==
    [g EXCEPT !.prog = [NoProgram EXCEPT !.at = "live", !.origin = origin],
              !.terminal = FALSE, !.tseq = 0]

(* chaos_next_use_journal_begin: a file that is there is never opened *)
JournalBegin(g) ==
    LET k == g.count
    IN  \/ /\ ~journal[k].there
           /\ journal' = [journal EXCEPT ![k] = [there |-> TRUE, rows |-> <<Header>>]]
           /\ game' = [g EXCEPT !.prog.journal = "open", !.prog.tip = <<Header>>]
        \/ /\ journal[k].there \/ Lossy
           /\ game' = JournalFailed(g)
           /\ \/ UNCHANGED journal
              \/ /\ ~journal[k].there
                 /\ \E rows \in Left(<<>>, <<Header>>) :
                       journal' = [journal EXCEPT ![k] = [there |-> TRUE, rows |-> rows]]

(* chaos_next_use_on_safe with an envelope that is due.  It may be refused for
   many another reason; and the game may be hung up at the telegraph.         *)
Judge(g, e, t) ==
    LET env == envelope[g.count + 1]
        settled == Settled(g)
    IN  \/ /\ game' = settled /\ told' \in Receipted(t, settled)
           /\ proc' = [proc EXCEPT !.evidence = e] /\ UNCHANGED <<saved, journal>>
        \/ /\ Admissible(g, env, e)
           /\ JournalBegin(Installed(settled, e[env.family]))
           /\ proc' = [proc EXCEPT !.evidence = e] /\ told' = t /\ UNCHANGED saved
        \/ /\ Admissible(g, env, e)
           /\ game' = settled /\ Kept(settled)
           /\ proc' = Down /\ told' = t /\ UNCHANGED journal

NothingDue(g, p, t) == game' = g /\ proc' = p /\ told' = t /\ UNCHANGED <<saved, journal>>

NextUse(g, t) ==
    IF proc.scheduleFailed THEN NothingDue(g, proc, t)
    ELSE IF Open(g, Evidence) /\ Due(g) THEN Judge(g, Evidence, t)
    ELSE NothingDue(g, [proc EXCEPT !.evidence = Evidence], t)

(* chaos_safe *)
SafePoint ==
    /\ proc.up /\ ~proc.mute /\ game.safe < MaxSafe
    /\ \E done \in BOOLEAN :
         LET g == [Numbered(game, done) EXCEPT !.safe = @ + 1]
         IN  \E t \in Logged(Line(g.safe, "other", "none"), done) :
               IF done THEN NextUse(g, t) ELSE NothingDue(g, [proc EXCEPT !.mute = TRUE], t)
    /\ UNCHANGED <<envelope, director>>

-----------------------------------------------------------------------------
(* Saves, deaths and restores *)

(* savestateinlock, at a change of level; the game goes on *)
Checkpoint == proc.up /\ Kept(game) /\ UNCHANGED <<game, proc, files, director>>

(* dosave0, from a command or from a hangup *)
Save == proc.up /\ Kept(game) /\ proc' = Down /\ UNCHANGED <<game, files, director>>

(* A game that dies before its first checkpoint is over. *)
Crash ==
    /\ proc.up /\ saved.times > 0
    /\ game' = saved.game /\ proc' = Down
    /\ UNCHANGED <<saved, files, director>>

(* Wrong: rows after the saved tip are accepted. *)
IntactPrefix(k, p) ==
    /\ p.journal \in {"open", "complete"} /\ journal[k].there
    /\ IsPrefix(p.tip, journal[k].rows)

(* resume_one: the size and the last digest of the file are the saved ones *)
Intact(k, p) ==
    p.journal \in {"open", "complete"} /\ journal[k] = [there |-> TRUE, rows |-> p.tip]

(* chaos_next_use_journal_resume *)
Resumes(g) ==
    /\ \A k \in 1..(g.count - 1) : g.closed[k] = NoProgram \/ Intact(k, g.closed[k])
    /\ g.prog = NoProgram \/ Intact(g.count, g.prog)

NoJournal(g) == /\ g.prog = NoProgram
                /\ \A k \in 1..(g.count - 1) : g.closed[k] = NoProgram

(* restgamestate and chaos_start; mute is a run directory that does not open *)
Restore ==
    /\ ~proc.up /\ saved.times > 0
    /\ \E mute \in {m \in BOOLEAN : m => Lossy}, done \in BOOLEAN :
         LET resumed == NoJournal(game) \/ (~mute /\ Resumes(game))
             g == IF resumed \/ game.prog = NoProgram THEN game ELSE JournalFailed(game)
         IN  /\ IF mute THEN ~done /\ UNCHANGED told
                        ELSE told' \in Logged(Line(game.safe, "session", "none"), done)
             /\ game' = Numbered(g, done)
             /\ proc' = [Down EXCEPT !.up = TRUE, !.mute = ~done,
                                     !.resumeFailed = ~resumed]
    /\ UNCHANGED <<saved, envelope, journal, director>>

-----------------------------------------------------------------------------
(* The director.  One that failed, abstained or was killed polls no more until it
   is started again, afresh: here it just does not move.                         *)

Elsewhere == UNCHANGED <<game, saved, proc, journal, told>>

(* _advance raises on none of the rows *)
Readable ==
    \A j \in DOMAIN told.lifecycle : LET row == told.lifecycle[j] IN
        /\ row.ordinal = j /\ envelope[j] # NoEnvelope
        /\ j > 1 => row.tseq >= told.lifecycle[j - 1].tseq

FreshAfter == IF told.lifecycle = <<>> THEN 0 ELSE Last(told.lifecycle).tseq

(* the roots of the latest session; the newest of a family is the one that counts *)
Session(lines) == {i \in 1..lines : \A j \in i..lines : told.events[j].kind # "session"}

Candidates(lines) ==
    {i \in Session(lines) \cap told.schedule :
        /\ told.events[i].safe = told.events[lines].safe /\ i > FreshAfter
        /\ \A j \in (i + 1)..lines : told.events[j].family # told.events[i].family}

(* the earliest origin, or from the second program on that of the family felt *)
Eligible(lines, ordinal) ==
    LET ready == Candidates(lines)
    IN  IF ordinal = 1 THEN {i \in ready : \A j \in ready : i <= j} ELSE ready

Choice(i) ==
    [family |-> told.events[i].family, origin |-> i, at |-> told.events[i].safe + 1]

(* _poll, up to its second _read: it has chosen, and no line has come since *)
Poll ==
    /\ director = Idle /\ told # Spoilt /\ Readable
    /\ LET k == Len(told.lifecycle) + 1
           lines == Len(told.events)
       IN  /\ k <= Cap /\ FreshAfter <= lines /\ envelope[k] = NoEnvelope
           /\ told.events[lines].safe < MaxSafe
           /\ \E i \in Eligible(lines, k) :
                director' = [ordinal |-> k, choice |-> Choice(i)]
    /\ Elsewhere /\ UNCHANGED envelope

(* publish_envelope: a name that is taken is never written *)
Publish ==
    /\ director # Idle /\ envelope[director.ordinal] = NoEnvelope
    /\ envelope' = [envelope EXCEPT ![director.ordinal] = director.choice]
    /\ director' = Idle
    /\ Elsewhere

GivesUp == director # Idle /\ director' = Idle /\ Elsewhere /\ UNCHANGED envelope

-----------------------------------------------------------------------------
Init ==
    /\ game = [seq |-> 1, safe |-> 0, count |-> 0, terminal |-> FALSE, tseq |-> 0,
               prog |-> NoProgram, closed |-> [k \in Ordinals |-> NoProgram]]
    /\ saved = [times |-> 0, game |-> game]
    /\ proc = [Down EXCEPT !.up = TRUE]
    /\ envelope = [k \in Ordinals |-> NoEnvelope]
    /\ journal = [k \in Ordinals |-> NoFile]
    /\ told = [Spoilt EXCEPT !.events = <<Line(0, "session", "none")>>]
    /\ director = Idle

Next ==
    \/ \E f \in Families : UseEnds(f) \/ UseBreaksOff(f)
    \/ \E final \in BOOLEAN : Step(final)
    \/ SafePoint \/ Checkpoint \/ Save \/ Crash \/ Restore
    \/ Poll \/ Publish \/ GivesUp

Spec == Init /\ [][Next]_vars

-----------------------------------------------------------------------------
(* Correctness *)

IsHistory(rows) ==
    \E n \in 0..Len(rows) :
        LET whole == SubSeq(rows, 1, n) IN
        /\ SubSeq(rows, n + 1, Len(rows)) \in {<<>>, <<Torn>>}
        /\ \A i \in 1..n :
             whole[i] = IF i = 1 THEN Header
                        ELSE IF i = n /\ whole[i].kind = "end" THEN End(i - 2)
                        ELSE Transition(i - 1)

Programs(g) == {<<k, g.closed[k]>> : k \in 1..(g.count - 1)} \cup
               (IF g.count = 0 THEN {} ELSE {<<g.count, g.prog>>})

(* "append-only, never overwrite or delete the original prefix": whatever      *)
(* fails, dies or is restored, a journal file is one header, the transitions   *)
(* in order, perhaps its end, and at most a torn last line; what the running   *)
(* or the saved game holds of a program is a prefix of it, and all of it for a *)
(* program the game has closed.                                                *)
JournalsAreHistories ==
    /\ \A k \in Ordinals : IsHistory(journal[k].rows)
    /\ \A g \in {game, saved.game} : \A kp \in Programs(g) :
         LET rows == journal[kp[1]].rows IN
         /\ IsPrefix(kp[2].tip, rows)
         /\ kp[2].journal = "complete" => rows = kp[2].tip

(* "Its event sequence fences the next origin": a later program of the game is *)
(* always about a later use, of whichever family, whatever the director chose  *)
(* and however the engine's rebinding moved it.                                *)
OriginsInOrder ==
    \A kp, jp \in Programs(game) :
        kp[1] < jp[1] /\ kp[2] # NoProgram /\ jp[2] # NoProgram
            => kp[2].origin < jp[2].origin

(* As long as the event log is in order, nothing the engine writes to the      *)
(* lifecycle makes the director give up: no attempt is told twice, out of turn *)
(* or without its envelope, through every crash and restore.                   *)
LifecycleIsReadable == Readable

Fate(p) ==
    IF p = NoProgram THEN "refused"
    ELSE IF p.journal = "failed" THEN "lost"
    ELSE IF p.at = "ended" THEN "closed" ELSE "running"

Attempts(g) == [k \in 1..g.count |-> Fate(IF k < g.count THEN g.closed[k] ELSE g.prog)]

(* The programs of a game are decided one after the other as ChaosAttempts     *)
(* promises, whatever fails in between and however often the game is restored. *)
Abstract == INSTANCE ChaosAttempts
            WITH attempts <- Attempts(game), kept <- Attempts(saved.game)
ProgramsInTurn == Abstract!Spec
=============================================================================
