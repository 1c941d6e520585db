----------------------- MODULE ChaosLifecycle_proofs -----------------------
(****************************************************************************)
(* Proofs about the lifecycle file of ChaosNextUseGame, which the engine     *)
(* writes and the director reads: no attempt is told twice, out of turn,     *)
(* backwards in time or without its envelope, for any number of programs,    *)
(* saves, crashes and restores.                                              *)
(*                                                                           *)
(* A game that was gone back to may decide an attempt again, and a program   *)
(* may end again: what keeps either from being told again is in LifeInv.     *)
(****************************************************************************)
EXTENDS ChaosNextUseGame_proofs

Row == [ordinal : Ordinals, tseq : 0..MaxSeq]

(* what the director reads, of rows and envelopes *)
InTurn(rows, env) ==
    \A j \in 1..Len(rows) :
        /\ rows[j].ordinal = j /\ env[j] # NoEnvelope
        /\ j > 1 => rows[j].tseq >= rows[j - 1].tseq

EndsIn(rows) == \E i \in DOMAIN rows : rows[i].kind = "end"

(* The journal of an attempt that was told is closed; or it was a refusal. *)
Over(file) == ~file.there \/ EndsIn(file.rows)

(* Every save is of an earlier time, and decisions have a time of their own. *)
Older(s, g) ==
    /\ 1 <= s.seq /\ s.seq <= g.seq /\ s.count <= g.count
    /\ s.seq = g.seq => s.count = g.count

Receipts == Len(told.lifecycle)
Lines == Len(told.events)

(* What was told of attempts before a game's last had been logged before. *)
Fenced(g, rows) == \A j \in 1..Len(rows) : j < g.count => rows[j].tseq <= g.seq

Unwritten(g, files_) == \A k \in Ordinals : k > g.count => ~files_[k].there

(* The game is no later than the log, and a process that may write goes on from its
   end; rows are of logged times and of attempts that are over; the director never
   writes an envelope before the last receipt; and a game from which the log goes on
   knows of every attempt that was told, and of every journal.                      *)
TalesOK ==
    /\ game.seq <= Lines /\ (proc.up /\ ~proc.mute => game.seq = Lines)
    /\ InTurn(told.lifecycle, envelope)
    /\ \A j \in 1..Receipts : told.lifecycle[j].tseq <= Lines /\ Over(journal[j])
    /\ Fenced(game, told.lifecycle) /\ Fenced(saved.game, told.lifecycle)
    /\ \A k \in Ordinals : envelope[k] # NoEnvelope => k <= Receipts + 1
    /\ director.ordinal <= Receipts + 1
    /\ game.seq = Lines => Receipts <= game.count /\ Unwritten(game, journal)

(* As soon as a line is written out of its place nothing is read any more: this is
   what a game that was gone back to does first.  Until then TalesOK holds.        *)
LifeInv ==
    /\ Older(saved.game, game)
    /\ \A k \in Ordinals : k <= game.count => envelope[k] # NoEnvelope
    /\ told # Spoilt => TalesOK

-----------------------------------------------------------------------------
(* The files *)

LEMMA ToldParts ==
    ASSUME NEW t \in Told
    PROVE  /\ t.events \in Seq(EventLine) /\ t.lifecycle \in Seq(Row)
           /\ Len(t.events) \in Nat /\ Len(t.lifecycle) \in Nat
           /\ \A j \in 1..Len(t.lifecycle) :
                t.lifecycle[j].ordinal \in Ordinals /\ t.lifecycle[j].tseq \in Nat
  <1>1. t.events \in Seq(EventLine) /\ t.lifecycle \in Seq(Row)
    BY DEF Told, Row
  <1>2. \A j \in 1..Len(t.lifecycle) : t.lifecycle[j] \in Row
    BY <1>1, ElementOfSeq
  <1> QED
    BY <1>1, <1>2, LenProperties DEF Row

(* Numbers of a game and of the director. *)
LEMMA GameParts ==
    ASSUME TypeOK
    PROVE  /\ game.seq \in Nat /\ game.count \in Nat /\ game.count <= Cap
           /\ saved.game.seq \in Nat /\ saved.game.count \in Nat /\ director.ordinal \in Nat
           /\ game \in Game /\ saved.game \in Game /\ told \in Told /\ Cap \in Nat
           /\ Receipts \in Nat /\ Lines \in Nat
           /\ \A j \in 1..Receipts : told.lifecycle[j].ordinal \in Ordinals
                                  /\ told.lifecycle[j].tseq \in Nat
  <1>1. /\ game \in Game /\ saved.game \in Game /\ director.ordinal \in 0..Cap /\ told \in Told
    BY DEF TypeOK
  <1> QED
    BY <1>1, Constants, ToldParts, SMTT(30) DEF Game, Receipts, Lines

(* _advance raises on no row that is in its turn. *)
LEMMA InTurnIsReadable ==
    ASSUME TypeOK
    PROVE  Readable <=> InTurn(told.lifecycle, envelope)
  <1>1. told.lifecycle \in Seq(Row)
    BY GameParts, ToldParts
  <1> QED
    BY <1>1 DEF Readable, InTurn

(* A receipt for the next attempt, no earlier than the last, is in its turn. *)
LEMMA NextInTurn ==
    ASSUME NEW rows \in Seq(Row), NEW env, InTurn(rows, env), NEW r \in Row,
           r.ordinal = Len(rows) + 1, env[r.ordinal] # NoEnvelope,
           \A j \in 1..Len(rows) : rows[j].tseq <= r.tseq
    PROVE  /\ InTurn(Append(rows, r), env) /\ Len(Append(rows, r)) = Len(rows) + 1
           /\ \A j \in 1..Len(rows) : Append(rows, r)[j] = rows[j]
           /\ Append(rows, r)[Len(rows) + 1] = r
  <1>1. /\ Len(Append(rows, r)) = Len(rows) + 1 /\ Len(rows) \in Nat
        /\ \A j \in 1..Len(rows) : Append(rows, r)[j] = rows[j]
        /\ Append(rows, r)[Len(rows) + 1] = r
    BY AppendProperties, LenProperties
  <1>2. r.tseq \in Nat
    BY DEF Row
  <1>3. \A j \in 1..Len(rows) : rows[j] \in Row /\ rows[j].tseq \in Nat
    <2>1. \A j \in 1..Len(rows) : rows[j] \in Row
      BY ElementOfSeq
    <2> QED
      BY <2>1 DEF Row
  <1>4. ASSUME NEW j \in 1..(Len(rows) + 1)
        PROVE  /\ Append(rows, r)[j].ordinal = j /\ env[j] # NoEnvelope
               /\ j > 1 => Append(rows, r)[j].tseq >= Append(rows, r)[j - 1].tseq
    <2>1. CASE j \in 1..Len(rows)
      <3>1. j > 1 => j - 1 \in 1..Len(rows)
        BY <1>1, <2>1
      <3> QED
        BY <1>1, <2>1, <3>1 DEF InTurn
    <2>2. CASE j = Len(rows) + 1
      <3>1. j > 1 => j - 1 \in 1..Len(rows) /\ j - 1 = Len(rows)
        BY <1>1, <2>2
      <3> QED
        BY <1>1, <1>2, <1>3, <2>2, <3>1
    <2> QED
      BY <1>1, <2>1, <2>2
  <1> QED
    BY <1>1, <1>4 DEF InTurn

(* A game that was logged is not one of no lines; so a spoilt log stays spoilt, and
   a line that is read goes to its place.                                          *)
LEMMA LoggedGoesOn ==
    ASSUME TypeOK, 1 <= game.seq, NEW line, NEW done \in BOOLEAN,
           NEW t \in Logged(line, done), t # Spoilt
    PROVE  /\ told # Spoilt /\ t.lifecycle = told.lifecycle /\ game.seq < MaxSeq
           /\ \/ ~done /\ Len(t.events) = Lines
              \/ Lines = game.seq /\ Len(t.events) = game.seq + 1
  <1>1. game.seq < MaxSeq /\ t \in {told, Written(line)} /\ (done => t = Written(line))
    BY Constants DEF Logged, TypeOK, Game
  <1>2. CASE t = told /\ ~done
    BY <1>1, <1>2 DEF Lines
  <1>3. CASE t = Written(line)
    <2>1. Lines = game.seq /\ t = [told EXCEPT !.events = Append(told.events, line)]
      BY <1>3 DEF Written, Lines
    <2>2. t.events = Append(told.events, line) /\ t.lifecycle = told.lifecycle
      BY <2>1 DEF TypeOK, Told
    <2>3. Len(Append(told.events, line)) = Lines + 1
      <3>1. told.events \in Seq(EventLine)
        BY DEF TypeOK, Told
      <3> QED
        BY <3>1 DEF Lines
    <2>4. told # Spoilt
      BY <2>1, SpoiltOK, GameParts DEF Lines
    <2> QED
      BY <1>1, <2>1, <2>2, <2>3, <2>4
  <1> QED
    BY <1>1, <1>2, <1>3

-----------------------------------------------------------------------------
(* The steps that tell of no attempt *)

(* What an event does to the log, and nothing to attempts *)
MovesOn(done) ==
    /\ told' # Spoilt =>
         /\ told # Spoilt /\ told'.lifecycle = told.lifecycle
         /\ \/ ~done /\ Len(told'.events) = Lines
            \/ Lines = game.seq /\ Len(told'.events) = game.seq + 1
    /\ game'.seq = (IF done THEN game.seq + 1 ELSE game.seq) /\ game'.count = game.count
    /\ proc'.up /\ ~proc'.mute => done

LEMMA MovesOnOK ==
    ASSUME TypeOK, TypeOK', LifeInv, NEW done \in BOOLEAN, MovesOn(done),
           UNCHANGED <<saved, envelope, journal, director>>
    PROVE  LifeInv'
  <1>1. /\ game.seq \in Nat /\ game.count \in Nat /\ saved.game.seq \in Nat
        /\ saved.game.count \in Nat /\ Receipts \in Nat /\ Lines \in Nat
        /\ \A j \in 1..Receipts : told.lifecycle[j].tseq \in Nat
    BY GameParts
  <1>2. /\ game'.seq = (IF done THEN game.seq + 1 ELSE game.seq) /\ game'.count = game.count
        /\ proc'.up /\ ~proc'.mute => done
    BY DEF MovesOn
  <1>3. Older(saved.game, game)'
    BY <1>1, <1>2 DEF LifeInv, Older
  <1>4. (\A k \in Ordinals : k <= game.count => envelope[k] # NoEnvelope)'
    BY <1>2 DEF LifeInv
  <1>5. ASSUME told' # Spoilt PROVE TalesOK'
    <2>1. /\ TalesOK /\ told'.lifecycle = told.lifecycle
          /\ \/ ~done /\ Lines' = Lines
             \/ Lines = game.seq /\ Lines' = game.seq + 1
      BY <1>5 DEF MovesOn, LifeInv, Lines
    <2>2. Receipts' = Receipts
      BY <2>1 DEF Receipts
    <2>3. game'.seq <= Lines' /\ (proc'.up /\ ~proc'.mute => game'.seq = Lines')
      BY <1>1, <1>2, <2>1 DEF TalesOK
    <2>4. \A j \in 1..Receipts : told.lifecycle[j].tseq <= Lines' /\ Over(journal[j])
      BY <1>1, <2>1 DEF TalesOK
    <2>5. Fenced(game', told.lifecycle)
      BY <1>1, <1>2, <2>1 DEF TalesOK, Fenced, Receipts
    <2>6. game'.seq = Lines' => Receipts <= game'.count /\ Unwritten(game', journal)
      BY <1>1, <1>2, <2>1 DEF TalesOK, Unwritten
    <2> QED
      BY <2>1, <2>2, <2>3, <2>4, <2>5, <2>6 DEF TalesOK
  <1> QED
    BY <1>3, <1>4, <1>5 DEF LifeInv

(* Wherever an event comes from, it does no more than that. *)
LEMMA LoggedMovesOn ==
    ASSUME TypeOK, LifeInv, NEW line, NEW done \in BOOLEAN, NEW t \in Logged(line, done),
           told' # Spoilt => t # Spoilt /\ told'.events = t.events
                             /\ told'.lifecycle = t.lifecycle,
           game'.seq = (IF done THEN game.seq + 1 ELSE game.seq), game'.count = game.count,
           proc'.up /\ ~proc'.mute => done
    PROVE  MovesOn(done)
  <1>1. 1 <= game.seq
    BY GameParts DEF LifeInv, Older
  <1>2. told' # Spoilt =>
          /\ told # Spoilt /\ t.lifecycle = told.lifecycle
          /\ \/ ~done /\ Len(t.events) = Lines
             \/ Lines = game.seq /\ Len(t.events) = game.seq + 1
    BY <1>1, LoggedGoesOn
  <1> QED
    BY <1>2 DEF MovesOn

LEMMA NumberedSeq ==
    ASSUME NEW g \in Game, NEW done \in BOOLEAN
    PROVE  /\ Numbered(g, done).seq = (IF done THEN g.seq + 1 ELSE g.seq)
           /\ Numbered(g, done).count = g.count
  BY DEF Numbered, Game

(* Publishing an origin is nothing to a reader of the lifecycle. *)
LEMMA AnnouncedSame ==
    ASSUME NEW t \in Told, NEW n, Announced(t, n) # Spoilt
    PROVE  /\ t # Spoilt /\ Announced(t, n).events = t.events
           /\ Announced(t, n).lifecycle = t.lifecycle
  BY DEF Announced, Told

LEMMA UseTells ==
    ASSUME IInv, TypeOK', LifeInv, NEW f \in Families, UseEnds(f) \/ UseBreaksOff(f)
    PROVE  LifeInv'
  <1>1. TypeOK /\ RowsKnown(told) /\ game \in Game
    BY GameParts DEF IInv, KnownOK
  <1>2. CASE UseEnds(f)
    <2>1. PICK done \in BOOLEAN : \E t \in Logged(Line(game.safe, "end", f), done) :
            /\ game' = Numbered(game, done)
            /\ \/ /\ done /\ ~proc.scheduleFailed
                  /\ proc' = [proc EXCEPT !.origin[f] = game'.seq]
                  /\ told' = Announced(t, game'.seq)
               \/ /\ proc' = [proc EXCEPT !.origin[f] = 0, !.scheduleFailed = TRUE,
                                          !.mute = ~done]
                  /\ told' = t \/ told' = Announced(t, game'.seq)
      BY <1>2 DEF UseEnds
    <2>2. PICK t \in Logged(Line(game.safe, "end", f), done) :
            /\ game' = Numbered(game, done)
            /\ \/ /\ done /\ ~proc.scheduleFailed
                  /\ proc' = [proc EXCEPT !.origin[f] = game'.seq]
                  /\ told' = Announced(t, game'.seq)
               \/ /\ proc' = [proc EXCEPT !.origin[f] = 0, !.scheduleFailed = TRUE,
                                          !.mute = ~done]
                  /\ told' = t \/ told' = Announced(t, game'.seq)
      BY <2>1
    <2>3. Line(game.safe, "end", f) \in EventLine
      BY <1>1 DEF Line, EventLine, Game
    <2>4. t \in Told
      BY <1>1, <2>3, LoggedOK
    <2>5. told' # Spoilt => t # Spoilt /\ told'.events = t.events /\ told'.lifecycle = t.lifecycle
      BY <2>2, <2>4, AnnouncedSame
    <2>6. proc'.up /\ ~proc'.mute => done
      <3>1. proc \in Process
        BY <1>1 DEF TypeOK
      <3>2. CASE proc' = [proc EXCEPT !.origin[f] = 0, !.scheduleFailed = TRUE, !.mute = ~done]
        BY <3>1, <3>2 DEF Process
      <3> QED
        BY <2>2, <3>2
    <2>7. MovesOn(done)
      BY <1>1, <2>2, <2>5, <2>6, NumberedSeq, LoggedMovesOn
    <2>8. UNCHANGED <<saved, envelope, journal, director>>
      BY <1>2 DEF UseEnds
    <2> QED
      BY <1>1, <2>7, <2>8, MovesOnOK
  <1>3. CASE UseBreaksOff(f)
    <2>1. PICK done \in BOOLEAN :
            /\ told' \in Logged(Line(game.safe, "notice", f), done)
            /\ game' = Numbered(game, done)
            /\ proc' = [proc EXCEPT !.origin[f] = 0, !.mute = ~done]
      BY <1>3 DEF UseBreaksOff
    <2>2. proc'.up /\ ~proc'.mute => done
      <3>1. proc \in Process
        BY <1>1 DEF TypeOK
      <3> QED
        BY <2>1, <3>1 DEF Process
    <2>3. MovesOn(done)
      BY <1>1, <2>1, <2>2, NumberedSeq, LoggedMovesOn
    <2>4. UNCHANGED <<saved, envelope, journal, director>>
      BY <1>3 DEF UseBreaksOff
    <2> QED
      BY <1>1, <2>3, <2>4, MovesOnOK
  <1> QED
    BY <1>2, <1>3

(* A restore begins a line of its own, or can write none. *)
LEMMA RestoreTells == ASSUME IInv, TypeOK', LifeInv, Restore PROVE LifeInv'
  <1>1. TypeOK /\ game \in Game
    BY GameParts DEF IInv
  <1>2. PICK mute \in BOOLEAN, done \in BOOLEAN :
          LET resumed == NoJournal(game) \/ (~mute /\ Resumes(game))
              g == IF resumed \/ game.prog = NoProgram THEN game ELSE JournalFailed(game)
          IN  /\ IF mute THEN ~done /\ UNCHANGED told
                         ELSE told' \in Logged(Line(game.safe, "session", "none"), done)
              /\ game' = Numbered(g, done)
              /\ proc' = [Down EXCEPT !.up = TRUE, !.mute = ~done, !.resumeFailed = ~resumed]
    BY DEF Restore
  <1> DEFINE resumed == NoJournal(game) \/ (~mute /\ Resumes(game))
             g == IF resumed \/ game.prog = NoProgram THEN game ELSE JournalFailed(game)
  <1>3. g \in Game /\ g.seq = game.seq /\ g.count = game.count
    <2>1. JournalFailed(game) = WithRecord(game, game.prog.tip, "failed")
          /\ game.prog.tip \in Seq(JournalRow)
      BY <1>1, RecordFails
    <2>2. Records(JournalFailed(game), game, game.prog.tip, "failed")
      BY <1>1, <2>1, Recorded
    <2> QED
      BY <1>1, <2>2 DEF Records
  <1>4. game' = Numbered(g, done)
    BY <1>2
  <1> HIDE DEF g
  <1>5. game'.seq = (IF done THEN game.seq + 1 ELSE game.seq) /\ game'.count = game.count
    BY <1>3, <1>4, NumberedSeq
  <1>6. proc'.up /\ ~proc'.mute => done
    <2>1. PICK failed : proc' = [Down EXCEPT !.up = TRUE, !.mute = ~done, !.resumeFailed = failed]
      BY <1>2
    <2> QED
      BY <2>1 DEF Down
  <1>7. MovesOn(done)
    <2>1. CASE ~mute
      <3>1. told' \in Logged(Line(game.safe, "session", "none"), done)
        BY <1>2, <2>1
      <3> QED
        BY <1>1, <1>5, <1>6, <3>1, LoggedMovesOn
    <2>2. CASE mute
      <3>1. ~done /\ told' = told
        BY <1>2, <2>2
      <3> QED
        BY <1>5, <1>6, <3>1 DEF MovesOn, Lines
    <2> QED
      BY <2>1, <2>2
  <1>8. UNCHANGED <<saved, envelope, journal, director>>
    BY DEF Restore
  <1> QED
    BY <1>1, <1>7, <1>8, MovesOnOK

-----------------------------------------------------------------------------
(* Saves, crashes, the director *)

(* A save is of the present game; a process that ended writes nothing. *)
LEMMA SaveTells == ASSUME IInv, TypeOK', LifeInv, Checkpoint \/ Save PROVE LifeInv'
  <1>1. /\ game' = game /\ saved'.game = game /\ proc' \in {proc, Down}
        /\ UNCHANGED <<envelope, journal, told, director>>
    BY DEF Checkpoint, Save, Kept, files
  <1>2. TypeOK
    BY DEF IInv
  <1>3. Older(saved'.game, game')
    BY <1>1, <1>2, GameParts DEF LifeInv, Older
  <1>4. ASSUME told # Spoilt PROVE TalesOK'
    <2>1. TalesOK
      BY <1>4 DEF LifeInv
    <2>2. proc'.up /\ ~proc'.mute => proc.up /\ ~proc.mute
      BY <1>1 DEF Down
    <2> QED
      BY <1>1, <2>1, <2>2 DEF TalesOK, Lines, Receipts
  <1> QED
    BY <1>1, <1>3, <1>4 DEF LifeInv

(* The game that is gone back to is of an earlier time; where the log has not gone on
   since, it has made the same decisions.                                           *)
LEMMA CrashTells == ASSUME IInv, TypeOK', LifeInv, Crash PROVE LifeInv'
  <1>1. /\ game' = saved.game /\ proc' = Down
        /\ UNCHANGED <<saved, envelope, journal, told, director>>
    BY DEF Crash, files
  <1>2. /\ game.seq \in Nat /\ game.count \in Nat /\ saved.game.seq \in Nat
        /\ saved.game.count \in Nat /\ Receipts \in Nat /\ Lines \in Nat
    BY GameParts DEF IInv
  <1>3. Older(saved.game, game)
    BY DEF LifeInv
  <1>4. Older(saved'.game, game')
    BY <1>1, <1>2, <1>3 DEF Older
  <1>5. \A k \in Ordinals : k <= game'.count => envelope[k] # NoEnvelope
    BY <1>1, <1>2, <1>3, Constants DEF LifeInv, Older, Ordinals
  <1>6. ASSUME told # Spoilt PROVE TalesOK'
    <2>1. TalesOK
      BY <1>6 DEF LifeInv
    <2>2. game'.seq <= Lines /\ ~proc'.up
      BY <1>1, <1>2, <1>3, <2>1 DEF TalesOK, Older, Down
    <2>3. game'.seq = Lines => Receipts <= game'.count /\ Unwritten(game', journal)
      <3>1. SUFFICES ASSUME game'.seq = Lines
                     PROVE  Receipts <= game'.count /\ Unwritten(game', journal)
        OBVIOUS
      <3>2. game.seq = Lines /\ saved.game.count = game.count
        BY <1>1, <1>2, <1>3, <2>1, <3>1 DEF TalesOK, Older
      <3> QED
        BY <1>1, <2>1, <3>2 DEF TalesOK, Unwritten
    <2>4. Fenced(game', told.lifecycle)
      BY <1>1, <2>1 DEF TalesOK
    <2> QED
      BY <1>1, <2>1, <2>2, <2>3, <2>4 DEF TalesOK, Lines, Receipts
  <1> QED
    BY <1>1, <1>4, <1>5, <1>6 DEF LifeInv

(* The director writes for the attempt after the last that it was told of. *)
LEMMA DirectorTells ==
    ASSUME IInv, TypeOK', LifeInv, Poll \/ Publish \/ GivesUp
    PROVE  LifeInv'
  <1>1. UNCHANGED <<game, saved, proc, journal, told>>
    BY DEF Poll, Publish, GivesUp, Elsewhere
  <1>2. TypeOK /\ KnownOK /\ Receipts \in Nat /\ director.ordinal \in 0..Cap
        /\ envelope \in [Ordinals -> Envelope]
    BY GameParts DEF IInv, TypeOK
  <1>3. \A k \in Ordinals : envelope[k] # NoEnvelope => envelope'[k] # NoEnvelope
    <2>1. CASE Publish
      <3>1. director.choice # NoEnvelope
        BY <1>2, <2>1, NextUseGameAssumption DEF KnownOK, Publish, NoEnvelope
      <3>2. envelope' = [envelope EXCEPT ![director.ordinal] = director.choice]
        BY <2>1 DEF Publish
      <3> QED
        BY <1>2, <3>1, <3>2
    <2>2. CASE envelope' = envelope
      BY <2>2
    <2> QED
      BY <2>1, <2>2 DEF Poll, Publish, GivesUp
  <1>4. ASSUME told # Spoilt PROVE TalesOK'
    <2>1. TalesOK
      BY <1>4 DEF LifeInv
    <2>2. InTurn(told.lifecycle, envelope')
      <3>1. \A j \in 1..Receipts : j \in Ordinals
        BY <1>2, <2>1, GameParts DEF TalesOK, InTurn, Receipts
      <3> QED
        BY <1>3, <2>1, <3>1 DEF TalesOK, InTurn, Receipts
    <2>3. director'.ordinal <= Receipts + 1
      BY <1>2, <2>1 DEF TalesOK, Poll, Publish, GivesUp, Idle, Receipts
    <2>4. \A k \in Ordinals : envelope'[k] # NoEnvelope => k <= Receipts + 1
      <3>1. CASE Publish
        <4>1. envelope' = [envelope EXCEPT ![director.ordinal] = director.choice]
          BY <3>1 DEF Publish
        <4>2. \A k \in Ordinals : k # director.ordinal => envelope'[k] = envelope[k]
          BY <1>2, <4>1
        <4> QED
          BY <2>1, <4>2 DEF TalesOK
      <3>2. CASE envelope' = envelope
        BY <2>1, <3>2 DEF TalesOK
      <3> QED
        BY <3>1, <3>2 DEF Poll, Publish, GivesUp
    <2> QED
      BY <1>1, <2>1, <2>2, <2>3, <2>4 DEF TalesOK, Lines, Receipts
  <1> QED
    BY <1>1, <1>3, <1>4 DEF LifeInv

-----------------------------------------------------------------------------
(* The steps that tell of an attempt *)

(* What an attempt that is over adds to the file: its receipt, or nothing. *)
LEMMA ReceiptedIs ==
    ASSUME NEW t \in Told, NEW g \in Game, NEW r \in Receipted(t, g), r # Spoilt
    PROVE  /\ t # Spoilt /\ r.events = t.events
           /\ \/ r.lifecycle = t.lifecycle
              \/ r.lifecycle = Append(t.lifecycle, Receipt(g))
  <1>1. t # Spoilt
    BY DEF Receipted
  <1>2. r = t \/ r = [t EXCEPT !.lifecycle = Append(t.lifecycle, Receipt(g))]
    BY <1>1 DEF Receipted
  <1> QED
    BY <1>1, <1>2 DEF Told

(* The rows of an open journal are not those of a closed one. *)
LEMMA OpenDoesNotEnd == ASSUME NEW s, OpenTip(s), s \in Seq(JournalRow) PROVE ~EndsIn(s)
  <1>1. \A i \in DOMAIN s : s[i].kind # "end"
    <2>1. DOMAIN s = 1..Len(s)
      OBVIOUS
    <2> QED
      BY <2>1 DEF OpenTip, Header, Transition
  <1> QED
    BY <1>1 DEF EndsIn

(* A journal that has its end is closed. *)
LEMMA EndedEnds == ASSUME NEW s \in Seq(JournalRow), EndedTip(s) PROVE EndsIn(s)
  <1>1. Len(s) \in Nat /\ Len(s) >= 2
    BY LenProperties DEF EndedTip
  <1>2. s[Len(s)].kind = "end"
    BY DEF EndedTip, End
  <1>3. Len(s) \in DOMAIN s
    BY <1>1
  <1> QED
    BY <1>2, <1>3 DEF EndsIn

(* What a transition writes: rows of the journal that is open; and a receipt only when
   it is the last and the journal is complete.                                        *)
StepWrote(final) ==
    /\ UNCHANGED <<saved, proc, envelope, director>>
    /\ \A i \in Ordinals : i # game.count => journal'[i] = journal[i]
    /\ \/ told' = told /\ journal' = journal
       \/ told' = told /\ game.prog.journal = "open" /\ journal'[game.count].there
       \/ /\ final /\ game.prog.journal = "open" /\ game'.prog.journal = "complete"
          /\ journal'[game.count].there /\ told' \in Receipted(told, Ended(game))

LEMMA StepWrites ==
    ASSUME IInv, NEW final \in BOOLEAN, Step(final)
    PROVE  StepWrote(final)
  <1> DEFINE g == IF final THEN Ended(game) ELSE game
             k == g.count
             new == RowsOf(g.prog, final)
             open == IF final THEN "complete" ELSE "open"
  <1>1. /\ game \in Game /\ journal \in [Ordinals -> File] /\ proc.up
        /\ UNCHANGED <<saved, proc, envelope, director>>
    BY DEF IInv, TypeOK, Step
  <1>2. /\ g \in Game /\ k = game.count /\ g.prog \in Program
        /\ g.prog.journal = game.prog.journal
    BY <1>1, EndedFields
  <1>3. k \in Ordinals
    <2>1. game.count # 0
      <3>1. game.prog.at = "live"
        BY DEF Step
      <3>2. GameOK(game)
        BY DEF IInv
      <3>3. game.count = 0 => game.prog = NoProgram
        BY <3>2 DEF GameOK
      <3> QED
        BY <3>1, <3>3 DEF NoProgram
    <2>2. game.count \in 0..Cap
      BY <1>1 DEF Game
    <2> QED
      BY <1>2, <2>1, <2>2, Constants DEF Ordinals
  <1>4. game.prog.journal = "open" => journal[k].there = TRUE
    BY <1>1, <1>2 DEF IInv, FilesOK
  <1>5. ASSUME NEW rows, journal' = [journal EXCEPT ![k].rows = rows]
        PROVE  /\ \A i \in Ordinals : i # k => journal'[i] = journal[i]
               /\ journal'[k].there = journal[k].there
    BY <1>1, <1>3, <1>5 DEF File
  <1>6. \/ game' = g /\ UNCHANGED <<journal, told>>
        \/ /\ g.prog.journal = "open"
           /\ journal' = [journal EXCEPT ![k].rows = @ \o new]
           /\ game' = [g EXCEPT !.prog.tip = @ \o new, !.prog.journal = open]
           /\ IF final THEN told' \in Receipted(told, g) ELSE UNCHANGED told
        \/ /\ g.prog.journal = "open"
           /\ \E rows \in Left(journal[k].rows,
                               IF Cursor(g.prog) = MaxRecords THEN <<>> ELSE new) :
                 journal' = [journal EXCEPT ![k].rows = rows]
           /\ game' = JournalFailed(g) /\ UNCHANGED told
    BY DEF Step
  <1>7. final => g = Ended(game)
    OBVIOUS
  <1> HIDE DEF g, new, k
  <1>8. CASE game' = g /\ UNCHANGED <<journal, told>>
    BY <1>1, <1>8 DEF StepWrote
  <1>9. CASE /\ g.prog.journal = "open"
             /\ journal' = [journal EXCEPT ![k].rows = @ \o new]
             /\ game' = [g EXCEPT !.prog.tip = @ \o new, !.prog.journal = open]
             /\ IF final THEN told' \in Receipted(told, g) ELSE UNCHANGED told
    <2>1. game'.prog.journal = open
      <3> HIDE DEF open
      <3> QED
        BY <1>2, <1>9 DEF Game, Program
    <2>2. journal' = [journal EXCEPT ![k].rows = journal[k].rows \o new]
      BY <1>1, <1>3, <1>9
    <2>3. /\ \A i \in Ordinals : i # k => journal'[i] = journal[i]
          /\ journal'[k].there = TRUE
      BY <1>2, <1>4, <1>5, <1>9, <2>2
    <2> QED
      BY <1>1, <1>2, <1>7, <1>9, <2>1, <2>3 DEF StepWrote
  <1>10. CASE /\ g.prog.journal = "open"
              /\ \E rows \in Left(journal[k].rows,
                                  IF Cursor(g.prog) = MaxRecords THEN <<>> ELSE new) :
                    journal' = [journal EXCEPT ![k].rows = rows]
              /\ game' = JournalFailed(g) /\ UNCHANGED told
    <2>1. PICK rows : journal' = [journal EXCEPT ![k].rows = rows]
      BY <1>10
    <2>2. /\ \A i \in Ordinals : i # k => journal'[i] = journal[i]
          /\ journal'[k].there = TRUE
      BY <1>2, <1>4, <1>5, <1>10, <2>1
    <2> QED
      BY <1>1, <1>2, <1>10, <2>2 DEF StepWrote
  <1> QED
    BY <1>6, <1>8, <1>9, <1>10

LEMMA StepTells ==
    ASSUME IInv, IInv', LifeInv, NEW final \in BOOLEAN, Step(final)
    PROVE  LifeInv'
  <1> DEFINE k == game.count
  <1>1. /\ TypeOK /\ TypeOK' /\ GameOK(game) /\ GameOK(game') /\ FilesOK /\ FilesOK' /\ proc.up
        /\ game.prog.at = "live"
    BY DEF IInv, Step
  <1>2. /\ game.seq \in Nat /\ game.count \in Nat /\ saved.game.seq \in Nat
        /\ saved.game.count \in Nat /\ Receipts \in Nat /\ Lines \in Nat
        /\ game \in Game /\ told \in Told /\ game.count <= Cap
        /\ \A j \in 1..Receipts : told.lifecycle[j].tseq \in Nat
    BY <1>1, GameParts
  <1>3. k \in Ordinals /\ k > 0
    BY <1>1, <1>2, Constants DEF GameOK, NoProgram, Ordinals
  <1>4. game'.seq = game.seq /\ game'.count = game.count
    BY StepOK DEF Advances
  <1>5. StepWrote(final)
    BY StepWrites
  <1>6. /\ UNCHANGED <<saved, proc, envelope, director>>
        /\ \A i \in Ordinals : i # k => journal'[i] = journal[i]
    BY <1>5 DEF StepWrote
  <1>7. ASSUME game.prog.journal = "open"
        PROVE  journal[k].there /\ ~Over(journal[k])
    <2>1. journal[k] = [there |-> TRUE, rows |-> game.prog.tip] /\ OpenTip(game.prog.tip)
      BY <1>1, <1>7 DEF FilesOK, GameOK, ProgramOK
    <2>2. game.prog.tip \in Seq(JournalRow)
      BY <1>2 DEF Game, Program
    <2>3. ~EndsIn(game.prog.tip)
      BY <2>1, <2>2, OpenDoesNotEnd
    <2> QED
      BY <2>1, <2>3 DEF Over
  <1>8. Older(saved.game, game)'
    BY <1>4, <1>6 DEF LifeInv, Older
  <1>9. (\A i \in Ordinals : i <= game.count => envelope[i] # NoEnvelope)'
    BY <1>4, <1>6 DEF LifeInv
  \* nothing is told, of a journal that is open
  <1>10. ASSUME told' = told, told # Spoilt,
                \/ journal' = journal
                \/ game.prog.journal = "open" /\ journal'[k].there
         PROVE  TalesOK'
    <2>1. TalesOK
      BY <1>10 DEF LifeInv
    <2>2. \A j \in 1..Receipts : j \in Ordinals
      BY <1>1, <2>1, GameParts DEF TalesOK, InTurn, Receipts
    <2>3. \A j \in 1..Receipts : Over(journal'[j])
      BY <1>6, <1>7, <1>10, <2>1, <2>2 DEF TalesOK
    <2>4. Unwritten(game, journal) => Unwritten(game', journal')
      BY <1>2, <1>4, <1>6 DEF Unwritten, Ordinals
    <2>5. Lines' = Lines /\ Receipts' = Receipts
      BY <1>10 DEF Lines, Receipts
    <2>6. Fenced(game', told.lifecycle)
      BY <1>4, <2>1 DEF TalesOK, Fenced
    <2> QED
      BY <1>4, <1>6, <1>10, <2>1, <2>3, <2>4, <2>5, <2>6 DEF TalesOK
  \* the program ends, and its journal with it
  <1>11. ASSUME final, game.prog.journal = "open", game'.prog.journal = "complete",
                journal'[k].there, told' \in Receipted(told, Ended(game)), told' # Spoilt
         PROVE  TalesOK'
    <2> DEFINE g == Ended(game)
    <2>1. g \in Game /\ g.count = k /\ g.tseq = game.seq
      BY <1>2, EndedFields
    <2>2. /\ told # Spoilt /\ told'.events = told.events
          /\ \/ told'.lifecycle = told.lifecycle
             \/ told'.lifecycle = Append(told.lifecycle, Receipt(g))
      <3> HIDE DEF g
      <3>1. told' \in Receipted(told, g)
        BY <1>11 DEF g
      <3> QED
        BY <1>2, <1>11, <2>1, <3>1, ReceiptedIs
    <2>3. TalesOK /\ Lines' = Lines
      BY <2>2 DEF LifeInv, Lines
    <2>4. \A j \in 1..Receipts : j \in Ordinals
      BY <1>1, <2>3, GameParts DEF TalesOK, InTurn, Receipts
    <2>5. envelope[k] # NoEnvelope
      BY <1>2, <1>3 DEF LifeInv
    <2>6. Receipts = k - 1
      <3>1. k <= Receipts + 1
        BY <1>3, <2>3, <2>5 DEF TalesOK
      <3>2. k \notin 1..Receipts
        BY <1>7, <1>11, <2>3 DEF TalesOK
      <3> QED
        BY <1>2, <1>3, <3>1, <3>2
    <2>7. Over(journal'[k])
      <3>1. game'.prog.tip \in Seq(JournalRow) /\ EndedTip(game'.prog.tip)
        BY <1>1, <1>11 DEF TypeOK, Game, Program, GameOK, ProgramOK
      <3>2. journal'[k].rows = game'.prog.tip
        BY <1>1, <1>3, <1>4, <1>11 DEF FilesOK, HeldAll, Held
      <3> QED
        BY <3>1, <3>2, EndedEnds DEF Over
    <2>8. \A j \in 1..k : Over(journal'[j])
      <3>1. \A j \in 1..Receipts : Over(journal'[j])
        BY <1>6, <2>3, <2>4, <2>6, <1>2 DEF TalesOK
      <3> QED
        BY <1>2, <2>6, <2>7, <3>1
    <2>9. Unwritten(game, journal) => Unwritten(game', journal')
      BY <1>2, <1>4, <1>6 DEF Unwritten, Ordinals
    <2>10. CASE told'.lifecycle = told.lifecycle
      <3>1. Receipts' = Receipts /\ Fenced(game', told.lifecycle)
        BY <1>4, <2>3, <2>10 DEF Receipts, TalesOK, Fenced
      <3>2. \A j \in 1..Receipts : Over(journal'[j])
        BY <1>2, <2>6, <2>8
      <3> QED
        BY <1>4, <1>6, <2>3, <2>9, <2>10, <3>1, <3>2 DEF TalesOK
    <2>11. CASE told'.lifecycle = Append(told.lifecycle, Receipt(g))
      <3> DEFINE r == Receipt(g)
                 rows == told.lifecycle
      <3>1. r \in Row /\ r.ordinal = k /\ r.tseq = game.seq
        <4> HIDE DEF g
        <4> QED
          BY <1>3, <2>1 DEF Receipt, Row, Game
      <3>2. rows \in Seq(Row) /\ InTurn(rows, envelope) /\ Len(rows) = k - 1
        BY <1>2, <2>3, <2>6, ToldParts DEF TalesOK, Receipts
      <3>3. \A j \in 1..Len(rows) : rows[j].tseq <= r.tseq
        BY <1>2, <2>3, <3>1, <3>2 DEF TalesOK, Fenced
      <3> HIDE DEF r, g
      <3>4. told'.lifecycle = Append(rows, r)
        BY <2>11 DEF r
      <3>5. /\ InTurn(told'.lifecycle, envelope) /\ Receipts' = k
            /\ \A j \in 1..(k - 1) : told'.lifecycle[j] = rows[j]
            /\ told'.lifecycle[k] = r
        <4>1. r.ordinal = Len(rows) + 1 /\ envelope[r.ordinal] # NoEnvelope
              /\ Len(rows) + 1 = k
          BY <1>2, <2>5, <3>1, <3>2
        <4> HIDE DEF rows
        <4>2. /\ InTurn(Append(rows, r), envelope) /\ Len(Append(rows, r)) = Len(rows) + 1
              /\ \A j \in 1..Len(rows) : Append(rows, r)[j] = rows[j]
              /\ Append(rows, r)[Len(rows) + 1] = r
          BY <3>1, <3>2, <3>3, <4>1, NextInTurn
        <4> QED
          BY <3>2, <3>4, <4>1, <4>2 DEF Receipts
      <3>6. \A j \in 1..k : told'.lifecycle[j].tseq <= Lines
        BY <1>2, <2>3, <2>6, <3>1, <3>5 DEF TalesOK
      <3>7. \A j \in 1..Len(told'.lifecycle) : j < k => j \in 1..(k - 1)
        BY <1>2, <3>5 DEF Receipts
      <3>8. Fenced(game', told'.lifecycle)
        BY <1>4, <2>3, <3>2, <3>5, <3>7 DEF TalesOK, Fenced
      <3>9. Fenced(saved.game, told'.lifecycle)
        <4>1. saved.game.count <= k
          BY DEF LifeInv, Older
        <4>2. \A j \in 1..Len(told'.lifecycle) : j < saved.game.count => j \in 1..(k - 1)
          BY <1>2, <3>5, <4>1 DEF Receipts
        <4> QED
          BY <2>3, <3>2, <3>5, <4>2 DEF TalesOK, Fenced
      <3>10. \A i \in Ordinals : envelope[i] # NoEnvelope => i <= k + 1
        BY <1>2, <2>3, <2>6, Constants DEF TalesOK, Ordinals
      <3>11. director.ordinal <= k + 1
        BY <1>1, <1>2, <2>3, <2>6, GameParts DEF TalesOK
      <3> QED
        BY <1>2, <1>4, <1>6, <2>3, <2>8, <2>9, <3>5, <3>6, <3>8, <3>9, <3>10, <3>11 DEF TalesOK
    <2> QED
      BY <2>2, <2>10, <2>11
  <1>12. told' # Spoilt => TalesOK'
    BY <1>5, <1>10, <1>11 DEF StepWrote
  <1> QED
    BY <1>8, <1>9, <1>12 DEF LifeInv

(* An envelope that is decided is the one after the last that was told of, and at a
   time of its own.                                                                *)
DecidesNext ==
    LET k == game.count + 1 IN
    /\ k \in Ordinals /\ envelope[k] # NoEnvelope
    /\ game'.seq = game.seq + 1 /\ game'.count = k
    /\ UNCHANGED <<envelope, director>> /\ (saved' = saved \/ saved'.game = game')
    /\ \A i \in Ordinals : i # k => journal'[i] = journal[i]
    /\ told' # Spoilt =>
         /\ told # Spoilt /\ Lines = game.seq /\ Len(told'.events) = game.seq + 1
         /\ \/ told'.lifecycle = told.lifecycle
            \/ /\ journal' = journal /\ saved' = saved
               /\ told'.lifecycle
                    = Append(told.lifecycle, [ordinal |-> k, tseq |-> game.seq + 1])

LEMMA DecidesTells == ASSUME TypeOK, TypeOK', LifeInv, DecidesNext PROVE LifeInv'
  <1> DEFINE k == game.count + 1
  <1>1. /\ game.seq \in Nat /\ game.count \in Nat /\ saved.game.seq \in Nat
        /\ saved.game.count \in Nat /\ Receipts \in Nat /\ Lines \in Nat
        /\ game' \in Game /\ told \in Told /\ k \in Ordinals
        /\ \A j \in 1..Receipts : told.lifecycle[j].tseq \in Nat
    BY GameParts DEF DecidesNext, TypeOK
  <1>2. /\ game'.seq = game.seq + 1 /\ game'.count = k
        /\ UNCHANGED <<envelope, director>> /\ (saved' = saved \/ saved'.game = game')
        /\ \A i \in Ordinals : i # k => journal'[i] = journal[i]
    BY DEF DecidesNext
  <1>3. Older(saved.game, game)
    BY DEF LifeInv
  <1>4. Older(saved'.game, game')
    BY <1>1, <1>2, <1>3 DEF Older
  <1>5. \A i \in Ordinals : i <= k => envelope[i] # NoEnvelope
    BY <1>1 DEF LifeInv, DecidesNext, Ordinals
  <1>6. ASSUME told' # Spoilt PROVE TalesOK'
    <2>1. TalesOK /\ Lines = game.seq /\ Lines' = game.seq + 1
      BY <1>6 DEF LifeInv, DecidesNext, Lines
    <2>2. Receipts = game.count /\ Unwritten(game, journal)
      <3>1. k <= Receipts + 1
        BY <1>1, <1>5, <2>1 DEF TalesOK
      <3>2. Receipts <= game.count /\ Unwritten(game, journal)
        BY <2>1 DEF TalesOK
      <3> QED
        BY <1>1, <3>1, <3>2
    <2>3. Unwritten(game', journal')
      BY <1>1, <1>2, <2>2 DEF Unwritten, Ordinals
    <2>4. \A j \in 1..Receipts : /\ told.lifecycle[j].tseq <= Lines' /\ Over(journal'[j])
                                 /\ told.lifecycle[j].tseq <= game'.seq
      <3>1. \A j \in 1..Receipts : j \in Ordinals /\ j # k
        BY <1>1, <2>2, Constants DEF Ordinals
      <3> QED
        BY <1>1, <1>2, <2>1, <3>1 DEF TalesOK
    <2>5. \A i \in Ordinals : envelope[i] # NoEnvelope => i <= Receipts + 1
      BY <2>1 DEF TalesOK
    <2>6. director.ordinal <= Receipts + 1 /\ director.ordinal \in Nat
      BY <2>1, GameParts DEF TalesOK
    <2>7. CASE told'.lifecycle = told.lifecycle
      <3>1. Receipts' = Receipts
        BY <2>7 DEF Receipts
      <3>2. Fenced(game', told.lifecycle)
        BY <1>1, <2>4 DEF Fenced, Receipts
      <3>3. Fenced(saved'.game, told.lifecycle)
        BY <1>2, <2>1, <3>2 DEF TalesOK
      <3>4. InTurn(told.lifecycle, envelope)
        BY <2>1 DEF TalesOK
      <3> QED
        BY <1>1, <1>2, <2>1, <2>2, <2>3, <2>4, <2>5, <2>6, <2>7, <3>1, <3>2, <3>3, <3>4
        DEF TalesOK
    <2>8. CASE /\ journal' = journal /\ saved' = saved
               /\ told'.lifecycle
                    = Append(told.lifecycle, [ordinal |-> k, tseq |-> game.seq + 1])
      <3> DEFINE r == [ordinal |-> k, tseq |-> game.seq + 1]
                 rows == told.lifecycle
      <3>1. r \in Row /\ r.ordinal = k /\ r.tseq = game.seq + 1
        BY <1>1, <1>2 DEF Row, Game
      <3> HIDE DEF r
      <3>2. /\ rows \in Seq(Row) /\ InTurn(rows, envelope) /\ Len(rows) = game.count
            /\ told'.lifecycle = Append(rows, r)
        BY <1>1, <2>1, <2>2, <2>8, ToldParts DEF TalesOK, Receipts, r
      <3>3. \A j \in 1..Len(rows) : rows[j].tseq <= r.tseq
        BY <1>2, <2>4, <3>1 DEF Receipts
      <3>4. r.ordinal = Len(rows) + 1 /\ envelope[r.ordinal] # NoEnvelope
        BY <1>1, <1>5, <3>1, <3>2
      <3> HIDE DEF rows
      <3>5. /\ InTurn(Append(rows, r), envelope) /\ Len(Append(rows, r)) = Len(rows) + 1
            /\ \A j \in 1..Len(rows) : Append(rows, r)[j] = rows[j]
            /\ Append(rows, r)[Len(rows) + 1] = r
        BY <3>1, <3>2, <3>3, <3>4, NextInTurn
      <3>6. Receipts' = k /\ Receipts = Len(rows) /\ rows = told.lifecycle
        BY <3>2, <3>5 DEF Receipts, rows
      <3>7. ASSUME NEW j \in 1..k
            PROVE  told'.lifecycle[j].tseq <= Lines' /\ Over(journal'[j])
        <4>1. CASE j \in 1..Len(rows)
          BY <2>4, <3>2, <3>5, <3>6, <4>1
        <4>2. CASE j = k
          BY <1>1, <2>1, <2>2, <2>8, <3>1, <3>2, <3>5, <4>2 DEF Unwritten, Over
        <4> QED
          BY <1>1, <3>2, <4>1, <4>2
      <3>8. Fenced(game', told'.lifecycle)
        <4>1. \A j \in 1..Len(told'.lifecycle) : j < k => j \in 1..Len(rows)
          BY <1>1, <3>2, <3>5
        <4> QED
          BY <1>2, <2>4, <3>2, <3>5, <3>6, <4>1 DEF Fenced
      <3>9. Fenced(saved'.game, told'.lifecycle)
        <4>1. saved.game.count <= game.count
          BY <1>3 DEF Older
        <4>2. \A j \in 1..Len(told'.lifecycle) : j < saved.game.count => j \in 1..Len(rows)
          BY <1>1, <3>2, <3>5, <4>1
        <4> QED
          BY <2>1, <2>8, <3>2, <3>5, <3>6, <4>2 DEF TalesOK, Fenced
      <3>10. InTurn(told'.lifecycle, envelope)
        BY <3>2, <3>5
      <3>11. /\ \A i \in Ordinals : envelope[i] # NoEnvelope => i <= k + 1
             /\ director.ordinal <= k + 1
        BY <1>1, <2>2, <2>5, <2>6, Constants DEF Ordinals
      <3> QED
        BY <1>1, <1>2, <2>1, <2>3, <3>6, <3>7, <3>8, <3>9, <3>10, <3>11 DEF TalesOK
    <2> QED
      BY <1>6, <2>7, <2>8 DEF DecidesNext
  <1> QED
    BY <1>2, <1>4, <1>5, <1>6 DEF LifeInv

LEMMA JudgeTells ==
    ASSUME IInv, IInv', LifeInv, game.seq < MaxSeq, game.safe < MaxSafe,
           NEW line, NEW t \in Logged(line, TRUE), ToldOK(t),
           Open(OnSafe(TRUE), Evidence), Due(OnSafe(TRUE)),
           Judge(OnSafe(TRUE), Evidence, t), UNCHANGED <<envelope, director>>
    PROVE  LifeInv'
  <1> DEFINE g == OnSafe(TRUE)
             s == Settled(g)
             k == game.count + 1
             env == envelope[g.count + 1]
             e == Evidence
  <1>1. TypeOK /\ TypeOK' /\ 1 <= game.seq /\ game \in Game /\ journal \in [Ordinals -> File]
    BY GameParts, SMTT(30) DEF IInv, LifeInv, Older, TypeOK
  <1>2. Arrives(g)
    BY ArrivesOK
  <1>3. g.seq = game.seq + 1 /\ g.count = game.count /\ g \in Game
    <2>1. Numbered(game, TRUE).seq = game.seq + 1 /\ Numbered(game, TRUE) \in Game
      BY <1>1, NumberedGood, NumberedSeq DEF IInv, Good
    <2> QED
      BY <1>2, <2>1 DEF Arrives, Good, OnSafe, Game
  <1>4. Judged(g) /\ Open(g, e) /\ Due(g) /\ Judge(g, e, t)
    BY <1>2, JudgedOK DEF Open, Due
  <1>5. Good(g) /\ g.count < Cap /\ Retirable(g.prog)
    BY <1>4 DEF Judged, Arrives
  <1>6. s.seq = game.seq + 1 /\ s.count = k /\ s.tseq = game.seq + 1 /\ s \in Game
    BY <1>3, <1>5, SettledGood, ZenonT(30) DEF Good
  <1>7. k \in Ordinals /\ envelope[k] # NoEnvelope
    BY <1>3, <1>4, <1>6 DEF Judged, Due
  <1>8. game'.seq = game.seq + 1 /\ game'.count = k /\ (saved' = saved \/ saved'.game = game')
    <2>1. Decides(game, game') /\ (saved' = saved \/ saved'.game = game') /\ game'.seq = g.seq
      BY <1>2, <1>4, JudgeOK
    <2> QED
      BY <1>3, <2>1 DEF Decides
  <1> HIDE DEF s, e
  <1>9. \/ /\ game' = s /\ told' \in Receipted(t, s) /\ UNCHANGED <<saved, journal>>
        \/ JournalBegin(Installed(s, e[env.family])) /\ told' = t /\ UNCHANGED saved
        \/ told' = t /\ UNCHANGED journal
    BY <1>4 DEF Judge, s
  <1> HIDE DEF g, env
  <1>10. \A i \in Ordinals : i # k => journal'[i] = journal[i]
    <2>1. CASE JournalBegin(Installed(s, e[env.family]))
      <3> DEFINE h == Installed(s, e[env.family])
      <3>1. h.count = k
        BY <1>6 DEF Installed, Game
      <3> HIDE DEF h
      <3>2. JournalBegin(h)
        BY <2>1 DEF h
      <3> QED
        BY <1>1, <3>1, <3>2 DEF JournalBegin
    <2> QED
      BY <1>9, <2>1
  <1>11. ASSUME told' # Spoilt
         PROVE  /\ told # Spoilt /\ Lines = game.seq /\ Len(told'.events) = game.seq + 1
                /\ \/ told'.lifecycle = told.lifecycle
                   \/ /\ journal' = journal /\ saved' = saved
                      /\ told'.lifecycle
                           = Append(told.lifecycle, [ordinal |-> k, tseq |-> game.seq + 1])
    <2>1. /\ t # Spoilt /\ told'.events = t.events
          /\ \/ told'.lifecycle = t.lifecycle
             \/ /\ journal' = journal /\ saved' = saved
                /\ told'.lifecycle = Append(t.lifecycle, Receipt(s))
      <3>1. CASE told' \in Receipted(t, s) /\ UNCHANGED <<saved, journal>>
        BY <1>6, <1>11, <3>1, ReceiptedIs DEF ToldOK
      <3>2. CASE told' = t
        BY <1>11, <3>2
      <3> QED
        BY <1>9, <3>1, <3>2
    <2>2. Receipt(s) = [ordinal |-> k, tseq |-> game.seq + 1]
      BY <1>6 DEF Receipt
    <2>3. told # Spoilt /\ t.lifecycle = told.lifecycle /\ Lines = game.seq
          /\ Len(t.events) = game.seq + 1
      BY <1>1, <2>1, LoggedGoesOn
    <2> QED
      BY <2>1, <2>2, <2>3
  <1>12. DecidesNext
    BY <1>7, <1>8, <1>10, <1>11 DEF DecidesNext
  <1> QED
    BY <1>1, <1>12, DecidesTells

LEMMA SafePointTells == ASSUME IInv, IInv', LifeInv, SafePoint PROVE LifeInv'
  <1>1. TypeOK /\ TypeOK' /\ game \in Game /\ RowsKnown(told) /\ proc \in Process
        /\ UNCHANGED <<envelope, director>> /\ game.safe < MaxSafe
    BY DEF IInv, TypeOK, KnownOK, SafePoint
  <1>2. PICK done \in BOOLEAN : \E t \in Logged(Line(OnSafe(done).safe, "other", "none"), done) :
            IF done THEN NextUse(OnSafe(done), t)
                    ELSE NothingDue(OnSafe(done), [proc EXCEPT !.mute = TRUE], t)
    BY DEF SafePoint, OnSafe
  <1> DEFINE line == Line(OnSafe(done).safe, "other", "none")
  <1>3. PICK t \in Logged(line, done) :
            IF done THEN NextUse(OnSafe(done), t)
                    ELSE NothingDue(OnSafe(done), [proc EXCEPT !.mute = TRUE], t)
    BY <1>2
  <1> HIDE DEF line
  <1>4. game.seq < MaxSeq
    BY <1>1, Constants DEF Logged, Game
  <1>5. OnSafe(done).seq = (IF done THEN game.seq + 1 ELSE game.seq)
        /\ OnSafe(done).count = game.count
    <2>1. /\ Numbered(game, done).seq = (IF done THEN game.seq + 1 ELSE game.seq)
          /\ Numbered(game, done).count = game.count /\ Numbered(game, done) \in Game
      BY <1>1, <1>4, NumberedGood, NumberedSeq DEF IInv, Good
    <2> QED
      BY <2>1 DEF OnSafe, Game
  <1>6. ASSUME NEW p, NothingDue(OnSafe(done), p, t), ~done => p.mute
        PROVE  LifeInv'
    <2>1. game' = OnSafe(done) /\ proc' = p /\ told' = t /\ UNCHANGED <<saved, journal>>
      BY <1>6 DEF NothingDue
    <2>2. MovesOn(done)
      BY <1>1, <1>5, <1>6, <2>1, LoggedMovesOn
    <2> QED
      BY <1>1, <2>1, <2>2, MovesOnOK
  <1>7. CASE ~done
    <2>1. [proc EXCEPT !.mute = TRUE].mute = TRUE
      BY <1>1 DEF Process
    <2> QED
      BY <1>3, <1>6, <1>7, <2>1
  <1>8. CASE done
    <2>1. NextUse(OnSafe(done), t) /\ done = TRUE
      BY <1>3, <1>8
    <2>2. CASE \E p : NothingDue(OnSafe(done), p, t)
      BY <1>6, <1>8, <2>2
    <2>3. CASE /\ Open(OnSafe(TRUE), Evidence) /\ Due(OnSafe(TRUE))
               /\ Judge(OnSafe(TRUE), Evidence, t)
      <3>1. ToldOK(t)
        <4>1. OnSafe(TRUE).safe \in 0..MaxSafe
          BY <1>1, <1>4, ArrivesOK DEF Arrives, Good, Game
        <4>2. line \in EventLine
          BY <2>1, <4>1 DEF line, Line, EventLine
        <4> QED
          BY <1>1, <4>2, LoggedOK DEF ToldOK
      <3> QED
        BY <1>1, <1>3, <1>4, <2>1, <2>3, <3>1, JudgeTells
    <2> QED
      BY <2>1, <2>2, <2>3 DEF NextUse
  <1> QED
    BY <1>7, <1>8

-----------------------------------------------------------------------------
(* LifecycleIsReadable *)

LEMMA InitLife == ASSUME Init PROVE LifeInv
  <1>1. /\ game.seq = 1 /\ game.count = 0 /\ saved.game = game
        /\ told.lifecycle = <<>> /\ told.events = <<Line(0, "session", "none")>>
        /\ \A k \in Ordinals : envelope[k] = NoEnvelope /\ ~journal[k].there
        /\ director.ordinal = 0
    BY DEF Init, Spoilt, NoFile, Idle
  <1>2. Receipts = 0 /\ Lines = 1
    BY <1>1 DEF Receipts, Lines
  <1>3. Older(saved.game, game)
    BY <1>1 DEF Older
  <1>4. TalesOK
    BY <1>1, <1>2 DEF TalesOK, InTurn, Fenced, Unwritten, Receipts
  <1> QED
    BY <1>1, <1>3, <1>4, Constants DEF LifeInv, Ordinals

LEMMA NextLife == ASSUME IInv, IInv', LifeInv, [Next]_vars PROVE LifeInv'
  <1>1. TypeOK'
    BY DEF IInv
  <1>2. ASSUME NEW f \in Families, UseEnds(f) \/ UseBreaksOff(f) PROVE LifeInv'
    BY <1>1, <1>2, UseTells
  <1>3. ASSUME NEW final \in BOOLEAN, Step(final) PROVE LifeInv'
    BY <1>3, StepTells
  <1>4. CASE SafePoint
    BY <1>4, SafePointTells
  <1>5. CASE Checkpoint \/ Save
    BY <1>1, <1>5, SaveTells
  <1>6. CASE Crash
    BY <1>1, <1>6, CrashTells
  <1>7. CASE Restore
    BY <1>1, <1>7, RestoreTells
  <1>8. CASE Poll \/ Publish \/ GivesUp
    BY <1>1, <1>8, DirectorTells
  <1>9. CASE UNCHANGED vars
    BY <1>9 DEF vars, files, LifeInv, TalesOK, Older, Receipts, Lines
  <1> QED
    BY <1>2, <1>3, <1>4, <1>5, <1>6, <1>7, <1>8, <1>9 DEF Next

(* Whatever the engine writes to the lifecycle, through every crash and restore and
   every write that fails, the director's reading of it raises nothing: attempts are
   told in turn, once, no earlier than the one before, each with its envelope
   (terminal receipts of chaos_next_use_safe.c, _advance of next_use_director.py).  *)
THEOREM LifecycleStaysReadable == Spec => []LifecycleIsReadable
  <1>1. LifeInv /\ IInv => LifecycleIsReadable
    <2>1. SUFFICES ASSUME LifeInv, IInv PROVE Readable
      BY DEF LifecycleIsReadable
    <2>2. CASE told = Spoilt
      BY <2>2 DEF Readable, Spoilt
    <2>3. CASE told # Spoilt
      BY <2>1, <2>3, InTurnIsReadable DEF LifeInv, TalesOK, IInv
    <2> QED
      BY <2>2, <2>3
  <1> QED
    BY <1>1, InitLife, NextLife, InductiveInvariant, PTL DEF Spec
=============================================================================
