---------------------- MODULE ChaosNextUseGame_proofs ----------------------
(****************************************************************************)
(* Proofs about ChaosNextUseGame, for any number of programs, event numbers, *)
(* safe points and saves: its safety invariants (that of the lifecycle file  *)
(* is in ChaosLifecycle_proofs), and that the programs of a game implement   *)
(* ChaosAttempts.                                                            *)
(*                                                                           *)
(* What is inductive is IInv: that a game, the one that is played and the    *)
(* one that is saved, is in order in itself (GameOK); that the files agree   *)
(* with both (FilesOK); and what the process and the director know of them.  *)
(****************************************************************************)
EXTENDS ChaosNextUseGame, SequenceTheorems, TLAPS

(* The rows of a journal that is open, and of one that has its end. *)
OpenTip(s) ==
    Len(s) >= 1 /\ \A i \in 1..Len(s) : s[i] = IF i = 1 THEN Header ELSE Transition(i - 1)

EndedTip(s) ==
    /\ Len(s) >= 2 /\ s[Len(s)] = End(Len(s) - 2)
    /\ \A i \in 1..(Len(s) - 1) : s[i] = IF i = 1 THEN Header ELSE Transition(i - 1)

ProgramOK(p) ==
    /\ p.at = "none" => p = NoProgram
    /\ p.journal = "open" => p.at = "live" /\ OpenTip(p.tip) /\ Len(p.tip) <= MaxRecords + 1
    /\ p.journal = "complete" => p.at = "ended" /\ EndedTip(p.tip)

(* The attempts before the last are refused or closed, their origins rise, and
   once the last is over its end is a fence after all of them.                  *)
GameOK(g) ==
    /\ ProgramOK(g.prog)
    /\ \A k \in Ordinals :
         /\ ProgramOK(g.closed[k])
         /\ g.closed[k] = NoProgram \/ g.closed[k].journal = "complete"
         /\ k >= g.count => g.closed[k] = NoProgram
    /\ g.count = 0 => g.prog = NoProgram
    /\ g.count > 0 => (g.terminal <=> g.prog.at # "live")
    /\ \A k \in Ordinals : g.closed[k].origin <= g.seq /\ (g.terminal => g.closed[k].origin <= g.tseq)
    /\ g.prog.origin <= g.seq /\ (g.terminal => g.prog.origin <= g.tseq)
    /\ \A j, k \in Ordinals :
         j < k /\ g.closed[j] # NoProgram /\ g.closed[k] # NoProgram
             => g.closed[j].origin < g.closed[k].origin
    /\ \A j \in Ordinals :
         g.closed[j] # NoProgram /\ g.prog # NoProgram => g.closed[j].origin < g.prog.origin

(* What a game holds of a program, against the file. *)
Begins(s, t) == Len(s) <= Len(t) /\ \A i \in 1..Len(s) : s[i] = t[i]

Held(p, rows) == Begins(p.tip, rows) /\ (p.journal = "complete" => rows = p.tip)

HeldAll(g, files_) ==
    /\ \A k \in Ordinals : k < g.count => Held(g.closed[k], files_[k].rows)
    /\ g.count > 0 => Held(g.prog, files_[g.count].rows)

FilesOK ==
    /\ \A k \in Ordinals : IsHistory(journal[k].rows) /\ (~journal[k].there => journal[k].rows = <<>>)
    /\ HeldAll(game, journal) /\ HeldAll(saved.game, journal)
    /\ proc.up /\ game.prog.journal = "open" =>
         journal[game.count] = [there |-> TRUE, rows |-> game.prog.tip]

(* An origin is published of an event of its family. *)
RowsKnown(t) == \A i \in t.schedule : i \in DOMAIN t.events /\ t.events[i].family \in Families

(* The engine knows no origin that is not logged; the director proposes families. *)
KnownOK ==
    /\ \A f \in Families : proc.origin[f] <= game.seq /\ proc.evidence[f] <= game.seq
    /\ RowsKnown(told)
    /\ \A k \in Ordinals : envelope[k] = NoEnvelope \/ envelope[k].family \in Families
    /\ director = Idle \/ (director.ordinal \in Ordinals /\ director.choice.family \in Families)

IInv == TypeOK /\ GameOK(game) /\ GameOK(saved.game) /\ FilesOK /\ KnownOK

-----------------------------------------------------------------------------
(* Games in order *)

Good(g) == g \in Game /\ GameOK(g)

LEMMA Constants ==
    Cap \in Nat /\ Cap >= 1 /\ MaxSeq \in Nat /\ MaxSeq >= 1 /\ MaxSafe \in Nat /\ MaxSaves \in Nat
    /\ MaxRecords \in Nat /\ MaxRecords >= 1
  BY NextUseGameAssumption

(* A game that has no program yet has the type and the order of one. *)
LEMMA NoProgramOK == NoProgram \in Program /\ ProgramOK(NoProgram)
  <1>1. <<>> \in Seq(JournalRow)
    BY EmptySeq
  <1> QED
    BY <1>1, Constants DEF NoProgram, Program, ProgramOK

(* A logged event, or one that is not, leaves a game in order. *)
LEMMA NumberedGood ==
    ASSUME NEW g, Good(g), NEW done \in BOOLEAN, done => g.seq < MaxSeq
    PROVE  /\ Good(Numbered(g, done))
           /\ Numbered(g, done) = [g EXCEPT !.seq = IF done THEN g.seq + 1 ELSE g.seq]
           /\ Numbered(g, done).seq >= g.seq
  <1> DEFINE h == Numbered(g, done)
  <1>1. h = [g EXCEPT !.seq = IF done THEN g.seq + 1 ELSE g.seq] /\ h \in Game
    BY Constants DEF Good, Game, Numbered
  <1>2. /\ h.seq >= g.seq /\ h.prog = g.prog /\ h.closed = g.closed /\ h.count = g.count
        /\ h.terminal = g.terminal /\ h.tseq = g.tseq /\ h.seq \in Nat /\ g.seq \in Nat
    BY <1>1, Constants DEF Good, Game
  <1>3. /\ \A k \in Ordinals : g.closed[k].origin \in Nat
        /\ g.prog.origin \in Nat
    BY Constants DEF Good, Game, Program
  <1>4. GameOK(h)
    BY <1>2, <1>3 DEF Good, GameOK
  <1> QED
    BY <1>1, <1>2, <1>4 DEF Good

(* The last program goes on, or ends at the event that was logged last. *)
LEMMA ProgressGood ==
    ASSUME NEW g, Good(g), NEW h \in Game, g.prog # NoProgram, ProgramOK(h.prog), g.count > 0,
           h.seq = g.seq, h.count = g.count, h.closed = g.closed, h.prog.origin = g.prog.origin,
           \/ h.prog.at = g.prog.at /\ h.terminal = g.terminal /\ h.tseq = g.tseq
           \/ g.prog.at = "live" /\ h.prog.at = "ended" /\ h.terminal = TRUE /\ h.tseq = g.seq
    PROVE  Good(h)
  <1>1. g.terminal \in BOOLEAN
    BY DEF Good, Game
  <1> QED
    BY <1>1 DEF Good, GameOK

(* settle_attempt closes the program before, and its fence is the last event. *)
LEMMA SettledGood ==
    ASSUME NEW g, Good(g), g.count < Cap, Retirable(g.prog)
    PROVE  /\ Good(Settled(g))
           /\ Settled(g).seq = g.seq /\ Settled(g).safe = g.safe
           /\ Settled(g).count = g.count + 1 /\ Settled(g).prog = NoProgram
           /\ Settled(g).terminal = TRUE /\ Settled(g).tseq = g.seq
           /\ \A k \in Ordinals :
                Settled(g).closed[k] = IF k = g.count THEN g.prog ELSE g.closed[k]
  <1> DEFINE h == Settled(g)
             c == IF g.prog = NoProgram THEN g.closed ELSE [g.closed EXCEPT ![g.count] = g.prog]
  <1>1. g \in Game /\ GameOK(g)
    BY DEF Good
  <1>2. g.count \in 0..Cap /\ g.seq \in 0..MaxSeq /\ g.prog \in Program
        /\ g.closed \in [Ordinals -> Program]
    BY <1>1 DEF Game
  <1>3. g.prog # NoProgram => g.count \in Ordinals
    BY <1>1, <1>2, Constants DEF GameOK, Ordinals
  <1>4. c \in [Ordinals -> Program]
    BY <1>2, <1>3
  <1>5. \A k \in Ordinals : c[k] = IF k = g.count THEN g.prog ELSE g.closed[k]
    BY <1>1, <1>2, <1>3 DEF GameOK
  <1>6. h = [g EXCEPT !.closed = c, !.prog = NoProgram, !.count = g.count + 1,
                      !.terminal = TRUE, !.tseq = g.seq]
    BY DEF Settled
  <1>7. /\ h.closed = c /\ h.prog = NoProgram /\ h.count = g.count + 1 /\ h.terminal = TRUE
        /\ h.tseq = g.seq /\ h.seq = g.seq /\ h.safe = g.safe
    BY <1>1, <1>6 DEF Game
  <1>8. h \in Game
    <2>1. g.count + 1 \in 0..Cap
      BY <1>2, Constants
    <2> HIDE DEF c
    <2>2. [g EXCEPT !.closed = c, !.prog = NoProgram, !.count = g.count + 1,
                    !.terminal = TRUE, !.tseq = g.seq] \in Game
      BY <1>1, <1>2, <1>4, <2>1, NoProgramOK DEF Game
    <2> QED
      BY <1>6, <2>2
  <1>9. /\ g.prog = NoProgram \/ (g.prog.journal = "complete" /\ g.count \in Ordinals)
        /\ g.prog.origin <= g.seq
        /\ \A k \in Ordinals : g.closed[k].origin \in Nat
        /\ g.prog.origin \in Nat
    BY <1>1, <1>2, <1>3, Constants DEF Retirable, GameOK, ProgramOK, Program
  <1>10. GameOK(h)
    <2>1. ProgramOK(h.prog) /\ h.prog.at = "none" /\ h.prog.origin = 0
      BY <1>7, NoProgramOK DEF NoProgram
    <2>2. \A k \in Ordinals : /\ ProgramOK(h.closed[k])
                              /\ h.closed[k] = NoProgram \/ h.closed[k].journal = "complete"
                              /\ k >= h.count => h.closed[k] = NoProgram
      BY <1>1, <1>2, <1>5, <1>7, <1>9 DEF GameOK, Ordinals
    <2>3. \A k \in Ordinals : h.closed[k].origin <= h.seq
      BY <1>1, <1>5, <1>7, <1>9 DEF GameOK
    <2>4. \A j, k \in Ordinals :
             j < k /\ h.closed[j] # NoProgram /\ h.closed[k] # NoProgram
                 => h.closed[j].origin < h.closed[k].origin
      <3>1. SUFFICES ASSUME NEW j \in Ordinals, NEW k \in Ordinals, j < k,
                            h.closed[j] # NoProgram, h.closed[k] # NoProgram
                     PROVE  h.closed[j].origin < h.closed[k].origin
        OBVIOUS
      <3>2. h.closed[j] = g.closed[j] /\ j # g.count
        BY <1>1, <1>2, <1>5, <1>7, <3>1 DEF GameOK, Ordinals
      <3>3. CASE k = g.count
        BY <1>1, <1>5, <1>7, <3>1, <3>2, <3>3 DEF GameOK
      <3>4. CASE k # g.count
        BY <1>1, <1>5, <1>7, <3>1, <3>2, <3>4 DEF GameOK
      <3> QED
        BY <3>3, <3>4
    <2> QED
      BY <1>2, <1>7, <2>1, <2>2, <2>3, <2>4 DEF GameOK
  <1> QED
    BY <1>5, <1>6, <1>7, <1>8, <1>10 DEF Good

(* A program installed after a settlement, about an origin beyond the fence. *)
WithProgram(g, q) == [g EXCEPT !.prog = q, !.terminal = FALSE, !.tseq = 0]

Installs(h, g, q) ==
    /\ Good(h) /\ h.prog = q /\ h.count = g.count + 1 /\ h.closed = Settled(g).closed
    /\ h.seq = g.seq

LEMMA InstalledGood ==
    ASSUME NEW g, Good(g), g.count < Cap, Retirable(g.prog), NEW origin \in 0..MaxSeq,
           origin <= g.seq, g.count > 0 => g.terminal /\ origin > g.tseq,
           NEW q \in Program, ProgramOK(q), q.at = "live", q.origin = origin
    PROVE  Installs(WithProgram(Settled(g), q), g, q)
  <1> DEFINE s == Settled(g)
             h == WithProgram(s, q)
  <1>1. s \in Game /\ GameOK(s)
    BY SettledGood DEF Good
  <1>2. s.seq = g.seq /\ s.count = g.count + 1 /\ g.count \in 0..Cap /\ g.seq \in 0..MaxSeq
    BY SettledGood DEF Good, Game
  <1>3. s.closed \in [Ordinals -> Program] /\ s.count \in 0..Cap /\ 0 \in 0..MaxSeq
        /\ FALSE \in BOOLEAN
    BY <1>1, Constants DEF Game
  <1> HIDE DEF s
  <1>4. h = [s EXCEPT !.prog = q, !.terminal = FALSE, !.tseq = 0]
    BY DEF WithProgram
  <1> HIDE DEF h
  <1>5. /\ h.prog = q /\ h.terminal = FALSE /\ h.tseq = 0 /\ h.seq = s.seq /\ h.count = s.count
        /\ h.closed = s.closed /\ h \in Game
    BY <1>1, <1>3, <1>4 DEF Game
  <1>6. \A k \in Ordinals : s.closed[k] # NoProgram => s.closed[k].origin < origin
    <2>1. SUFFICES ASSUME NEW k \in Ordinals, s.closed[k] # NoProgram
                   PROVE  s.closed[k].origin < origin
      OBVIOUS
    <2>2. s.closed[k] = IF k = g.count THEN g.prog ELSE g.closed[k]
      BY SettledGood DEF s
    <2>3. g.count \in Nat /\ g.count > 0 /\ g.tseq \in Nat /\ s.closed[k].origin \in Nat
      <3>1. g.count = 0 => g.prog = NoProgram /\ g.closed[k] = NoProgram
        BY DEF Good, GameOK, Ordinals
      <3> QED
        BY <1>1, <2>1, <2>2, <3>1, SMTT(30) DEF Good, Game, Program
    <2>4. s.closed[k].origin <= g.tseq
      BY <2>2, <2>3 DEF Good, GameOK
    <2> QED
      BY <2>3, <2>4
  <1>7. \A k \in Ordinals : s.closed[k].origin <= s.seq
    BY <1>1 DEF GameOK
  <1>8. GameOK(h)
    BY <1>1, <1>2, <1>5, <1>6, <1>7 DEF GameOK
  <1> QED
    BY <1>2, <1>5, <1>8 DEF Good, Installs, h, s

-----------------------------------------------------------------------------
(* The event log *)

LEMMA SpoiltOK == Spoilt \in Told /\ Len(Spoilt.events) = 0 /\ RowsKnown(Spoilt)
  <1>1. <<>> \in Seq(EventLine) /\ <<>> \in Seq([ordinal : Ordinals, tseq : 0..MaxSeq])
    BY EmptySeq
  <1> QED
    BY <1>1 DEF Spoilt, Told, RowsKnown

(* Whatever becomes of a line, the log is one that its readers can be given. *)
LEMMA LoggedOK ==
    ASSUME TypeOK, RowsKnown(told), NEW line \in EventLine, NEW done \in BOOLEAN,
           NEW t \in Logged(line, done)
    PROVE  /\ game.seq < MaxSeq
           /\ t \in Told /\ Len(t.events) <= MaxSeq /\ RowsKnown(t)
           /\ done /\ t # Spoilt => /\ game.seq + 1 \in DOMAIN t.events
                                    /\ t.events[game.seq + 1] = line
  <1>1. game.seq \in 0..MaxSeq /\ told \in Told /\ Len(told.events) <= MaxSeq
    BY DEF TypeOK, Game
  <1>2. game.seq < MaxSeq
    BY <1>1, Constants DEF Logged
  <1>3. t \in {told, Written(line)} /\ (done => t = Written(line))
    BY <1>2 DEF Logged
  <1>4. CASE t = told /\ ~done
    BY <1>1, <1>2, <1>4
  <1>5. CASE t = Written(line)
    <2>1. CASE Len(told.events) = game.seq
      <3>1. t = [told EXCEPT !.events = Append(told.events, line)]
        BY <1>5, <2>1 DEF Written
      <3>2. told.events \in Seq(EventLine) /\ told.schedule \in SUBSET (1..MaxSeq)
        BY <1>1 DEF Told
      <3>3. t.events = Append(told.events, line) /\ t.schedule = told.schedule
        BY <1>1, <3>1 DEF Told
      <3>4. /\ t.events \in Seq(EventLine) /\ Len(t.events) = game.seq + 1
            /\ t.events[game.seq + 1] = line
            /\ \A i \in 1..Len(told.events) : t.events[i] = told.events[i]
        BY <2>1, <3>2, <3>3, AppendProperties
      <3>5. t \in Told
        BY <1>1, <3>1, <3>3, <3>4 DEF Told
      <3>6. RowsKnown(t)
        BY <2>1, <3>2, <3>3, <3>4, <1>1, Constants DEF RowsKnown
      <3>7. game.seq + 1 \in DOMAIN t.events
        BY <1>1, <3>4, Constants
      <3> QED
        BY <1>1, <1>2, <3>4, <3>5, <3>6, <3>7, Constants
    <2>2. CASE Len(told.events) # game.seq
      BY <1>2, <1>5, <2>2, SpoiltOK, Constants DEF Written
    <2> QED
      BY <2>1, <2>2
  <1> QED
    BY <1>3, <1>4, <1>5

(* An origin that is published is one of the log. *)
LEMMA AnnouncedOK ==
    ASSUME NEW t \in Told, RowsKnown(t), NEW n \in 1..MaxSeq,
           t # Spoilt => n \in DOMAIN t.events /\ t.events[n].family \in Families
    PROVE  Announced(t, n) \in Told /\ Announced(t, n).events = t.events /\ RowsKnown(Announced(t, n))
  <1>1. CASE t = Spoilt
    BY <1>1 DEF Announced
  <1>2. CASE t # Spoilt
    <2>1. Announced(t, n) = [t EXCEPT !.schedule = t.schedule \cup {n}]
      BY <1>2 DEF Announced
    <2>2. t.schedule \cup {n} \in SUBSET (1..MaxSeq)
      BY DEF Told
    <2>3. Announced(t, n).schedule = t.schedule \cup {n} /\ Announced(t, n).events = t.events
      BY <2>1 DEF Told
    <2>4. Announced(t, n) \in Told
      BY <2>1, <2>2 DEF Told
    <2> QED
      BY <1>2, <2>3, <2>4 DEF RowsKnown
  <1> QED
    BY <1>1, <1>2

(* A lifecycle row changes nothing else that is read. *)
LEMMA ReceiptedOK ==
    ASSUME NEW t \in Told, RowsKnown(t), NEW g \in Game, g.count \in Ordinals,
           NEW r \in Receipted(t, g)
    PROVE  r \in Told /\ r.events = t.events /\ RowsKnown(r)
  <1>1. CASE r = t
    BY <1>1
  <1>2. CASE r = [t EXCEPT !.lifecycle = Append(t.lifecycle, Receipt(g))]
    <2>1. Receipt(g) \in [ordinal : Ordinals, tseq : 0..MaxSeq]
      BY DEF Receipt, Game
    <2>2. Append(t.lifecycle, Receipt(g)) \in Seq([ordinal : Ordinals, tseq : 0..MaxSeq])
      BY <2>1, AppendProperties DEF Told
    <2>3. r \in Told /\ r.events = t.events /\ r.schedule = t.schedule
      BY <1>2, <2>2 DEF Told
    <2> QED
      BY <2>3 DEF RowsKnown
  <1> QED
    BY <1>1, <1>2 DEF Receipted

-----------------------------------------------------------------------------
(* Journals *)

LEMMA RowsTyped ==
    /\ Header \in JournalRow /\ Torn \in JournalRow
    /\ \A n \in 0..MaxRecords : Transition(n) \in JournalRow /\ End(n) \in JournalRow
  BY Constants DEF Header, Torn, Transition, End, JournalRow

LEMMA Single ==
    ASSUME NEW x \in JournalRow
    PROVE  /\ <<x>> \in Seq(JournalRow) /\ Len(<<x>>) = 1 /\ <<x>>[1] = x
           /\ \A q \in Seq(JournalRow) : Len(q) = 1 /\ q[1] = x => q = <<x>>
  <1>1. <<x>> \in Seq(JournalRow) /\ Len(<<x>>) = 1 /\ <<x>>[1] = x
    OBVIOUS
  <1>2. ASSUME NEW q \in Seq(JournalRow), NEW y \in Seq(JournalRow), Len(q) = 1, q[1] = x,
               Len(y) = 1, y[1] = x
        PROVE  q = y
    <2>1. \A i \in 1..Len(q) : q[i] = y[i]
      BY <1>2
    <2> QED
      BY <1>2, <2>1, SeqEqual
  <1> QED
    BY <1>1, <1>2

(* Whole rows, and perhaps a torn one, are a history. *)
LEMMA WholeIsHistory ==
    ASSUME NEW s \in Seq(JournalRow), s = <<>> \/ OpenTip(s) \/ EndedTip(s),
           NEW torn \in {<<>>, <<Torn>>}
    PROVE  IsHistory(s \o torn) /\ s \o torn \in Seq(JournalRow) /\ Begins(s, s \o torn)
  <1> DEFINE rows == s \o torn
             n == Len(s)
  <1>1. torn \in Seq(JournalRow) /\ n \in Nat /\ Len(torn) \in {0, 1}
    BY RowsTyped, Single, EmptySeq, LenProperties, ZenonT(30)
  <1>2. /\ rows \in Seq(JournalRow) /\ Len(rows) = n + Len(torn)
        /\ \A i \in 1..Len(rows) : rows[i] = IF i <= n THEN s[i] ELSE torn[i - n]
    BY <1>1, ConcatProperties
  <1> HIDE DEF rows
  <1>3. /\ SubSeq(rows, 1, n) \in Seq(JournalRow) /\ Len(SubSeq(rows, 1, n)) = n
        /\ \A i \in 1..n : SubSeq(rows, 1, n)[i] = s[i]
    <2>1. \A i \in 1..n : rows[i] \in JournalRow /\ rows[i] = s[i]
      BY <1>1, <1>2, ElementOfSeq
    <2> QED
      BY <1>1, <2>1, SubSeqProperties
  <1>4. SubSeq(rows, n + 1, Len(rows)) \in {<<>>, <<Torn>>}
    <2>1. CASE torn = <<>>
      <3>1. Len(rows) < n + 1
        BY <1>1, <1>2, <2>1
      <3> QED
        BY <1>1, <1>2, <3>1, SubSeqEmpty
    <2>2. CASE torn = <<Torn>>
      <3>1. Len(rows) = n + 1 /\ rows[n + 1] = Torn
        BY <1>1, <1>2, <2>2
      <3>2. SubSeq(rows, n + 1, n + 1) \in Seq(JournalRow) /\ Len(SubSeq(rows, n + 1, n + 1)) = 1
            /\ SubSeq(rows, n + 1, n + 1)[1] = Torn
        <4>1. \A i \in (n + 1)..(n + 1) : rows[i] \in JournalRow
          BY <1>1, <3>1, RowsTyped
        <4> QED
          BY <1>1, <3>1, <4>1, SubSeqProperties
      <3>3. SubSeq(rows, n + 1, n + 1) = <<Torn>>
        BY <3>2, RowsTyped, Single
      <3> QED
        BY <3>1, <3>3
    <2> QED
      BY <2>1, <2>2
  <1>5. \A i \in 1..n : s[i] = IF i = 1 THEN Header
                               ELSE IF i = n /\ s[i].kind = "end" THEN End(i - 2)
                               ELSE Transition(i - 1)
    <2>1. \A i : Header.kind # "end" /\ Transition(i).kind # "end" /\ End(i).kind = "end"
      BY DEF Header, Transition, End
    <2>2. CASE s = <<>>
      BY <1>1, <2>2, EmptySeq
    <2>3. CASE OpenTip(s)
      BY <1>1, <2>1, <2>3 DEF OpenTip
    <2>4. CASE EndedTip(s)
      BY <1>1, <2>1, <2>4 DEF EndedTip
    <2> QED
      BY <2>2, <2>3, <2>4
  <1>6. n \in 0..Len(rows)
    BY <1>1, <1>2
  <1>7. IsHistory(rows)
    BY <1>3, <1>4, <1>5, <1>6 DEF IsHistory
  <1>8. Begins(s, rows)
    BY <1>1, <1>2 DEF Begins
  <1> QED
    BY <1>2, <1>7, <1>8 DEF rows

LEMMA BeginsTrans ==
    ASSUME NEW s \in Seq(JournalRow), NEW t \in Seq(JournalRow), NEW u \in Seq(JournalRow),
           Begins(s, t), Begins(t, u)
    PROVE  Begins(s, u)
  <1>1. Len(s) \in Nat /\ Len(t) \in Nat /\ Len(u) \in Nat
    BY LenProperties
  <1> QED
    BY <1>1 DEF Begins

(* The rows a transition adds keep an open journal open, or end it. *)
LEMMA OneMore ==
    ASSUME NEW s \in Seq(JournalRow), OpenTip(s), Len(s) <= MaxRecords
    PROVE  /\ s \o <<Transition(Len(s))>> \in Seq(JournalRow) /\ OpenTip(s \o <<Transition(Len(s))>>)
           /\ Len(s \o <<Transition(Len(s))>>) = Len(s) + 1
           /\ Begins(s, s \o <<Transition(Len(s))>>)
  <1> DEFINE x == Transition(Len(s))
             u == s \o <<x>>
  <1>1. Len(s) \in Nat /\ Len(s) >= 1 /\ x \in JournalRow
    BY LenProperties, RowsTyped, Constants DEF OpenTip
  <1>2. <<x>> \in Seq(JournalRow) /\ Len(<<x>>) = 1 /\ <<x>>[1] = x
    BY <1>1, Single
  <1>3. /\ u \in Seq(JournalRow) /\ Len(u) = Len(s) + 1
        /\ \A i \in 1..Len(s) + 1 : u[i] = IF i <= Len(s) THEN s[i] ELSE x
    <2>1. \A i \in 1..Len(s) + 1 : ~(i <= Len(s)) => i - Len(s) = 1
      BY <1>1
    <2> QED
      BY <1>1, <1>2, <2>1, ConcatProperties
  <1> HIDE DEF u
  <1>4. OpenTip(u) /\ Begins(s, u)
    BY <1>1, <1>3 DEF OpenTip, Begins
  <1> QED
    BY <1>3, <1>4 DEF u

LEMMA TheLast ==
    ASSUME NEW s \in Seq(JournalRow), OpenTip(s), Len(s) <= MaxRecords
    PROVE  LET new == <<Transition(Len(s))>> \o <<End(Len(s))>>
           IN  /\ s \o new \in Seq(JournalRow) /\ EndedTip(s \o new) /\ Begins(s, s \o new)
               /\ new \in Seq(JournalRow) /\ Len(new) = 2 /\ new[1] = Transition(Len(s))
  <1> DEFINE x == Transition(Len(s))
             y == End(Len(s))
             new == <<x>> \o <<y>>
             u == s \o new
  <1>1. Len(s) \in Nat /\ Len(s) >= 1 /\ x \in JournalRow /\ y \in JournalRow
    BY LenProperties, RowsTyped, Constants DEF OpenTip
  <1>2. new \in Seq(JournalRow) /\ Len(new) = 2 /\ new[1] = x /\ new[2] = y
    BY <1>1, Single, ConcatProperties
  <1> HIDE DEF new, x, y
  <1>3. /\ u \in Seq(JournalRow) /\ Len(u) = Len(s) + 2
        /\ \A i \in 1..Len(s) + 2 : u[i] = IF i <= Len(s) THEN s[i] ELSE new[i - Len(s)]
    <2>1. /\ u \in Seq(JournalRow) /\ Len(u) = Len(s) + Len(new)
          /\ \A i \in 1..Len(s) + Len(new) : u[i] = IF i <= Len(s) THEN s[i] ELSE new[i - Len(s)]
      BY <1>2, ConcatProperties
    <2> QED
      BY <1>2, <2>1
  <1> HIDE DEF u
  <1>4. /\ \A i \in 1..Len(s) : u[i] = s[i]
        /\ u[Len(s) + 1] = x /\ u[Len(s) + 2] = y
    <2>1. \A i \in 1..Len(s) : i \in 1..Len(s) + 2 /\ i <= Len(s)
      BY <1>1
    <2>2. /\ Len(s) + 1 \in 1..Len(s) + 2 /\ ~(Len(s) + 1 <= Len(s)) /\ Len(s) + 1 - Len(s) = 1
          /\ Len(s) + 2 \in 1..Len(s) + 2 /\ ~(Len(s) + 2 <= Len(s)) /\ Len(s) + 2 - Len(s) = 2
      BY <1>1
    <2>3. u[Len(s) + 1] = new[1] /\ u[Len(s) + 2] = new[2]
      BY <1>3, <2>2
    <2> QED
      BY <1>2, <1>3, <2>1, <2>3
  <1>5. EndedTip(u) /\ Begins(s, u)
    BY <1>1, <1>3, <1>4 DEF OpenTip, EndedTip, Begins, x, y
  <1> QED
    BY <1>2, <1>3, <1>5 DEF new, x, y, u

LEMMA LeftIn ==
    ASSUME NEW S, NEW s, NEW new,
           \A n \in 0..Len(new), torn \in {<<>>, <<Torn>>} : (s \o SubSeq(new, 1, n)) \o torn \in S
    PROVE  Left(s, new) \subseteq S
  <1> DEFINE T == {<<>>, <<Torn>>}
             L == {s \o SubSeq(new, 1, n) \o torn : n \in 0..Len(new), torn \in T}
  <1>1. Left(s, new) = L
    BY DEF Left
  <1>2. \A n \in 0..Len(new), torn \in T : (s \o SubSeq(new, 1, n)) \o torn \in S
    OBVIOUS
  <1> HIDE DEF T
  <1>3. ASSUME NEW r \in L PROVE r \in S
    <2>1. \E n \in 0..Len(new), torn \in T : r = (s \o SubSeq(new, 1, n)) \o torn
      BY <1>3, SMT
    <2> QED
      BY <1>2, <2>1
  <1> HIDE DEF L
  <1> QED
    BY <1>1, <1>3

(* Whatever part of the rows of a transition is left, the file is a history
   that the tip begins; and when nothing fails the tip is the file's.      *)
LEMMA GrowthOK ==
    ASSUME NEW p \in Program, ProgramOK(p), p.journal = "open", Cursor(p) < MaxRecords,
           NEW final \in BOOLEAN
    PROVE  /\ p.tip \o RowsOf(p, final) \in Seq(JournalRow)
           /\ IsHistory(p.tip \o RowsOf(p, final)) /\ Begins(p.tip, p.tip \o RowsOf(p, final))
           /\ IF final THEN EndedTip(p.tip \o RowsOf(p, final))
              ELSE /\ OpenTip(p.tip \o RowsOf(p, final))
                   /\ Len(p.tip \o RowsOf(p, final)) <= MaxRecords + 1
           /\ \A rows \in Left(p.tip, RowsOf(p, final)) :
                rows \in Seq(JournalRow) /\ IsHistory(rows) /\ Begins(p.tip, rows)
  <1> DEFINE s == p.tip
             one == <<Transition(Len(s))>>
             two == one \o <<End(Len(s))>>
             new == RowsOf(p, final)
  <1>1. s \in Seq(JournalRow) /\ OpenTip(s) /\ Len(s) <= MaxRecords /\ Len(s) \in Nat /\ Len(s) >= 1
    <2>1. s \in Seq(JournalRow) /\ OpenTip(s)
      BY DEF Program, ProgramOK
    <2>2. Len(s) \in Nat /\ Len(s) >= 1
      BY <2>1, LenProperties DEF OpenTip
    <2> QED
      BY <2>1, <2>2, Constants DEF Cursor
  <1>2. one \in Seq(JournalRow) /\ Len(one) = 1 /\ one[1] = Transition(Len(s))
    BY <1>1, RowsTyped, Single, Constants
  <1>3. new = IF final THEN two ELSE one
    <2>1. Cursor(p) + 1 = Len(s)
      BY <1>1 DEF Cursor
    <2>2. one \o <<>> = one
      BY <1>2, ConcatEmptySeq
    <2> QED
      BY <2>1, <2>2 DEF RowsOf
  <1>4. /\ s \o one \in Seq(JournalRow) /\ OpenTip(s \o one) /\ Begins(s, s \o one)
        /\ Len(s \o one) = Len(s) + 1
    BY <1>1, OneMore
  <1>5. /\ s \o two \in Seq(JournalRow) /\ EndedTip(s \o two) /\ Begins(s, s \o two)
        /\ two \in Seq(JournalRow) /\ Len(two) = 2 /\ two[1] = Transition(Len(s))
    BY <1>1, TheLast
  <1> HIDE DEF one, two, new
  <1>6. \A n \in 0..Len(new) : SubSeq(new, 1, n) \in {<<>>, one, two}
    <2>1. SUFFICES ASSUME NEW n \in 0..Len(new) PROVE SubSeq(new, 1, n) \in {<<>>, one, two}
      OBVIOUS
    <2>2. new \in Seq(JournalRow) /\ Len(new) \in {1, 2} /\ new[1] = Transition(Len(s))
          /\ (Len(new) = 2 => new = two) /\ (Len(new) = 1 => new = one)
      BY <1>2, <1>3, <1>5
    <2>3. CASE n = 0
      BY <2>3, SubSeqEmpty
    <2>4. CASE n = Len(new)
      BY <2>2, <2>4, SubSeqFull
    <2>5. CASE n = 1
      <3>1. \A i \in 1..1 : new[i] \in JournalRow
        BY <2>2, ElementOfSeq
      <3>2. SubSeq(new, 1, 1) \in Seq(JournalRow) /\ Len(SubSeq(new, 1, 1)) = 1
            /\ SubSeq(new, 1, 1)[1] = Transition(Len(s))
        BY <2>2, <3>1, SubSeqProperties
      <3>3. Transition(Len(s)) \in JournalRow
        BY <1>1, RowsTyped, Constants
      <3>4. SubSeq(new, 1, 1) = <<Transition(Len(s))>>
        BY <3>2, <3>3, Single
      <3> QED
        BY <2>5, <3>4 DEF one
    <2>6. n = 0 \/ n = 1 \/ n = Len(new)
      <3>1. ASSUME NEW m, NEW i \in 0..m, m = 1 \/ m = 2 PROVE i = 0 \/ i = 1 \/ i = m
        BY <3>1
      <3>2. Len(new) = 1 \/ Len(new) = 2
        BY <2>2
      <3> QED
        BY <3>1, <3>2
    <2> QED
      BY <2>2, <2>3, <2>4, <2>5, <2>6
  <1>7. s \o <<>> = s /\ Begins(s, s)
    BY <1>1, ConcatEmptySeq DEF Begins
  <1>8. \A part \in {<<>>, one, two} : /\ s \o part \in Seq(JournalRow) /\ Begins(s, s \o part)
                                       /\ OpenTip(s \o part) \/ EndedTip(s \o part)
    BY <1>1, <1>4, <1>5, <1>7
  <1>9. ASSUME NEW part \in {<<>>, one, two}, NEW torn \in {<<>>, <<Torn>>}
        PROVE  /\ (s \o part) \o torn \in Seq(JournalRow) /\ IsHistory((s \o part) \o torn)
               /\ Begins(s, (s \o part) \o torn)
    <2>1. /\ (s \o part) \o torn \in Seq(JournalRow) /\ IsHistory((s \o part) \o torn)
          /\ Begins(s \o part, (s \o part) \o torn)
      BY <1>8, WholeIsHistory
    <2> QED
      BY <1>1, <1>8, <2>1, BeginsTrans
  <1>10. \A rows \in Left(s, new) : rows \in Seq(JournalRow) /\ IsHistory(rows) /\ Begins(s, rows)
    <2> DEFINE S == {rows \in Seq(JournalRow) : IsHistory(rows) /\ Begins(s, rows)}
    <2>1. \A n \in 0..Len(new), torn \in {<<>>, <<Torn>>} : (s \o SubSeq(new, 1, n)) \o torn \in S
      BY <1>6, <1>9
    <2> HIDE DEF S
    <2>2. Left(s, new) \subseteq S
      BY <2>1, LeftIn
    <2> QED
      BY <2>2 DEF S
  <1>11. IsHistory(s \o new)
    <2>1. s \o new \in Seq(JournalRow) /\ (OpenTip(s \o new) \/ EndedTip(s \o new))
      BY <1>3, <1>8
    <2>2. (s \o new) \o <<>> = s \o new
      BY <2>1, ConcatEmptySeq
    <2>3. IsHistory((s \o new) \o <<>>)
      BY <2>1, WholeIsHistory
    <2> QED
      BY <2>2, <2>3
  <1> QED
    BY <1>1, <1>3, <1>4, <1>5, <1>10, <1>11, Constants DEF new

(* A journal at its limit takes no row; one that begins has its header or less. *)
LEMMA StuckOK ==
    ASSUME NEW p \in Program, ProgramOK(p), p.journal = "open"
    PROVE  \A rows \in Left(p.tip, <<>>) :
             rows \in Seq(JournalRow) /\ IsHistory(rows) /\ Begins(p.tip, rows)
  <1> DEFINE s == p.tip
             S == {rows \in Seq(JournalRow) : IsHistory(rows) /\ Begins(s, rows)}
  <1>1. s \in Seq(JournalRow) /\ OpenTip(s)
    BY DEF Program, ProgramOK
  <1>2. \A n \in 0..Len(<<>>) : SubSeq(<<>>, 1, n) = <<>>
    <2>1. \A n \in 0..Len(<<>>) : n = 0
      OBVIOUS
    <2> QED
      BY <2>1, SubSeqEmpty
  <1>3. s \o <<>> = s
    BY <1>1, ConcatEmptySeq
  <1> HIDE DEF s
  <1>4. \A torn \in {<<>>, <<Torn>>} : s \o torn \in S
    BY <1>1, WholeIsHistory
  <1>5. \A n \in 0..Len(<<>>), torn \in {<<>>, <<Torn>>} : (s \o SubSeq(<<>>, 1, n)) \o torn \in S
    BY <1>2, <1>3, <1>4
  <1> HIDE DEF S
  <1>6. Left(s, <<>>) \subseteq S
    BY <1>5, LeftIn
  <1> QED
    BY <1>6 DEF S, s

LEMMA BegunOK ==
    /\ <<Header>> \in Seq(JournalRow) /\ IsHistory(<<Header>>) /\ OpenTip(<<Header>>)
    /\ Len(<<Header>>) = 1
    /\ \A rows \in Left(<<>>, <<Header>>) : rows \in Seq(JournalRow) /\ IsHistory(rows)
  <1> DEFINE h == <<Header>>
             S == {rows \in Seq(JournalRow) : IsHistory(rows)}
  <1>1. h \in Seq(JournalRow) /\ Len(h) = 1 /\ h[1] = Header /\ <<>> \in Seq(JournalRow)
    BY RowsTyped, Single, EmptySeq
  <1>2. OpenTip(h)
    BY <1>1 DEF OpenTip
  <1>3. \A n \in 0..Len(h) : <<>> \o SubSeq(h, 1, n) \in {<<>>, h}
    <2>1. \A n \in 0..Len(h) : n = 0 \/ n = 1
      BY <1>1
    <2> HIDE DEF h
    <2>2. SubSeq(h, 1, 0) = <<>> /\ SubSeq(h, 1, 1) = h
      <3>1. SubSeq(h, 1, Len(h)) = h
        BY <1>1, SubSeqFull
      <3> QED
        BY <1>1, <3>1, SubSeqEmpty
    <2>3. <<>> \o <<>> = <<>> /\ <<>> \o h = h
      BY <1>1, ConcatEmptySeq
    <2> QED
      BY <2>1, <2>2, <2>3
  <1> HIDE DEF h
  <1>4. \A part \in {<<>>, h}, torn \in {<<>>, <<Torn>>} : part \o torn \in S
    BY <1>1, <1>2, WholeIsHistory
  <1>5. h \in S
    <2>1. h \o <<>> = h
      BY <1>1, ConcatEmptySeq
    <2> QED
      BY <1>4, <2>1
  <1>6. \A n \in 0..Len(h), torn \in {<<>>, <<Torn>>} : (<<>> \o SubSeq(h, 1, n)) \o torn \in S
    BY <1>3, <1>4
  <1> HIDE DEF S
  <1>7. Left(<<>>, h) \subseteq S
    BY <1>6, LeftIn
  <1> QED
    BY <1>1, <1>2, <1>5, <1>7 DEF S, h

-----------------------------------------------------------------------------
(* What a game holds of its journals *)

(* A file that only grows keeps what is held of it, if no program is closed there. *)
LEMMA HeldGrows ==
    ASSUME NEW g, Good(g), NEW a \in [Ordinals -> File], NEW b \in [Ordinals -> File],
           HeldAll(g, a), NEW n \in Ordinals, \A k \in Ordinals \ {n} : b[k] = a[k],
           Begins(a[n].rows, b[n].rows), ~EndedTip(a[n].rows)
    PROVE  HeldAll(g, b)
  <1>1. g.count \in 0..Cap /\ g.prog \in Program /\ \A k \in Ordinals : g.closed[k] \in Program
    BY DEF Good, Game
  <1>2. ASSUME NEW p \in Program, ProgramOK(p), NEW k \in Ordinals, Held(p, a[k].rows)
        PROVE  Held(p, b[k].rows)
    <2>1. CASE k # n
      BY <1>2, <2>1
    <2>2. CASE k = n
      <3>1. p.journal # "complete"
        BY <1>2, <2>2 DEF Held, ProgramOK
      <3>2. p.tip \in Seq(JournalRow) /\ a[n].rows \in Seq(JournalRow) /\ b[n].rows \in Seq(JournalRow)
        BY <1>2 DEF Program, File
      <3> QED
        BY <1>2, <2>2, <3>1, <3>2, BeginsTrans DEF Held
    <2> QED
      BY <2>1, <2>2
  <1>3. \A k \in Ordinals : k < g.count => Held(g.closed[k], b[k].rows)
    BY <1>1, <1>2 DEF HeldAll, Good, GameOK
  <1>4. g.count > 0 => Held(g.prog, b[g.count].rows)
    <2>1. g.count > 0 => g.count \in Ordinals
      BY <1>1, Constants DEF Ordinals
    <2> QED
      BY <1>1, <1>2, <2>1 DEF HeldAll, Good, GameOK
  <1> QED
    BY <1>3, <1>4 DEF HeldAll

(* Nothing is held of an attempt that has no program. *)
LEMMA HeldNone ==
    ASSUME NEW rows \in Seq(JournalRow)
    PROVE  Held(NoProgram, rows)
  <1>1. Len(<<>>) = 0 /\ Len(rows) \in Nat
    BY LenProperties
  <1> QED
    BY <1>1 DEF Held, Begins, NoProgram

LEMMA HeldSettled ==
    ASSUME NEW g, Good(g), g.count < Cap, Retirable(g.prog), NEW a \in [Ordinals -> File],
           HeldAll(g, a)
    PROVE  HeldAll(Settled(g), a)
  <1> DEFINE s == Settled(g)
  <1>1. /\ g.count \in Nat /\ s.count = g.count + 1 /\ s.prog = NoProgram
        /\ \A k \in Ordinals : s.closed[k] = IF k = g.count THEN g.prog ELSE g.closed[k]
    <2>1. g.count \in Nat
      BY Constants DEF Good, Game
    <2> QED
      BY <2>1, SettledGood
  <1>2. g.count + 1 \in Ordinals
    BY <1>1, Constants DEF Ordinals
  <1>3. \A k \in Ordinals : a[k].rows \in Seq(JournalRow)
    BY DEF File
  <1> HIDE DEF s
  <1>4. \A k \in Ordinals : k < s.count => Held(s.closed[k], a[k].rows)
    BY <1>1, Constants DEF HeldAll, Ordinals
  <1>5. Held(s.prog, a[s.count].rows)
    BY <1>1, <1>2, <1>3, HeldNone
  <1> QED
    BY <1>4, <1>5 DEF HeldAll, s

LEMMA OpenIsNotEnded ==
    ASSUME NEW s \in Seq(JournalRow), OpenTip(s) \/ s = <<>>
    PROVE  ~EndedTip(s)
  <1>1. Len(s) \in Nat
    BY LenProperties
  <1>2. \A n, m : End(n) # Transition(m)
    BY DEF End, Transition
  <1>3. CASE s = <<>>
    BY <1>3, EmptySeq DEF EndedTip
  <1>4. CASE OpenTip(s)
    BY <1>1, <1>2, <1>4 DEF OpenTip, EndedTip
  <1> QED
    BY <1>3, <1>4

-----------------------------------------------------------------------------
(* The player's uses *)

(* An event changes nothing of the programs and their files. *)
LEMMA FilesStay ==
    ASSUME FilesOK, journal' = journal, saved' = saved, game'.prog = game.prog,
           game'.closed = game.closed, game'.count = game.count, proc'.up => proc.up
    PROVE  FilesOK'
  BY DEF FilesOK, HeldAll

LEMMA NumberedType ==
    ASSUME TypeOK, GameOK(game), NEW done \in BOOLEAN, done => game.seq < MaxSeq,
           game' = Numbered(game, done)
    PROVE  /\ game' \in Game /\ GameOK(game)' /\ game'.seq = IF done THEN game.seq + 1 ELSE game.seq
           /\ game'.prog = game.prog /\ game'.closed = game.closed /\ game'.count = game.count
           /\ game'.safe = game.safe
  <1>1. game \in Game
    BY DEF TypeOK
  <1>2. Good(game') /\ game' = [game EXCEPT !.seq = IF done THEN game.seq + 1 ELSE game.seq]
    BY <1>1, NumberedGood DEF Good
  <1> QED
    BY <1>1, <1>2 DEF Good, Game

(* What is left of a use, whatever of it was written and whatever is known of it. *)
LEMMA UseOK ==
    ASSUME IInv, NEW f \in Families, NEW done \in BOOLEAN, done => game.seq < MaxSeq,
           game' = Numbered(game, done), proc' \in Process, proc'.up = proc.up,
           proc'.evidence = proc.evidence,
           \A i \in Families : i # f => proc'.origin[i] = proc.origin[i],
           proc'.origin[f] \in {0, game'.seq},
           told' \in Told, Len(told'.events) <= MaxSeq, RowsKnown(told'),
           UNCHANGED <<saved, envelope, journal, director>>
    PROVE  IInv'
  <1>1. /\ game' \in Game /\ GameOK(game)' /\ game'.seq >= game.seq /\ game'.seq \in Nat
        /\ game.seq \in Nat
        /\ game'.prog = game.prog /\ game'.closed = game.closed /\ game'.count = game.count
    <2>1. game.seq \in Nat
      BY Constants DEF IInv, TypeOK, Game
    <2> QED
      BY <2>1, NumberedType DEF IInv
  <1>2. TypeOK'
    BY <1>1 DEF IInv, TypeOK
  <1>3. FilesOK'
    BY <1>1, FilesStay DEF IInv
  <1>4. KnownOK'
    <2>1. \A i \in Families : proc.origin[i] \in Nat /\ proc.evidence[i] \in Nat
      BY Constants DEF IInv, TypeOK, Process
    <2>2. \A i \in Families : proc'.origin[i] <= game'.seq /\ proc'.evidence[i] <= game'.seq
      BY <1>1, <2>1 DEF IInv, KnownOK
    <2> QED
      BY <2>2 DEF IInv, KnownOK
  <1> QED
    BY <1>1, <1>2, <1>3, <1>4 DEF IInv

LEMMA UseEndsOK ==
    ASSUME IInv, NEW f \in Families, UseEnds(f)
    PROVE  IInv'
  <1>0. PICK done \in BOOLEAN : \E t \in Logged(Line(game.safe, "end", f), done) :
          /\ game' = Numbered(game, done)
          /\ \/ /\ done /\ ~proc.scheduleFailed
                /\ proc' = [proc EXCEPT !.origin[f] = game'.seq]
                /\ told' = Announced(t, game'.seq)
             \/ /\ done => proc.scheduleFailed \/ Lossy
                /\ proc' = [proc EXCEPT !.origin[f] = 0, !.scheduleFailed = TRUE, !.mute = ~done]
                /\ \/ told' = t
                   \/ done /\ ~proc.scheduleFailed /\ told' = Announced(t, game'.seq)
    BY DEF UseEnds
  <1>1. PICK t \in Logged(Line(game.safe, "end", f), done) :
          /\ game' = Numbered(game, done)
          /\ \/ /\ done /\ ~proc.scheduleFailed
                /\ proc' = [proc EXCEPT !.origin[f] = game'.seq]
                /\ told' = Announced(t, game'.seq)
             \/ /\ done => proc.scheduleFailed \/ Lossy
                /\ proc' = [proc EXCEPT !.origin[f] = 0, !.scheduleFailed = TRUE, !.mute = ~done]
                /\ \/ told' = t
                   \/ done /\ ~proc.scheduleFailed /\ told' = Announced(t, game'.seq)
    BY <1>0
  <1>2. Line(game.safe, "end", f) \in EventLine /\ Line(game.safe, "end", f).family = f
    BY DEF IInv, TypeOK, Game, Line, EventLine
  <1>3. /\ game.seq < MaxSeq /\ t \in Told /\ Len(t.events) <= MaxSeq /\ RowsKnown(t)
        /\ done /\ t # Spoilt => /\ game.seq + 1 \in DOMAIN t.events
                                 /\ t.events[game.seq + 1].family = f
    BY <1>2, LoggedOK DEF IInv, KnownOK
  <1>4. game' \in Game /\ game'.seq = IF done THEN game.seq + 1 ELSE game.seq
    BY <1>1, <1>3, NumberedType DEF IInv
  <1>5. done => game'.seq \in 1..MaxSeq
    BY <1>3, <1>4, Constants, SMTT(30) DEF IInv, TypeOK, Game
  <1>6. told' \in Told /\ Len(told'.events) <= MaxSeq /\ RowsKnown(told')
    <2>1. CASE told' = t
      BY <1>3, <2>1
    <2>2. CASE done /\ told' = Announced(t, game'.seq)
      BY <1>3, <1>4, <1>5, <2>2, AnnouncedOK
    <2> QED
      BY <1>1, <2>1, <2>2
  <1>7. /\ proc' \in Process /\ proc'.up = proc.up /\ proc'.evidence = proc.evidence
        /\ \A i \in Families : i # f => proc'.origin[i] = proc.origin[i]
        /\ proc'.origin[f] \in {0, game'.seq}
    <2> DEFINE m == ~done
    <2>0. m \in BOOLEAN
      OBVIOUS
    <2>1. proc \in Process /\ game'.seq \in 0..MaxSeq /\ 0 \in 0..MaxSeq
      BY <1>4, Constants DEF IInv, TypeOK, Game
    <2>4. \/ proc' = [proc EXCEPT !.origin[f] = game'.seq]
          \/ proc' = [proc EXCEPT !.origin[f] = 0, !.scheduleFailed = TRUE, !.mute = m]
      BY <1>1
    <2> HIDE DEF m
    <2>2. CASE proc' = [proc EXCEPT !.origin[f] = game'.seq]
      <3>5. /\ proc' \in Process /\ proc'.up = proc.up /\ proc'.evidence = proc.evidence
            /\ \A i \in Families : proc'.origin[i] = IF i = f THEN game'.seq ELSE proc.origin[i]
        BY <2>0, <2>1, <2>2 DEF Process
      <3> QED
        BY <3>5
    <2>3. CASE proc' = [proc EXCEPT !.origin[f] = 0, !.scheduleFailed = TRUE, !.mute = m]
      <3>5. /\ proc' \in Process /\ proc'.up = proc.up /\ proc'.evidence = proc.evidence
            /\ \A i \in Families : proc'.origin[i] = IF i = f THEN 0 ELSE proc.origin[i]
        BY <2>0, <2>1, <2>3 DEF Process
      <3> QED
        BY <3>5
    <2> QED
      BY <2>2, <2>3, <2>4
  <1>8. UNCHANGED <<saved, envelope, journal, director>>
    BY DEF UseEnds
  <1> QED
    BY <1>1, <1>3, <1>6, <1>7, <1>8, UseOK

LEMMA UseBreaksOffOK ==
    ASSUME IInv, NEW f \in Families, UseBreaksOff(f)
    PROVE  IInv'
  <1>1. PICK done \in BOOLEAN :
          /\ told' \in Logged(Line(game.safe, "notice", f), done)
          /\ game' = Numbered(game, done)
          /\ proc' = [proc EXCEPT !.origin[f] = 0, !.mute = ~done]
    BY DEF UseBreaksOff
  <1>2. Line(game.safe, "notice", f) \in EventLine
    BY DEF IInv, TypeOK, Game, Line, EventLine
  <1>3. game.seq < MaxSeq /\ told' \in Told /\ Len(told'.events) <= MaxSeq /\ RowsKnown(told')
    BY <1>1, <1>2, LoggedOK DEF IInv, KnownOK
  <1>4. /\ proc' \in Process /\ proc'.up = proc.up /\ proc'.evidence = proc.evidence
        /\ \A i \in Families : i # f => proc'.origin[i] = proc.origin[i]
        /\ proc'.origin[f] \in {0, game'.seq}
    <2> DEFINE m == ~done
    <2>0. m \in BOOLEAN
      OBVIOUS
    <2>1. proc \in Process /\ 0 \in 0..MaxSeq
      BY Constants DEF IInv, TypeOK
    <2>2. proc' = [proc EXCEPT !.origin[f] = 0, !.mute = m]
      BY <1>1
    <2> HIDE DEF m
    <2>5. /\ proc' \in Process /\ proc'.up = proc.up /\ proc'.evidence = proc.evidence
          /\ \A i \in Families : proc'.origin[i] = IF i = f THEN 0 ELSE proc.origin[i]
      BY <2>0, <2>1, <2>2 DEF Process
    <2> QED
      BY <2>5
  <1>5. UNCHANGED <<saved, envelope, journal, director>>
    BY DEF UseBreaksOff
  <1> QED
    BY <1>1, <1>3, <1>4, <1>5, UseOK

-----------------------------------------------------------------------------
(* A transition of the program that runs *)

(* The end of a program is the last event's, and its journal is not touched. *)
LEMMA EndedFields ==
    ASSUME NEW g \in Game, NEW final \in BOOLEAN, NEW h, h = IF final THEN Ended(g) ELSE g
    PROVE  /\ h \in Game /\ h.seq = g.seq /\ h.safe = g.safe /\ h.count = g.count
           /\ h.closed = g.closed /\ h.prog \in Program
           /\ h.prog.tip = g.prog.tip /\ h.prog.journal = g.prog.journal
           /\ h.prog.origin = g.prog.origin
           /\ IF final THEN h.prog.at = "ended" /\ h.terminal = TRUE /\ h.tseq = g.seq
              ELSE h.prog = g.prog /\ h.terminal = g.terminal /\ h.tseq = g.tseq
  <1>1. g.prog \in Program /\ g.seq \in 0..MaxSeq
    BY DEF Game
  <1>2. CASE ~final
    BY <1>1, <1>2
  <1>3. CASE final
    <2> DEFINE q == [g.prog EXCEPT !.at = "ended"]
    <2>1. /\ q \in Program /\ q.at = "ended" /\ q.tip = g.prog.tip /\ q.journal = g.prog.journal
          /\ q.origin = g.prog.origin
      BY <1>1 DEF Program
    <2>2. h = [g EXCEPT !.prog = q, !.terminal = TRUE, !.tseq = g.seq]
      BY <1>3 DEF Ended, Game
    <2> HIDE DEF q
    <2>3. /\ h.prog = q /\ h.terminal = TRUE /\ h.tseq = g.seq /\ h.seq = g.seq
          /\ h.safe = g.safe /\ h.count = g.count /\ h.closed = g.closed
      BY <2>2 DEF Game
    <2>4. h \in Game
      BY <1>1, <2>1, <2>2 DEF Game
    <2> QED
      BY <1>3, <2>1, <2>3, <2>4
  <1> QED
    BY <1>2, <1>3

(* The same game with another record of its program. *)
WithRecord(g, tip, state) ==
    [g EXCEPT !.prog = [g.prog EXCEPT !.tip = tip, !.journal = state]]

Records(h, g, tip, state) ==
    /\ h \in Game /\ h.seq = g.seq /\ h.safe = g.safe /\ h.count = g.count
    /\ h.closed = g.closed /\ h.terminal = g.terminal /\ h.tseq = g.tseq
    /\ h.prog.tip = tip /\ h.prog.journal = state /\ h.prog.at = g.prog.at
    /\ h.prog.origin = g.prog.origin

LEMMA Recorded ==
    ASSUME NEW g \in Game, NEW tip \in Seq(JournalRow),
           NEW state \in {"none", "open", "complete", "failed"}
    PROVE  Records(WithRecord(g, tip, state), g, tip, state)
  <1> DEFINE q == [g.prog EXCEPT !.tip = tip, !.journal = state]
             h == WithRecord(g, tip, state)
  <1>1. g.prog \in Program
    BY DEF Game
  <1>2. /\ q \in Program /\ q.tip = tip /\ q.journal = state /\ q.at = g.prog.at
        /\ q.origin = g.prog.origin
    BY <1>1 DEF Program
  <1>3. h = [g EXCEPT !.prog = q]
    BY DEF WithRecord
  <1> HIDE DEF q, h
  <1>4. /\ h \in Game /\ h.seq = g.seq /\ h.safe = g.safe /\ h.count = g.count
        /\ h.closed = g.closed /\ h.terminal = g.terminal /\ h.tseq = g.tseq
        /\ h.prog.tip = tip /\ h.prog.journal = state /\ h.prog.at = g.prog.at
        /\ h.prog.origin = g.prog.origin
    BY <1>2, <1>3 DEF Game
  <1> QED
    BY <1>4 DEF h, Records

LEMMA RecordFails ==
    ASSUME NEW g \in Game
    PROVE  JournalFailed(g) = WithRecord(g, g.prog.tip, "failed") /\ g.prog.tip \in Seq(JournalRow)
  <1>1. g.prog \in Program /\ g.prog.tip \in Seq(JournalRow)
    BY DEF Game, Program
  <1> DEFINE q == [g.prog EXCEPT !.journal = "failed"]
  <1>2. q = [g.prog EXCEPT !.tip = g.prog.tip, !.journal = "failed"]
    BY <1>1 DEF Program
  <1>3. JournalFailed(g) = [g EXCEPT !.prog = q]
    BY DEF JournalFailed, Game
  <1> QED
    BY <1>1, <1>2, <1>3 DEF WithRecord

(* A transition that keeps the program in order and its file a history that the
   program's record begins keeps everything in order.                          *)
LEMMA StepKeeps ==
    ASSUME IInv, proc.up, game.prog # NoProgram, game.count \in Ordinals,
           game' \in Game, game'.seq = game.seq, game'.count = game.count,
           game'.closed = game.closed, game'.prog.origin = game.prog.origin,
           \/ /\ game'.prog.at = game.prog.at /\ game'.terminal = game.terminal
              /\ game'.tseq = game.tseq
           \/ /\ game.prog.at = "live" /\ game'.prog.at = "ended"
              /\ game'.terminal = TRUE /\ game'.tseq = game.seq,
           ProgramOK(game'.prog), Held(game'.prog, journal'[game.count].rows),
           journal' \in [Ordinals -> File],
           \A k \in Ordinals \ {game.count} : journal'[k] = journal[k],
           \/ journal'[game.count] = journal[game.count]
           \/ /\ IsHistory(journal'[game.count].rows) /\ journal'[game.count].there
              /\ Begins(journal[game.count].rows, journal'[game.count].rows)
              /\ ~EndedTip(journal[game.count].rows),
           game'.prog.journal = "open" =>
               journal'[game.count] = [there |-> TRUE, rows |-> game'.prog.tip],
           told' \in Told, Len(told'.events) <= MaxSeq, RowsKnown(told'),
           UNCHANGED <<saved, proc, envelope, director>>
    PROVE  IInv'
  <1>1. Good(game) /\ Good(saved.game)
    BY DEF IInv, TypeOK, Good
  <1>2. Good(game')
    <2>1. game.count > 0
      BY Constants DEF Ordinals
    <2>2. CASE /\ game'.prog.at = game.prog.at /\ game'.terminal = game.terminal
               /\ game'.tseq = game.tseq
      BY <1>1, <2>1, <2>2, ProgressGood
    <2>3. CASE /\ game.prog.at = "live" /\ game'.prog.at = "ended"
               /\ game'.terminal = TRUE /\ game'.tseq = game.seq
      BY <1>1, <2>1, <2>3, ProgressGood
    <2> QED
      BY <2>2, <2>3
  <1>3. TypeOK' /\ GameOK(game)' /\ GameOK(saved.game)'
    BY <1>1, <1>2 DEF IInv, TypeOK, Good
  <1>4. \A g : Good(g) /\ HeldAll(g, journal) => HeldAll(g, journal')
    <2>1. CASE journal'[game.count] = journal[game.count]
      <3>1. \A k \in Ordinals : journal'[k] = journal[k]
        BY <2>1
      <3>2. \A g : Good(g) => g.count \in 0..Cap
        BY DEF Good, Game
      <3> QED
        BY <3>1, <3>2, Constants DEF HeldAll, Ordinals
    <2>2. CASE journal'[game.count] # journal[game.count]
      <3>1. journal \in [Ordinals -> File]
        BY DEF IInv, TypeOK
      <3> QED
        BY <2>2, <3>1, HeldGrows
    <2> QED
      BY <2>1, <2>2
  <1>5. HeldAll(game, journal)' /\ HeldAll(saved.game, journal)'
    BY <1>1, <1>4 DEF IInv, FilesOK, HeldAll
  <1>6. FilesOK'
    BY <1>5 DEF IInv, FilesOK
  <1>7. KnownOK'
    BY DEF IInv, KnownOK
  <1> QED
    BY <1>3, <1>6, <1>7 DEF IInv

(* What a transition makes of the program. *)
Advances(g, h) ==
    /\ g.prog # NoProgram /\ g.count > 0 /\ h.count = g.count /\ h.closed = g.closed
    /\ h.prog.at # "none" /\ h.seq = g.seq
    /\ \/ g.prog.journal = "failed" /\ h.prog.journal = "failed"
       \/ g.prog.journal = "open" /\ h.prog.journal = "failed"
       \/ g.prog.journal = "open" /\ h.prog.journal = "complete" /\ h.prog.at = "ended"
       \/ g.prog.journal = "open" /\ h.prog.journal = "open" /\ h.prog.at = "live"

LEMMA StepOK ==
    ASSUME IInv, NEW final \in BOOLEAN, Step(final)
    PROVE  IInv' /\ Advances(game, game')
  <1> DEFINE g == IF final THEN Ended(game) ELSE game
             k == g.count
             new == RowsOf(game.prog, final)
             tip2 == game.prog.tip \o new
  <1>1. /\ game \in Game /\ GameOK(game) /\ game.prog \in Program /\ ProgramOK(game.prog)
        /\ proc.up /\ game.prog.at = "live"
    BY DEF IInv, TypeOK, Game, GameOK, Step
  <1>2. game.prog # NoProgram /\ game.count > 0 /\ game.count \in Ordinals
    BY <1>1, Constants DEF NoProgram, GameOK, Game, Ordinals
  <1>3. /\ g \in Game /\ g.seq = game.seq /\ g.safe = game.safe /\ g.count = game.count
        /\ g.closed = game.closed /\ g.prog \in Program
        /\ g.prog.tip = game.prog.tip /\ g.prog.journal = game.prog.journal
        /\ g.prog.origin = game.prog.origin
        /\ IF final THEN g.prog.at = "ended" /\ g.terminal = TRUE /\ g.tseq = game.seq
           ELSE g.prog = game.prog /\ g.terminal = game.terminal /\ g.tseq = game.tseq
    BY <1>1, EndedFields, ZenonT(30)
  <1>4. Cursor(g.prog) = Cursor(game.prog) /\ RowsOf(g.prog, final) = new
    BY <1>3 DEF Cursor, RowsOf
  <1>5. UNCHANGED <<saved, proc, envelope, director>>
    BY DEF Step
  <1>6. /\ told \in Told /\ Len(told.events) <= MaxSeq /\ RowsKnown(told)
        /\ journal \in [Ordinals -> File] /\ journal[game.count] \in File
    BY <1>2 DEF IInv, TypeOK, KnownOK
  <1>7. /\ Held(game.prog, journal[game.count].rows)
        /\ game.prog.journal = "open" => journal[game.count] = [there |-> TRUE, rows |-> game.prog.tip]
    BY <1>1, <1>2, Constants DEF IInv, FilesOK, HeldAll
  <1>8. game.prog.journal = "open" =>
          /\ journal[game.count].rows = game.prog.tip /\ journal[game.count].there = TRUE
          /\ game.prog.tip \in Seq(JournalRow) /\ ~EndedTip(game.prog.tip)
    <2>1. game.prog.tip \in Seq(JournalRow)
      BY <1>1 DEF Program
    <2> QED
      BY <1>1, <1>7, <2>1, OpenIsNotEnded DEF ProgramOK
  <1>9. CASE /\ game.prog.journal = "failed" /\ final
             /\ game' = g /\ UNCHANGED <<journal, told>>
    <2>1. ProgramOK(game'.prog) /\ Held(game'.prog, journal'[game.count].rows)
          /\ game'.prog.journal # "open"
      BY <1>3, <1>7, <1>9 DEF ProgramOK, Held
    <2> HIDE DEF g
    <2>2. Advances(game, game')
      BY <1>2, <1>3, <1>9 DEF Advances
    <2> QED
      BY <1>1, <1>2, <1>3, <1>5, <1>6, <1>9, <2>1, <2>2, StepKeeps
  <1>10. CASE /\ game.prog.journal = "open" /\ Cursor(game.prog) < MaxRecords
              /\ journal' = [journal EXCEPT ![k].rows = @ \o new]
              /\ game' = WithRecord(g, tip2, IF final THEN "complete" ELSE "open")
              /\ IF final THEN told' \in Receipted(told, g) ELSE UNCHANGED told
    <2>1. /\ tip2 \in Seq(JournalRow) /\ IsHistory(tip2) /\ Begins(game.prog.tip, tip2)
          /\ IF final THEN EndedTip(tip2) ELSE OpenTip(tip2) /\ Len(tip2) <= MaxRecords + 1
      BY <1>1, <1>10, GrowthOK
    <2>2. /\ journal' \in [Ordinals -> File]
          /\ \A i \in Ordinals \ {game.count} : journal'[i] = journal[i]
          /\ journal'[game.count] = [there |-> TRUE, rows |-> tip2]
      <3>1. journal' = [journal EXCEPT ![game.count].rows = tip2]
        BY <1>3, <1>8, <1>10
      <3>2. journal[game.count].there = TRUE /\ tip2 \in Seq(JournalRow)
        BY <1>8, <1>10, <2>1
      <3> HIDE DEF tip2, new
      <3> QED
        BY <1>2, <1>6, <3>1, <3>2 DEF File
    <2>3. told' \in Told /\ Len(told'.events) <= MaxSeq /\ RowsKnown(told')
      BY <1>2, <1>3, <1>6, <1>10, ReceiptedOK
    <2> HIDE DEF tip2, new, g
    <2>4. /\ game' \in Game /\ game'.seq = g.seq /\ game'.safe = g.safe /\ game'.count = g.count
          /\ game'.closed = g.closed /\ game'.terminal = g.terminal /\ game'.tseq = g.tseq
          /\ game'.prog.tip = tip2 /\ game'.prog.journal = IF final THEN "complete" ELSE "open"
          /\ game'.prog.at = g.prog.at /\ game'.prog.origin = g.prog.origin
      <3> DEFINE state == IF final THEN "complete" ELSE "open"
      <3>1. state \in {"none", "open", "complete", "failed"} /\ game' = WithRecord(g, tip2, state)
        BY <1>10
      <3> HIDE DEF state
      <3>2. Records(game', g, tip2, state)
        <4>1. g \in Game /\ tip2 \in Seq(JournalRow)
          BY <1>3, <2>1
        <4> QED
          BY <3>1, <4>1, Recorded
      <3> QED
        BY <3>2 DEF state, Records
    <2>5. Begins(tip2, tip2) /\ Len(tip2) \in Nat
      BY <2>1, LenProperties DEF Begins
    <2>6. ProgramOK(game'.prog) /\ Held(game'.prog, journal'[game.count].rows)
      BY <1>1, <1>3, <2>1, <2>2, <2>4, <2>5 DEF ProgramOK, Held
    <2>7. journal'[game.count].rows = tip2 /\ journal'[game.count].there = TRUE
      BY <2>2
    <2> QED
      <3>1. Advances(game, game')
        BY <1>1, <1>2, <1>3, <1>10, <2>4 DEF Advances
      <3> QED
        BY <1>1, <1>2, <1>3, <1>5, <1>8, <1>10, <2>1, <2>2, <2>3, <2>4, <2>6, <2>7, <3>1, StepKeeps, ZenonT(30)
  <1>11. CASE /\ game.prog.journal = "open"
              /\ \E rows \in Left(game.prog.tip,
                                  IF Cursor(game.prog) = MaxRecords THEN <<>> ELSE new) :
                    journal' = [journal EXCEPT ![k].rows = rows]
              /\ game' = JournalFailed(g) /\ UNCHANGED told
    <2>1. PICK rows \in Left(game.prog.tip, IF Cursor(game.prog) = MaxRecords THEN <<>> ELSE new) :
            journal' = [journal EXCEPT ![k].rows = rows]
      BY <1>11
    <2>2. rows \in Seq(JournalRow) /\ IsHistory(rows) /\ Begins(game.prog.tip, rows)
      <3>1. CASE Cursor(game.prog) = MaxRecords
        BY <1>1, <1>11, <2>1, <3>1, StuckOK
      <3>2. CASE Cursor(game.prog) # MaxRecords
        <4>1. OpenTip(game.prog.tip) /\ Len(game.prog.tip) <= MaxRecords + 1
              /\ game.prog.tip \in Seq(JournalRow)
          BY <1>1, <1>8, <1>11 DEF ProgramOK
        <4>2. Len(game.prog.tip) \in Nat
          BY <4>1, LenProperties
        <4>3. Cursor(game.prog) < MaxRecords
          BY <3>2, <4>1, <4>2, Constants DEF Cursor
        <4> QED
          BY <1>1, <1>11, <2>1, <3>2, <4>3, GrowthOK
      <3> QED
        BY <3>1, <3>2
    <2> HIDE DEF tip2, new
    <2>3. /\ journal' \in [Ordinals -> File]
          /\ \A i \in Ordinals \ {game.count} : journal'[i] = journal[i]
          /\ journal'[game.count] = [there |-> TRUE, rows |-> rows]
      BY <1>2, <1>3, <1>6, <1>8, <1>11, <2>1, <2>2 DEF File
    <2> HIDE DEF g
    <2>4. game' = WithRecord(g, g.prog.tip, "failed") /\ g.prog.tip \in Seq(JournalRow)
      BY <1>3, <1>11, RecordFails
    <2>5. /\ game' \in Game /\ game'.seq = g.seq /\ game'.safe = g.safe /\ game'.count = g.count
          /\ game'.closed = g.closed /\ game'.terminal = g.terminal /\ game'.tseq = g.tseq
          /\ game'.prog.tip = g.prog.tip /\ game'.prog.journal = "failed"
          /\ game'.prog.at = g.prog.at /\ game'.prog.origin = g.prog.origin
      <3>1. g \in Game
        BY <1>3
      <3>2. Records(game', g, g.prog.tip, "failed")
        BY <2>4, <3>1, Recorded
      <3> QED
        BY <3>2 DEF Records
    <2>6. ProgramOK(game'.prog) /\ Held(game'.prog, journal'[game.count].rows)
      BY <1>1, <1>3, <2>2, <2>3, <2>5 DEF ProgramOK, Held
    <2>7. journal'[game.count].rows = rows /\ journal'[game.count].there = TRUE
      BY <2>3
    <2> QED
      <3>1. Advances(game, game')
        BY <1>1, <1>2, <1>3, <1>11, <2>5 DEF Advances
      <3> QED
        BY <1>1, <1>2, <1>3, <1>5, <1>6, <1>8, <1>11, <2>2, <2>3, <2>5, <2>6, <2>7, <3>1, StepKeeps, ZenonT(30)
  <1>12. \/ /\ game.prog.journal = "failed" /\ final
            /\ game' = g /\ UNCHANGED <<journal, told>>
         \/ /\ game.prog.journal = "open" /\ Cursor(game.prog) < MaxRecords
            /\ journal' = [journal EXCEPT ![k].rows = @ \o new]
            /\ game' = WithRecord(g, tip2, IF final THEN "complete" ELSE "open")
            /\ IF final THEN told' \in Receipted(told, g) ELSE UNCHANGED told
         \/ /\ game.prog.journal = "open"
            /\ \E rows \in Left(game.prog.tip,
                                IF Cursor(game.prog) = MaxRecords THEN <<>> ELSE new) :
                  journal' = [journal EXCEPT ![k].rows = rows]
            /\ game' = JournalFailed(g) /\ UNCHANGED told
    <2>1. \/ /\ g.prog.journal = "failed" /\ final
             /\ game' = g /\ UNCHANGED <<journal, told>>
          \/ /\ g.prog.journal = "open" /\ Cursor(g.prog) < MaxRecords
             /\ journal' = [journal EXCEPT ![k].rows = @ \o RowsOf(g.prog, final)]
             /\ game' = [g EXCEPT !.prog.tip = @ \o RowsOf(g.prog, final),
                                  !.prog.journal = IF final THEN "complete" ELSE "open"]
             /\ IF final THEN told' \in Receipted(told, g) ELSE UNCHANGED told
          \/ /\ g.prog.journal = "open" /\ (Lossy \/ Cursor(g.prog) = MaxRecords)
             /\ \E rows \in Left(journal[k].rows,
                                 IF Cursor(g.prog) = MaxRecords THEN <<>> ELSE RowsOf(g.prog, final)) :
                   journal' = [journal EXCEPT ![k].rows = rows]
             /\ game' = JournalFailed(g) /\ UNCHANGED told
      BY DEF Step
    <2>2. ASSUME NEW state
          PROVE  [g EXCEPT !.prog.tip = @ \o RowsOf(g.prog, final), !.prog.journal = state]
                 = WithRecord(g, tip2, state)
      <3>1. g \in Game /\ tip2 = g.prog.tip \o RowsOf(g.prog, final)
        BY <1>3, <1>4
      <3> HIDE DEF g, tip2
      <3> QED
        BY <3>1 DEF WithRecord, Game, Program
    <2>3. g.prog.journal = game.prog.journal /\ Cursor(g.prog) = Cursor(game.prog)
          /\ RowsOf(g.prog, final) = new
      BY <1>3, <1>4
    <2> HIDE DEF g, tip2, new
    <2> QED
      <3>1. CASE /\ g.prog.journal = "failed" /\ final
                 /\ game' = g /\ UNCHANGED <<journal, told>>
        BY <2>3, <3>1
      <3>2. CASE /\ g.prog.journal = "open" /\ Cursor(g.prog) < MaxRecords
                 /\ journal' = [journal EXCEPT ![k].rows = @ \o RowsOf(g.prog, final)]
                 /\ game' = [g EXCEPT !.prog.tip = @ \o RowsOf(g.prog, final),
                                      !.prog.journal = IF final THEN "complete" ELSE "open"]
                 /\ IF final THEN told' \in Receipted(told, g) ELSE UNCHANGED told
        <4>1. game' = WithRecord(g, tip2, IF final THEN "complete" ELSE "open")
          BY <2>2, <3>2
        <4> QED
          BY <2>3, <3>2, <4>1
      <3>3. CASE /\ g.prog.journal = "open" /\ (Lossy \/ Cursor(g.prog) = MaxRecords)
                 /\ \E rows \in Left(journal[k].rows,
                                 IF Cursor(g.prog) = MaxRecords THEN <<>> ELSE RowsOf(g.prog, final)) :
                       journal' = [journal EXCEPT ![k].rows = rows]
                 /\ game' = JournalFailed(g) /\ UNCHANGED told
        <4>1. journal[k].rows = game.prog.tip
          BY <1>3, <1>8, <2>3, <3>3
        <4> QED
          BY <2>3, <3>3, <4>1
      <3> QED
        BY <2>1, <3>1, <3>2, <3>3
  <1> QED
    BY <1>9, <1>10, <1>11, <1>12

-----------------------------------------------------------------------------
(* The safe point *)

LEMMA EvidenceOK ==
    ASSUME IInv
    PROVE  Evidence \in [Families -> 0..MaxSeq] /\ \A f \in Families : Evidence[f] <= game.seq
  <1>1. proc.origin \in [Families -> 0..MaxSeq] /\ proc.evidence \in [Families -> 0..MaxSeq]
    BY DEF IInv, TypeOK, Process
  <1> QED
    BY <1>1 DEF IInv, KnownOK, Evidence

(* The game at a safe point, before it looks for an envelope. *)
OnSafe(done) == [Numbered(game, done) EXCEPT !.safe = @ + 1]

Arrives(g) ==
    /\ Good(g) /\ g.seq >= game.seq /\ g.prog = game.prog /\ g.closed = game.closed
    /\ g.count = game.count /\ g.seq \in Nat /\ game.seq \in Nat

LEMMA ArrivesOK ==
    ASSUME IInv, NEW done \in BOOLEAN, done => game.seq < MaxSeq, game.safe < MaxSafe
    PROVE  Arrives(OnSafe(done))
  <1> DEFINE n == Numbered(game, done)
             h == OnSafe(done)
  <1>1. Good(game) /\ game.seq \in 0..MaxSeq
    BY DEF IInv, TypeOK, Good, Game
  <1>2. Good(n) /\ n = [game EXCEPT !.seq = IF done THEN game.seq + 1 ELSE game.seq] /\ n.seq >= game.seq
    BY <1>1, NumberedGood
  <1>3. n \in Game /\ n.prog = game.prog /\ n.closed = game.closed /\ n.count = game.count
        /\ n.safe = game.safe /\ n.seq \in Nat /\ game.seq \in Nat
    BY <1>1, <1>2, Constants DEF Good, Game
  <1> HIDE DEF n
  <1>4. h = [n EXCEPT !.safe = n.safe + 1]
    BY DEF OnSafe, n
  <1>5. n.safe + 1 \in 0..MaxSafe
    BY <1>1, <1>3, Constants DEF Good, Game
  <1> HIDE DEF h
  <1>6. /\ h \in Game /\ h.seq = n.seq /\ h.prog = n.prog /\ h.closed = n.closed
        /\ h.count = n.count /\ h.terminal = n.terminal /\ h.tseq = n.tseq
    BY <1>3, <1>4, <1>5 DEF Game
  <1>7. GameOK(h)
    BY <1>2, <1>6 DEF Good, GameOK
  <1> QED
    BY <1>2, <1>3, <1>6, <1>7 DEF Good, Arrives, h

(* A process that knows of no event after the n-th. *)
ProcKnows(p, n) ==
    p \in Process /\ \A f \in Families : p.origin[f] <= n /\ p.evidence[f] <= n

LEMMA ProcAtSafe ==
    ASSUME IInv, NEW n \in Nat, n >= game.seq
    PROVE  /\ ProcKnows(proc, n) /\ ProcKnows([proc EXCEPT !.mute = TRUE], n)
           /\ ProcKnows([proc EXCEPT !.evidence = Evidence], n) /\ ProcKnows(Down, n)
  <1>1. /\ proc \in Process /\ game.seq \in Nat
        /\ \A f \in Families : /\ proc.origin[f] <= game.seq /\ proc.evidence[f] <= game.seq
                               /\ proc.origin[f] \in Nat /\ proc.evidence[f] \in Nat
    <2>1. proc \in Process /\ game.seq \in Nat
      BY Constants DEF IInv, TypeOK, Game
    <2>2. \A f \in Families : proc.origin[f] \in Nat /\ proc.evidence[f] \in Nat
      BY <2>1, Constants DEF Process
    <2> QED
      BY <2>1, <2>2 DEF IInv, KnownOK
  <1>2. ProcKnows(proc, n)
    BY <1>1 DEF ProcKnows
  <1>3. ProcKnows([proc EXCEPT !.mute = TRUE], n)
    <2> DEFINE q == [proc EXCEPT !.mute = TRUE]
    <2>1. q \in Process /\ q.origin = proc.origin /\ q.evidence = proc.evidence
      BY <1>1 DEF Process
    <2> HIDE DEF q
    <2>2. ProcKnows(q, n)
      BY <1>1, <2>1 DEF ProcKnows
    <2> QED
      BY <2>2 DEF q
  <1>4. ProcKnows([proc EXCEPT !.evidence = Evidence], n)
    <2> DEFINE q == [proc EXCEPT !.evidence = Evidence]
    <2>1. /\ Evidence \in [Families -> 0..MaxSeq]
          /\ \A f \in Families : Evidence[f] <= game.seq /\ Evidence[f] \in Nat
      BY EvidenceOK, Constants
    <2>2. q \in Process /\ q.origin = proc.origin /\ q.evidence = Evidence
      BY <1>1, <2>1 DEF Process
    <2> HIDE DEF q
    <2>3. ProcKnows(q, n)
      BY <1>1, <2>1, <2>2 DEF ProcKnows
    <2> QED
      BY <2>3 DEF q
  <1>5. ProcKnows(Down, n)
    <2>1. Unbound \in [Families -> 0..MaxSeq] /\ \A f \in Families : Unbound[f] = 0
      BY Constants DEF Unbound
    <2>2. Down \in Process /\ Down.origin = Unbound /\ Down.evidence = Unbound
      BY <2>1 DEF Down, Process
    <2> QED
      BY <2>1, <2>2 DEF ProcKnows
  <1> QED
    BY <1>2, <1>3, <1>4, <1>5

(* What a log may be read as. *)
ToldOK(t) == t \in Told /\ Len(t.events) <= MaxSeq /\ RowsKnown(t)

(* A step of the engine that leaves games and files in order. *)
LEMMA EngineKeeps ==
    ASSUME IInv, Good(game'), game'.seq \in Nat, ProcKnows(proc', game'.seq), ToldOK(told'),
           journal' \in [Ordinals -> File], FilesOK',
           saved' \in [times : 0..MaxSaves, game : Game], GameOK(saved'.game),
           UNCHANGED <<envelope, director>>
    PROVE  IInv'
  <1>1. TypeOK'
    BY DEF IInv, TypeOK, Good, ProcKnows, ToldOK
  <1>2. KnownOK'
    BY DEF IInv, KnownOK, ProcKnows, ToldOK
  <1> QED
    BY <1>1, <1>2 DEF IInv, Good

LEMMA KeptOK ==
    ASSUME IInv, NEW g, Good(g), Kept(g)
    PROVE  /\ saved' \in [times : 0..MaxSaves, game : Game] /\ saved'.game = g /\ GameOK(saved'.game)
  <1>1. g \in Game /\ GameOK(g)
    BY DEF Good
  <1>2. saved.times + 1 \in 0..MaxSaves
    BY Constants DEF IInv, TypeOK, Kept
  <1>3. saved' = [times |-> saved.times + 1, game |-> g]
    BY DEF Kept
  <1> QED
    BY <1>1, <1>2, <1>3

LEMMA NothingDueOK ==
    ASSUME IInv, NEW g, Arrives(g), NEW p, ProcKnows(p, g.seq), p.up = proc.up, NEW t, ToldOK(t),
           NothingDue(g, p, t), UNCHANGED <<envelope, director>>
    PROVE  IInv'
  <1>1. game' = g /\ proc' = p /\ told' = t /\ saved' = saved /\ journal' = journal
    BY DEF NothingDue
  <1>2. FilesOK'
    BY <1>1, FilesStay DEF IInv, Arrives
  <1>3. journal' \in [Ordinals -> File] /\ saved' \in [times : 0..MaxSaves, game : Game]
        /\ GameOK(saved'.game)
    BY <1>1 DEF IInv, TypeOK
  <1> QED
    BY <1>1, <1>2, <1>3, EngineKeeps DEF Arrives

(* What there is when an envelope is decided. *)
Judged(g) ==
    /\ Arrives(g) /\ g.count < Cap /\ Retirable(g.prog)
    /\ Good(Settled(g)) /\ Settled(g).seq = g.seq /\ Settled(g).count = g.count + 1
    /\ Settled(g).prog = NoProgram /\ Settled(g).count \in Ordinals
    /\ HeldAll(Settled(g), journal)

LEMMA JudgedOK ==
    ASSUME IInv, NEW g, Arrives(g), g.count < Cap, Retirable(g.prog)
    PROVE  Judged(g)
  <1>1. Good(g) /\ g.count \in Nat /\ journal \in [Ordinals -> File]
    BY Constants, SMTT(30) DEF Arrives, Good, Game, IInv, TypeOK
  <1>2. HeldAll(g, journal)
    BY DEF Arrives, IInv, FilesOK, HeldAll
  <1>3. /\ Good(Settled(g)) /\ Settled(g).seq = g.seq /\ Settled(g).count = g.count + 1
        /\ Settled(g).prog = NoProgram
    BY <1>1, SettledGood
  <1>4. Settled(g).count \in Ordinals
    BY <1>1, <1>3, Constants DEF Ordinals
  <1>5. HeldAll(Settled(g), journal)
    BY <1>1, <1>2, HeldSettled
  <1> QED
    BY <1>3, <1>4, <1>5 DEF Judged

(* A refusal, or a hangup at the telegraph. *)
LEMMA SettledKeeps ==
    ASSUME IInv, NEW g, Judged(g), game' = Settled(g), ProcKnows(proc', g.seq), ToldOK(told'),
           UNCHANGED <<journal, envelope, director>>, saved' = saved \/ Kept(Settled(g))
    PROVE  IInv'
  <1>1. Good(game') /\ game'.seq = g.seq /\ game'.seq \in Nat
    BY DEF Judged, Arrives
  <1>2. saved' \in [times : 0..MaxSaves, game : Game] /\ GameOK(saved'.game)
        /\ HeldAll(saved'.game, journal)
    <2>1. CASE saved' = saved
      BY <2>1 DEF IInv, TypeOK, FilesOK
    <2>2. CASE Kept(Settled(g))
      BY <2>2, KeptOK DEF Judged
    <2> QED
      BY <2>1, <2>2
  <1>3. game'.prog.journal = "none"
    BY DEF Judged, NoProgram
  <1>4. FilesOK'
    <2>1. HeldAll(game', journal) /\ HeldAll(saved'.game, journal) /\ journal' = journal
      BY <1>2 DEF Judged
    <2>2. HeldAll(game, journal)' /\ HeldAll(saved.game, journal)'
      BY <2>1 DEF HeldAll
    <2> QED
      BY <1>3, <2>1, <2>2 DEF IInv, FilesOK
  <1>5. journal' \in [Ordinals -> File]
    BY DEF IInv, TypeOK
  <1> QED
    BY <1>1, <1>2, <1>4, <1>5, EngineKeeps

(* The program an installation begins with, its journal open or failed. *)
Begun(origin, tip, state) ==
    [at |-> "live", journal |-> state, tip |-> tip, origin |-> origin]

LEMMA IsBegun ==
    ASSUME NEW p \in Program, p.at = "live"
    PROVE  p = Begun(p.origin, p.tip, p.journal)
  BY DEF Begun, Program

LEMMA BegunFrom ==
    ASSUME NEW origin \in 0..MaxSeq, NEW tip \in Seq(JournalRow),
           NEW state \in {"none", "open", "complete", "failed"}
    PROVE  /\ Begun(origin, tip, state) \in Program
           /\ [NoProgram EXCEPT !.at = "live", !.origin = origin] = Begun(origin, <<>>, "none")
           /\ [Begun(origin, <<>>, "none") EXCEPT !.tip = tip, !.journal = state]
              = Begun(origin, tip, state)
  <1> DEFINE e == <<>>
             p == [NoProgram EXCEPT !.at = "live", !.origin = origin]
             b == Begun(origin, e, "none")
             q == [b EXCEPT !.tip = tip, !.journal = state]
  <1>1. e \in Seq(JournalRow) /\ NoProgram \in Program
        /\ NoProgram.journal = "none" /\ NoProgram.tip = e
    BY EmptySeq, NoProgramOK DEF NoProgram
  <1> HIDE DEF e
  <1>2. p \in Program /\ p.at = "live" /\ p.origin = origin /\ p.tip = e /\ p.journal = "none"
    BY <1>1 DEF Program
  <1>3. b \in Program /\ b.at = "live" /\ b.origin = origin
    BY <1>1 DEF Begun, Program
  <1> HIDE DEF p
  <1>4. p = b
    BY <1>2, IsBegun
  <1> HIDE DEF b
  <1>5. q \in Program /\ q.at = "live" /\ q.origin = origin /\ q.tip = tip /\ q.journal = state
    BY <1>3 DEF Program
  <1> HIDE DEF q
  <1>6. q = Begun(origin, tip, state)
    BY <1>5, IsBegun
  <1> QED
    BY <1>4, <1>5, <1>6 DEF p, q, b, e

LEMMA BegunProgram ==
    ASSUME NEW origin \in 0..MaxSeq
    PROVE  /\ Begun(origin, <<Header>>, "open") \in Program /\ ProgramOK(Begun(origin, <<Header>>, "open"))
           /\ Begun(origin, <<>>, "failed") \in Program /\ ProgramOK(Begun(origin, <<>>, "failed"))
  <1>1. <<Header>> \in Seq(JournalRow) /\ <<>> \in Seq(JournalRow)
    BY BegunOK, EmptySeq
  <1>2. OpenTip(<<Header>>) /\ Len(<<Header>>) <= MaxRecords + 1
    BY BegunOK, Constants
  <1> DEFINE h == <<Header>>
  <1> HIDE DEF h
  <1>3. Begun(origin, h, "open") \in Program /\ ProgramOK(Begun(origin, h, "open"))
    <2>1. h \in Seq(JournalRow) /\ OpenTip(h) /\ Len(h) <= MaxRecords + 1
      BY <1>1, <1>2 DEF h
    <2> QED
      BY <2>1 DEF Begun, Program, ProgramOK
  <1>4. Begun(origin, <<>>, "failed") \in Program /\ ProgramOK(Begun(origin, <<>>, "failed"))
    BY <1>1 DEF Begun, Program, ProgramOK
  <1> QED
    BY <1>3, <1>4 DEF h

(* An installation: its file is new, or nobody touches it. *)
LEMMA InstallKeeps ==
    ASSUME IInv, NEW g, Judged(g), Good(game'), game'.seq = g.seq, game'.closed = Settled(g).closed,
           NEW n, n = Settled(g).count, game'.count = n, ProcKnows(proc', g.seq), ToldOK(told'),
           UNCHANGED <<saved, envelope, director>>, journal' \in [Ordinals -> File],
           \A k \in Ordinals \ {n} : journal'[k] = journal[k],
           \/ journal'[n] = journal[n]
           \/ ~journal[n].there /\ journal'[n].there /\ IsHistory(journal'[n].rows),
           Held(game'.prog, journal'[n].rows),
           game'.prog.journal = "open" => journal'[n] = [there |-> TRUE, rows |-> game'.prog.tip]
    PROVE  IInv'
  <1>1. /\ n \in Ordinals /\ Good(Settled(g)) /\ HeldAll(Settled(g), journal)
        /\ Good(saved.game) /\ HeldAll(saved.game, journal) /\ journal \in [Ordinals -> File]
    BY DEF Judged, IInv, TypeOK, FilesOK, Good
  <1>2. \A h : Good(h) /\ HeldAll(h, journal) => HeldAll(h, journal')
    <2>1. CASE journal'[n] = journal[n]
      <3>1. \A k \in Ordinals : journal'[k] = journal[k]
        BY <1>1, <2>1
      <3>2. \A h : Good(h) => h.count \in 0..Cap
        BY DEF Good, Game
      <3> QED
        BY <3>1, <3>2, Constants, SMTT(30) DEF HeldAll, Ordinals
    <2>2. CASE ~journal[n].there
      <3>1. journal[n].rows = <<>> /\ journal'[n].rows \in Seq(JournalRow)
        BY <1>1, <2>2 DEF IInv, FilesOK, File
      <3>2. Begins(journal[n].rows, journal'[n].rows) /\ ~EndedTip(journal[n].rows)
        <4>1. Len(<<>>) = 0 /\ Len(journal'[n].rows) \in Nat
          BY <3>1, LenProperties
        <4> QED
          BY <3>1, <4>1 DEF Begins, EndedTip
      <3> QED
        BY <1>1, <3>2, HeldGrows
    <2> QED
      BY <2>1, <2>2
  <1>3. HeldAll(game, journal)' /\ HeldAll(saved.game, journal)'
    BY <1>1, <1>2 DEF HeldAll
  <1>4. FilesOK'
    BY <1>1, <1>3 DEF IInv, FilesOK
  <1>5. saved' \in [times : 0..MaxSaves, game : Game] /\ GameOK(saved'.game) /\ game'.seq \in Nat
    BY DEF IInv, TypeOK, Judged, Arrives
  <1> QED
    BY <1>4, <1>5, EngineKeeps

LEMMA BeginKeeps ==
    ASSUME IInv, NEW g, Judged(g), NEW origin \in 0..MaxSeq, origin <= g.seq,
           g.count > 0 => g.terminal /\ origin > g.tseq,
           JournalBegin(Installed(Settled(g), origin)), ProcKnows(proc', g.seq), ToldOK(told'),
           UNCHANGED <<saved, envelope, director>>
    PROVE  /\ IInv'
           /\ game'.count = Settled(g).count /\ game'.closed = Settled(g).closed
           /\ game'.prog.at = "live" /\ game'.prog.journal \in {"open", "failed"}
           /\ game'.seq = g.seq
  <1> DEFINE s == Settled(g)
             h == Installed(s, origin)
             n == s.count
             open == Begun(origin, <<Header>>, "open")
             failed == Begun(origin, <<>>, "failed")
  <1>1. s \in Game /\ n \in Ordinals /\ journal \in [Ordinals -> File] /\ Good(g)
        /\ g.count < Cap /\ Retirable(g.prog) /\ n = g.count + 1
    BY DEF Judged, Good, Arrives, IInv, TypeOK
  <1>2. /\ h.count = n
        /\ [h EXCEPT !.prog.journal = "open", !.prog.tip = <<Header>>] = WithProgram(s, open)
        /\ JournalFailed(h) = WithProgram(s, failed)
    <2> DEFINE b == Begun(origin, <<>>, "none")
               hd == <<Header>>
               e == <<>>
    <2>1. s \in Game /\ b \in Program /\ [NoProgram EXCEPT !.at = "live", !.origin = origin] = b
          /\ hd \in Seq(JournalRow) /\ e \in Seq(JournalRow)
      BY <1>1, BegunFrom, BegunOK, EmptySeq
    <2> HIDE DEF hd
    <2>2. [b EXCEPT !.tip = hd, !.journal = "open"] = Begun(origin, hd, "open")
      BY <2>1, BegunFrom
    <2>3. [b EXCEPT !.tip = e, !.journal = "failed"] = failed
      BY <2>1, BegunFrom
    <2> HIDE DEF b, e, s, open, failed
    <2>4. h = [s EXCEPT !.prog = b, !.terminal = FALSE, !.tseq = 0]
      BY <2>1 DEF Installed
    <2> HIDE DEF h
    <2>5. h \in Game /\ h.count = n /\ h.prog = b
      <3>1. s \in Game /\ b \in Program /\ 0 \in 0..MaxSeq
        BY <2>1, Constants
      <3> QED
        BY <2>4, <3>1 DEF Game
    <2>6. ASSUME NEW q PROVE [h EXCEPT !.prog = q] = WithProgram(s, q)
      BY <2>1, <2>4 DEF WithProgram, Game
    <2>7. [h EXCEPT !.prog.journal = "open", !.prog.tip = hd]
          = [h EXCEPT !.prog = [b EXCEPT !.tip = hd, !.journal = "open"]]
      BY <2>5 DEF Game, Program
    <2>8. JournalFailed(h) = [h EXCEPT !.prog = [b EXCEPT !.tip = e, !.journal = "failed"]]
      <3>1. b.tip = e /\ [b EXCEPT !.tip = b.tip, !.journal = "failed"] = [b EXCEPT !.journal = "failed"]
        BY <2>1 DEF b, e, Begun, Program
      <3> QED
        BY <2>5, <3>1 DEF JournalFailed, Game
    <2>9. [h EXCEPT !.prog.journal = "open", !.prog.tip = hd] = WithProgram(s, open)
      <3>1. [h EXCEPT !.prog = Begun(origin, hd, "open")] = WithProgram(s, Begun(origin, hd, "open"))
        BY <2>6
      <3> QED
        BY <2>2, <2>7, <3>1 DEF hd, open
    <2>10. JournalFailed(h) = WithProgram(s, failed)
      BY <2>3, <2>6, <2>8
    <2> QED
      BY <2>5, <2>9, <2>10 DEF hd
  <1>3. /\ open \in Program /\ ProgramOK(open) /\ open.at = "live" /\ open.origin = origin
        /\ open.tip = <<Header>> /\ open.journal = "open"
        /\ failed \in Program /\ ProgramOK(failed) /\ failed.at = "live" /\ failed.origin = origin
        /\ failed.tip = <<>> /\ failed.journal = "failed"
    BY BegunProgram DEF Begun
  <1> HIDE DEF open, failed, h
  <1>4. Installs(WithProgram(s, open), g, open) /\ Installs(WithProgram(s, failed), g, failed)
    BY <1>1, <1>3, InstalledGood
  <1>5. \/ /\ ~journal[n].there
           /\ journal' = [journal EXCEPT ![n] = [there |-> TRUE, rows |-> <<Header>>]]
           /\ game' = WithProgram(s, open)
        \/ /\ game' = WithProgram(s, failed)
           /\ \/ UNCHANGED journal
              \/ /\ ~journal[n].there
                 /\ \E rows \in Left(<<>>, <<Header>>) :
                       journal' = [journal EXCEPT ![n] = [there |-> TRUE, rows |-> rows]]
    <2>1. JournalBegin(h)
      BY DEF h
    <2> QED
      BY <1>2, <2>1 DEF JournalBegin
  <1>6. journal[n] \in File
    BY <1>1
  <1>7. CASE /\ ~journal[n].there
             /\ journal' = [journal EXCEPT ![n] = [there |-> TRUE, rows |-> <<Header>>]]
             /\ game' = WithProgram(s, open)
    <2> DEFINE hd == <<Header>>
               file == [there |-> TRUE, rows |-> hd]
    <2>1. hd \in Seq(JournalRow) /\ IsHistory(hd) /\ Len(hd) = 1
      BY BegunOK
    <2>2. open.tip = hd
      BY <1>3
    <2> HIDE DEF hd
    <2>3. file \in File /\ file.there = TRUE /\ file.rows = hd
      BY <2>1 DEF File
    <2>4. journal' = [journal EXCEPT ![n] = file]
      BY <1>7 DEF hd
    <2> HIDE DEF file, s
    <2>5. /\ journal' \in [Ordinals -> File] /\ journal'[n] = file
          /\ \A k \in Ordinals \ {n} : journal'[k] = journal[k]
      BY <1>1, <2>3, <2>4
    <2>6. Held(open, hd)
      BY <1>3, <2>1, <2>2 DEF Held, Begins
    <2>7. Good(game') /\ game'.prog = open /\ game'.count = n /\ game'.seq = g.seq
          /\ game'.closed = s.closed
      BY <1>1, <1>4, <1>7 DEF Installs, s
    <2>8. journal'[n] = [there |-> TRUE, rows |-> open.tip]
      BY <2>2, <2>5 DEF file
    <2>9. IInv'
      BY <1>7, <2>1, <2>3, <2>5, <2>6, <2>7, <2>8, InstallKeeps, ZenonT(30) DEF s
    <2> QED
      BY <1>3, <2>7, <2>9 DEF s
  <1>8. CASE game' = WithProgram(s, failed)
             /\ \/ UNCHANGED journal
                \/ /\ ~journal[n].there
                   /\ \E rows \in Left(<<>>, <<Header>>) :
                         journal' = [journal EXCEPT ![n] = [there |-> TRUE, rows |-> rows]]
    <2> HIDE DEF s
    <2>1. Good(game') /\ game'.prog = failed /\ game'.count = n /\ game'.seq = g.seq
          /\ game'.closed = s.closed
      BY <1>1, <1>4, <1>8 DEF Installs, s
    <2>2. \A rows \in Seq(JournalRow) : Held(failed, rows)
      <3>1. Len(<<>>) = 0 /\ \A rows \in Seq(JournalRow) : Len(rows) \in Nat
        BY LenProperties
      <3> QED
        BY <1>3, <3>1 DEF Held, Begins
    <2>3. CASE UNCHANGED journal
      <3>1. Held(failed, journal'[n].rows)
        BY <1>6, <2>2, <2>3 DEF File
      <3>2. IInv'
        BY <1>1, <1>3, <2>1, <2>3, <3>1, InstallKeeps DEF s
      <3> QED
        BY <1>3, <2>1, <3>2 DEF s
    <2>4. CASE /\ ~journal[n].there
               /\ \E rows \in Left(<<>>, <<Header>>) :
                     journal' = [journal EXCEPT ![n] = [there |-> TRUE, rows |-> rows]]
      <3>1. PICK rows \in Left(<<>>, <<Header>>) :
              journal' = [journal EXCEPT ![n] = [there |-> TRUE, rows |-> rows]]
        BY <2>4
      <3>2. rows \in Seq(JournalRow) /\ IsHistory(rows)
        BY <3>1, BegunOK
      <3> DEFINE file == [there |-> TRUE, rows |-> rows]
      <3>3. file \in File /\ file.there = TRUE /\ file.rows = rows
        BY <3>2 DEF File
      <3> HIDE DEF file
      <3>4. /\ journal' \in [Ordinals -> File] /\ journal'[n] = file
            /\ \A k \in Ordinals \ {n} : journal'[k] = journal[k]
        <4>1. journal' = [journal EXCEPT ![n] = file]
          BY <3>1 DEF file
        <4> QED
          BY <1>1, <3>3, <4>1
      <3>5. Held(failed, journal'[n].rows)
        BY <2>2, <3>2, <3>3, <3>4
      <3>6. IInv'
        BY <1>3, <2>1, <2>4, <3>2, <3>3, <3>4, <3>5, InstallKeeps DEF s
      <3> QED
        BY <1>3, <2>1, <3>6 DEF s
    <2> QED
      BY <1>8, <2>3, <2>4
  <1> QED
    BY <1>5, <1>7, <1>8

(* What an envelope that is decided makes of the game. *)
Decides(g, h) ==
    /\ g.count < Cap /\ Retirable(g.prog) /\ h.count = g.count + 1
    /\ \A k \in Ordinals : k < h.count =>
         h.closed[k] = IF k = g.count THEN g.prog ELSE g.closed[k]
    /\ h.prog = NoProgram \/ (h.prog.at = "live" /\ h.prog.journal \in {"open", "failed"})

LEMMA DecidesOK ==
    ASSUME NEW g, Judged(g), NEW h, h.count = Settled(g).count, h.closed = Settled(g).closed,
           h.prog = NoProgram \/ (h.prog.at = "live" /\ h.prog.journal \in {"open", "failed"})
    PROVE  Decides(game, h)
  <1>1. Good(g) /\ g.count < Cap /\ Retirable(g.prog) /\ g.prog = game.prog
        /\ g.closed = game.closed /\ g.count = game.count
    BY DEF Judged, Arrives
  <1>2. \A k \in Ordinals : Settled(g).closed[k] = IF k = g.count THEN g.prog ELSE g.closed[k]
    BY <1>1, SettledGood
  <1>3. Settled(g).count = g.count + 1
    BY DEF Judged
  <1> QED
    BY <1>1, <1>2, <1>3 DEF Decides

LEMMA JudgeOK ==
    ASSUME IInv, NEW g, Arrives(g), NEW t, ToldOK(t), Open(g, Evidence), Due(g),
           Judge(g, Evidence, t), UNCHANGED <<envelope, director>>
    PROVE  /\ IInv' /\ Decides(game, game') /\ (saved' = saved \/ saved'.game = game')
           /\ game'.seq = g.seq
  <1> DEFINE e == Evidence
             s == Settled(g)
             env == envelope[g.count + 1]
  <1>1. Judged(g)
    BY JudgedOK DEF Open, Due
  <1>2. g.seq \in Nat /\ g.seq >= game.seq /\ g.count \in Nat /\ g.count < Cap /\ g.tseq \in Nat
        /\ game.seq \in Nat
    BY <1>1, Constants DEF Judged, Arrives, Good, Game
  <1>3. /\ e \in [Families -> 0..MaxSeq] /\ \A f \in Families : e[f] <= game.seq
    BY EvidenceOK
  <1> HIDE DEF e, s, env
  <1>4. /\ ProcKnows([proc EXCEPT !.evidence = e], g.seq) /\ ProcKnows(Down, g.seq)
    BY <1>2, ProcAtSafe DEF e
  <1>5. \/ /\ game' = s /\ told' \in Receipted(t, s)
           /\ proc' = [proc EXCEPT !.evidence = e] /\ UNCHANGED <<saved, journal>>
        \/ /\ Admissible(g, env, e)
           /\ JournalBegin(Installed(s, e[env.family]))
           /\ proc' = [proc EXCEPT !.evidence = e] /\ told' = t /\ UNCHANGED saved
        \/ /\ Admissible(g, env, e)
           /\ game' = s /\ Kept(s)
           /\ proc' = Down /\ told' = t /\ UNCHANGED journal
    BY DEF Judge, e, s, env
  <1>6. CASE /\ game' = s /\ told' \in Receipted(t, s)
             /\ proc' = [proc EXCEPT !.evidence = e] /\ UNCHANGED <<saved, journal>>
    <2>1. s \in Game /\ s.count \in Ordinals
      BY <1>1 DEF Judged, Good, s
    <2>2. ToldOK(told')
      BY <1>6, <2>1, ReceiptedOK DEF ToldOK
    <2>3. IInv'
      BY <1>1, <1>4, <1>6, <2>2, SettledKeeps DEF s
    <2>4. Decides(game, game')
      BY <1>1, <1>6, DecidesOK DEF Judged, s
    <2> QED
      BY <1>1, <1>6, <2>3, <2>4 DEF Judged, s
  <1>7. CASE /\ Admissible(g, env, e)
             /\ JournalBegin(Installed(s, e[env.family]))
             /\ proc' = [proc EXCEPT !.evidence = e] /\ told' = t /\ UNCHANGED saved
    <2>1. env.family \in Families
      <3>1. g.count + 1 \in Ordinals /\ env # NoEnvelope
        BY <1>2, Constants DEF Due, env, Ordinals
      <3> QED
        BY <3>1 DEF IInv, KnownOK, env
    <2> DEFINE origin == e[env.family]
    <2>2. origin \in 0..MaxSeq /\ origin <= g.seq
      BY <1>2, <1>3, <2>1
    <2>3. g.count > 0 => g.terminal /\ origin > g.tseq
      BY <1>7 DEF Open, Opportunity, Admissible, OriginHolds
    <2> HIDE DEF origin
    <2>4. JournalBegin(Installed(Settled(g), origin))
      BY <1>7 DEF origin, s
    <2>5. /\ IInv'
          /\ game'.count = Settled(g).count /\ game'.closed = Settled(g).closed
          /\ game'.prog.at = "live" /\ game'.prog.journal \in {"open", "failed"}
          /\ game'.seq = g.seq
      BY <1>1, <1>4, <1>7, <2>2, <2>3, <2>4, BeginKeeps
    <2>6. Decides(game, game')
      BY <1>1, <2>5, DecidesOK
    <2> QED
      BY <1>7, <2>5, <2>6
  <1>8. CASE /\ Admissible(g, env, e)
             /\ game' = s /\ Kept(s)
             /\ proc' = Down /\ told' = t /\ UNCHANGED journal
    <2>1. IInv'
      BY <1>1, <1>4, <1>8, SettledKeeps DEF s
    <2>2. Decides(game, game')
      BY <1>1, <1>8, DecidesOK DEF Judged, s
    <2>3. saved'.game = game'
      BY <1>8 DEF Kept
    <2> QED
      BY <1>1, <1>8, <2>1, <2>2, <2>3 DEF Judged, s
  <1> QED
    BY <1>5, <1>6, <1>7, <1>8

(* A step that does nothing to a program. *)
SameProgram(g, h) == h.prog = g.prog /\ h.closed = g.closed /\ h.count = g.count

LEMMA SafePointOK ==
    ASSUME IInv, SafePoint
    PROVE  /\ IInv'
           /\ \/ SameProgram(game, game') /\ saved' = saved
              \/ Decides(game, game') /\ (saved' = saved \/ saved'.game = game')
  <1>0. PICK done \in BOOLEAN :
          \E t \in Logged(Line(OnSafe(done).safe, "other", "none"), done) :
            IF done THEN NextUse(OnSafe(done), t)
            ELSE NothingDue(OnSafe(done), [proc EXCEPT !.mute = TRUE], t)
    BY DEF SafePoint, OnSafe
  <1> DEFINE g == OnSafe(done)
  <1> HIDE DEF g
  <1>1. PICK t \in Logged(Line(g.safe, "other", "none"), done) :
          IF done THEN NextUse(g, t) ELSE NothingDue(g, [proc EXCEPT !.mute = TRUE], t)
    BY <1>0 DEF g
  <1>2. /\ proc.up /\ game.safe < MaxSafe /\ UNCHANGED <<envelope, director>>
    BY DEF SafePoint
  <1>3. game.seq \in 0..MaxSeq
    BY DEF IInv, TypeOK, Game
  <1>4. game.seq < MaxSeq
    BY <1>1, <1>3, Constants DEF Logged
  <1>5. Arrives(g)
    BY <1>2, <1>4, ArrivesOK DEF g
  <1>6. ToldOK(t)
    <2>1. Line(g.safe, "other", "none") \in EventLine
      BY <1>5 DEF Arrives, Good, Game, Line, EventLine
    <2> QED
      BY <1>1, <2>1, LoggedOK DEF IInv, KnownOK, ToldOK
  <1>7. /\ ProcKnows(proc, g.seq) /\ ProcKnows([proc EXCEPT !.mute = TRUE], g.seq)
        /\ ProcKnows([proc EXCEPT !.evidence = Evidence], g.seq)
    BY <1>5, ProcAtSafe DEF Arrives
  <1>8. /\ [proc EXCEPT !.mute = TRUE].up = proc.up
        /\ [proc EXCEPT !.evidence = Evidence].up = proc.up
    BY DEF IInv, TypeOK, Process
  <1>9. \/ NothingDue(g, [proc EXCEPT !.mute = TRUE], t)
        \/ NothingDue(g, proc, t)
        \/ NothingDue(g, [proc EXCEPT !.evidence = Evidence], t)
        \/ Open(g, Evidence) /\ Due(g) /\ Judge(g, Evidence, t)
    BY <1>1 DEF NextUse
  <1>10. CASE Open(g, Evidence) /\ Due(g) /\ Judge(g, Evidence, t)
    BY <1>2, <1>5, <1>6, <1>10, JudgeOK
  <1>11. ASSUME NEW p, NothingDue(g, p, t), ProcKnows(p, g.seq), p.up = proc.up
         PROVE  IInv' /\ SameProgram(game, game') /\ saved' = saved
    <2>1. IInv'
      BY <1>2, <1>5, <1>6, <1>11, NothingDueOK
    <2> QED
      BY <1>5, <1>11, <2>1 DEF NothingDue, Arrives, SameProgram
  <1> QED
    BY <1>7, <1>8, <1>9, <1>10, <1>11

-----------------------------------------------------------------------------
(* Saves, deaths and restores *)

LEMMA CheckpointOK ==
    ASSUME IInv, Checkpoint
    PROVE  IInv'
  <1>1. Kept(game) /\ Good(game)
    BY DEF Checkpoint, IInv, TypeOK, Good
  <1>2. saved' \in [times : 0..MaxSaves, game : Game] /\ saved'.game = game /\ GameOK(saved'.game)
    BY <1>1, KeptOK
  <1>3. FilesOK'
    BY <1>2 DEF Checkpoint, files, IInv, FilesOK, HeldAll
  <1>4. TypeOK' /\ KnownOK' /\ GameOK(game)'
    BY <1>2 DEF Checkpoint, files, IInv, TypeOK, KnownOK
  <1> QED
    BY <1>2, <1>3, <1>4 DEF IInv

LEMMA SaveOK ==
    ASSUME IInv, Save
    PROVE  IInv'
  <1>1. Kept(game) /\ Good(game) /\ game.seq \in Nat
    BY Constants DEF Save, IInv, TypeOK, Good, Game
  <1>2. saved' \in [times : 0..MaxSaves, game : Game] /\ saved'.game = game /\ GameOK(saved'.game)
    BY <1>1, KeptOK
  <1>3. ProcKnows(proc', game.seq) /\ ~proc'.up
    <2>1. ProcKnows(Down, game.seq)
      BY <1>1, ProcAtSafe
    <2>2. proc' = Down /\ ~Down.up
      BY DEF Save, Down
    <2> QED
      BY <2>1, <2>2
  <1>4. FilesOK'
    BY <1>2, <1>3 DEF Save, files, IInv, FilesOK, HeldAll
  <1>5. game' = game /\ told' = told /\ journal' = journal /\ UNCHANGED <<envelope, director>>
    BY DEF Save, files
  <1>6. journal' \in [Ordinals -> File] /\ ToldOK(told')
    BY <1>5 DEF IInv, TypeOK, KnownOK, ToldOK
  <1> QED
    BY <1>1, <1>2, <1>3, <1>4, <1>5, <1>6, EngineKeeps

LEMMA CrashOK ==
    ASSUME IInv, Crash
    PROVE  IInv'
  <1>1. /\ game' = saved.game /\ proc' = Down /\ saved' = saved /\ told' = told
        /\ journal' = journal /\ UNCHANGED <<envelope, director>>
    BY DEF Crash, files
  <1>2. Good(game') /\ game'.seq \in Nat
    BY <1>1, Constants DEF IInv, TypeOK, Good, Game
  <1>3. ProcKnows(proc', game'.seq) /\ ~proc'.up
    <2>1. Unbound \in [Families -> 0..MaxSeq] /\ \A f \in Families : Unbound[f] = 0
      BY Constants DEF Unbound
    <2>2. Down \in Process /\ Down.origin = Unbound /\ Down.evidence = Unbound /\ ~Down.up
      BY <2>1 DEF Down, Process
    <2> QED
      BY <1>1, <1>2, <2>1, <2>2 DEF ProcKnows
  <1>4. FilesOK'
    BY <1>1, <1>3 DEF IInv, FilesOK, HeldAll
  <1>5. /\ journal' \in [Ordinals -> File] /\ ToldOK(told')
        /\ saved' \in [times : 0..MaxSaves, game : Game] /\ GameOK(saved'.game)
    BY <1>1 DEF IInv, TypeOK, KnownOK, ToldOK
  <1> QED
    BY <1>1, <1>2, <1>3, <1>4, <1>5, EngineKeeps

(* A restored game has the journals it left, or its program has none any more. *)
LEMMA RestoreOK ==
    ASSUME IInv, Restore
    PROVE  /\ IInv' /\ saved' = saved
           /\ \/ SameProgram(game, game')
              \/ /\ game.prog # NoProgram /\ game.count > 0 /\ game'.count = game.count
                 /\ game'.closed = game.closed
                 /\ game'.prog.at = game.prog.at /\ game'.prog.journal = "failed"
  <1>0. PICK mute \in BOOLEAN, done \in BOOLEAN :
         LET resumed == NoJournal(game) \/ (~mute /\ Resumes(game))
             g == IF resumed \/ game.prog = NoProgram THEN game ELSE JournalFailed(game)
         IN  /\ IF mute THEN ~done /\ UNCHANGED told
                        ELSE told' \in Logged(Line(game.safe, "session", "none"), done)
             /\ game' = Numbered(g, done)
             /\ proc' = [Down EXCEPT !.up = TRUE, !.mute = ~done,
                                     !.resumeFailed = ~resumed]
    BY DEF Restore
  <1> DEFINE resumed == NoJournal(game) \/ (~mute /\ Resumes(game))
             g == IF resumed \/ game.prog = NoProgram THEN game ELSE JournalFailed(game)
  <1>1. /\ IF mute THEN ~done /\ UNCHANGED told
                   ELSE told' \in Logged(Line(game.safe, "session", "none"), done)
        /\ game' = Numbered(g, done)
        /\ proc' = [Down EXCEPT !.up = TRUE, !.mute = ~done, !.resumeFailed = ~resumed]
    BY <1>0
  <1>2. UNCHANGED <<saved, envelope, journal, director>>
    BY DEF Restore
  <1>3. game \in Game /\ Good(game) /\ game.seq \in 0..MaxSeq
    BY DEF IInv, TypeOK, Good, Game
  <1>4. /\ Good(g) /\ g.seq = game.seq /\ g.count = game.count /\ g.closed = game.closed
        /\ g.prog.tip = game.prog.tip
        /\ g.prog.journal = "complete" => game.prog.journal = "complete"
        /\ g.prog.journal = "open" =>
             journal[g.count] = [there |-> TRUE, rows |-> g.prog.tip]
        /\ \/ g.prog = game.prog
           \/ /\ game.prog # NoProgram /\ game.count > 0
              /\ g.prog.at = game.prog.at /\ g.prog.journal = "failed"
    <2>1. CASE resumed
      <3>1. g = game
        BY <2>1
      <3>2. game.prog.journal = "open" => game.prog # NoProgram
        BY DEF NoProgram
      <3>3. game.prog.journal = "open" => Intact(game.count, game.prog)
        BY <2>1, <3>2 DEF NoJournal, Resumes
      <3> QED
        BY <1>3, <3>1, <3>3 DEF Intact
    <2>2. CASE ~resumed /\ game.prog = NoProgram
      <3>1. g = game /\ game.prog.journal = "none"
        BY <2>2 DEF NoProgram
      <3> QED
        BY <1>3, <3>1
    <2>3. CASE ~resumed /\ game.prog # NoProgram
      <3>1. g = WithRecord(game, game.prog.tip, "failed") /\ game.prog.tip \in Seq(JournalRow)
        BY <1>3, <2>3, RecordFails
      <3> HIDE DEF g
      <3>2. Records(g, game, game.prog.tip, "failed")
        BY <1>3, <3>1, Recorded
      <3>3. /\ g \in Game /\ g.seq = game.seq /\ g.count = game.count /\ g.closed = game.closed
            /\ g.terminal = game.terminal /\ g.tseq = game.tseq /\ g.prog.tip = game.prog.tip
            /\ g.prog.journal = "failed" /\ g.prog.at = game.prog.at
            /\ g.prog.origin = game.prog.origin
        BY <3>2 DEF Records
      <3>4. game.count > 0 /\ game.prog.at # "none"
        <4>1. game.count \in Nat
          BY <1>3, Constants DEF Game
        <4> QED
          BY <1>3, <2>3, <4>1 DEF Good, GameOK, ProgramOK
      <3>5. ProgramOK(g.prog)
        BY <3>3, <3>4 DEF ProgramOK
      <3>6. Good(g)
        BY <1>3, <2>3, <3>3, <3>4, <3>5, ProgressGood
      <3> QED
        BY <2>3, <3>3, <3>4, <3>6
    <2> QED
      BY <2>1, <2>2, <2>3
  <1> HIDE DEF g
  <1>5. done => game.seq < MaxSeq
    BY <1>1, <1>3, Constants DEF Logged
  <1>6. /\ Good(game') /\ game'.seq \in Nat /\ game'.prog = g.prog /\ game'.closed = g.closed
        /\ game'.count = g.count
    <2>1. /\ Good(Numbered(g, done))
          /\ Numbered(g, done) = [g EXCEPT !.seq = IF done THEN g.seq + 1 ELSE g.seq]
      BY <1>4, <1>5, NumberedGood
    <2>2. game' = [g EXCEPT !.seq = IF done THEN g.seq + 1 ELSE g.seq] /\ Good(game')
      BY <1>1, <2>1
    <2> QED
      BY <1>4, <2>2, Constants DEF Good, Game
  <1>7. ProcKnows(proc', game'.seq)
    <2>1. Unbound \in [Families -> 0..MaxSeq] /\ \A f \in Families : Unbound[f] = 0
      BY Constants DEF Unbound
    <2> DEFINE m == ~done
               r == ~resumed
    <2>2. m \in BOOLEAN /\ r \in BOOLEAN /\ proc' = [Down EXCEPT !.up = TRUE, !.mute = m, !.resumeFailed = r]
      BY <1>1
    <2> HIDE DEF m, r
    <2>3. proc' \in Process /\ proc'.origin = Unbound /\ proc'.evidence = Unbound
      BY <2>1, <2>2 DEF Down, Process
    <2> QED
      BY <1>6, <2>1, <2>3 DEF ProcKnows
  <1>8. ToldOK(told')
    <2>1. CASE mute
      BY <1>1, <2>1 DEF IInv, TypeOK, KnownOK, ToldOK
    <2>2. CASE ~mute
      <3>1. Line(game.safe, "session", "none") \in EventLine
        BY <1>3 DEF Game, Line, EventLine
      <3> QED
        BY <1>1, <2>2, <3>1, LoggedOK DEF IInv, KnownOK, ToldOK
    <2> QED
      BY <2>1, <2>2
  <1>9. HeldAll(game', journal)
    <2>1. HeldAll(game, journal)
      BY DEF IInv, FilesOK
    <2> QED
      BY <1>4, <1>6, <2>1 DEF HeldAll, Held
  <1>10. FilesOK'
    <2>1. HeldAll(game, journal)' /\ HeldAll(saved.game, journal)'
      BY <1>2, <1>9 DEF HeldAll, IInv, FilesOK
    <2>2. game'.prog.journal = "open" =>
            journal[game'.count] = [there |-> TRUE, rows |-> game'.prog.tip]
      BY <1>4, <1>6
    <2> QED
      BY <1>2, <2>1, <2>2 DEF IInv, FilesOK
  <1>11. /\ journal' \in [Ordinals -> File]
         /\ saved' \in [times : 0..MaxSaves, game : Game] /\ GameOK(saved'.game)
    BY <1>2 DEF IInv, TypeOK
  <1>12. IInv'
    BY <1>2, <1>6, <1>7, <1>8, <1>10, <1>11, EngineKeeps
  <1> QED
    BY <1>2, <1>4, <1>6, <1>12 DEF SameProgram

-----------------------------------------------------------------------------
(* The director *)

(* It touches nothing the engine has. *)
LEMMA DirectorKeeps ==
    ASSUME IInv, Elsewhere,
           envelope' \in [Ordinals -> Envelope],
           \A k \in Ordinals : envelope'[k] = NoEnvelope \/ envelope'[k].family \in Families,
           director' \in [ordinal : 0..Cap, choice : Envelope],
           \/ director' = Idle
           \/ director'.ordinal \in Ordinals /\ director'.choice.family \in Families
    PROVE  IInv'
  <1>1. UNCHANGED <<game, saved, proc, journal, told>>
    BY DEF Elsewhere
  <1>2. TypeOK' /\ GameOK(game)' /\ GameOK(saved.game)'
    BY <1>1 DEF IInv, TypeOK
  <1>3. FilesOK'
    BY <1>1 DEF IInv, FilesOK, HeldAll
  <1>4. KnownOK'
    BY <1>1 DEF IInv, KnownOK
  <1> QED
    BY <1>2, <1>3, <1>4 DEF IInv

LEMMA IdleOK == Idle \in [ordinal : 0..Cap, choice : Envelope]
  BY Constants DEF Idle, NoEnvelope, Envelope

LEMMA PollOK ==
    ASSUME IInv, Poll
    PROVE  IInv'
  <1> DEFINE k == Len(told.lifecycle) + 1
             lines == Len(told.events)
  <1>1. /\ k <= Cap /\ told.events[lines].safe < MaxSafe /\ Elsewhere /\ UNCHANGED envelope
        /\ \E i \in Eligible(lines, k) : director' = [ordinal |-> k, choice |-> Choice(i)]
    BY DEF Poll
  <1>2. told \in Told /\ RowsKnown(told)
    BY DEF IInv, TypeOK, KnownOK
  <1>3. Len(told.lifecycle) \in Nat /\ told.events \in Seq(EventLine) /\ told.schedule \subseteq 1..MaxSeq
    <2>1. told.lifecycle \in Seq([ordinal : Ordinals, tseq : 0..MaxSeq])
      BY <1>2 DEF Told
    <2> QED
      BY <1>2, <2>1, LenProperties DEF Told
  <1>4. k \in Ordinals
    BY <1>1, <1>3, Constants DEF Ordinals
  <1> HIDE DEF k
  <1>5. PICK i \in Eligible(lines, k) : director' = [ordinal |-> k, choice |-> Choice(i)]
    BY <1>1
  <1>6. i \in told.schedule /\ told.events[i].safe = told.events[lines].safe
    BY <1>5 DEF Eligible, Candidates
  <1>7. i \in DOMAIN told.events /\ told.events[i].family \in Families /\ i \in 1..MaxSeq
    BY <1>2, <1>3, <1>6 DEF RowsKnown
  <1>8. told.events[i].safe \in Nat /\ told.events[i].safe + 1 \in 0..MaxSafe
    <2>1. told.events[i] \in EventLine
      BY <1>3, <1>7
    <2>2. told.events[i].safe \in Nat
      BY <2>1, Constants DEF EventLine
    <2> QED
      BY <1>1, <1>6, <2>2, Constants
  <1>9. Choice(i) \in Envelope /\ Choice(i).family \in Families
    BY <1>7, <1>8 DEF Choice, Envelope
  <1>10. /\ director' \in [ordinal : 0..Cap, choice : Envelope]
         /\ director'.ordinal \in Ordinals /\ director'.choice.family \in Families
    BY <1>4, <1>5, <1>9, Constants DEF Ordinals
  <1>11. /\ envelope' \in [Ordinals -> Envelope]
         /\ \A j \in Ordinals : envelope'[j] = NoEnvelope \/ envelope'[j].family \in Families
    BY <1>1 DEF IInv, TypeOK, KnownOK
  <1> QED
    BY <1>1, <1>10, <1>11, DirectorKeeps

LEMMA PublishOK ==
    ASSUME IInv, Publish
    PROVE  IInv'
  <1>1. /\ director # Idle /\ director' = Idle /\ Elsewhere
        /\ envelope' = [envelope EXCEPT ![director.ordinal] = director.choice]
    BY DEF Publish
  <1>2. /\ director.ordinal \in Ordinals /\ director.choice.family \in Families
        /\ director.choice \in Envelope /\ envelope \in [Ordinals -> Envelope]
    BY <1>1 DEF IInv, TypeOK, KnownOK
  <1>3. envelope' \in [Ordinals -> Envelope]
        /\ \A k \in Ordinals :
             envelope'[k] = IF k = director.ordinal THEN director.choice ELSE envelope[k]
    BY <1>1, <1>2
  <1>4. \A k \in Ordinals : envelope'[k] = NoEnvelope \/ envelope'[k].family \in Families
    BY <1>2, <1>3 DEF IInv, KnownOK
  <1> QED
    BY <1>1, <1>3, <1>4, IdleOK, DirectorKeeps

LEMMA GivesUpOK ==
    ASSUME IInv, GivesUp
    PROVE  IInv'
  <1>1. director' = Idle /\ Elsewhere /\ UNCHANGED envelope
    BY DEF GivesUp
  <1>2. /\ envelope' \in [Ordinals -> Envelope]
        /\ \A j \in Ordinals : envelope'[j] = NoEnvelope \/ envelope'[j].family \in Families
    BY <1>1 DEF IInv, TypeOK, KnownOK
  <1> QED
    BY <1>1, <1>2, IdleOK, DirectorKeeps

-----------------------------------------------------------------------------
(* The theorems *)

LEMMA InitOK ==
    ASSUME Init
    PROVE  IInv
  <1> DEFINE line == Line(0, "session", "none")
             log == <<line>>
  <1>1. line \in EventLine
    BY Constants DEF Line, EventLine
  <1>2. log \in Seq(EventLine) /\ Len(log) = 1
    <2> HIDE DEF line
    <2> QED
      BY <1>1
  <1>3. NoProgram \in Program /\ ProgramOK(NoProgram) /\ NoProgram.origin = 0
        /\ NoProgram.journal = "none" /\ NoProgram.at = "none"
    BY NoProgramOK DEF NoProgram
  <1> DEFINE c == [k \in Ordinals |-> NoProgram]
  <1>4. c \in [Ordinals -> Program] /\ \A k \in Ordinals : c[k] = NoProgram
    BY <1>3
  <1> HIDE DEF c, log, line
  <1>5. /\ game = [seq |-> 1, safe |-> 0, count |-> 0, terminal |-> FALSE, tseq |-> 0,
                   prog |-> NoProgram, closed |-> c]
        /\ saved = [times |-> 0, game |-> game]
    BY DEF Init, c
  <1>6. game \in Game
    BY <1>3, <1>4, <1>5, Constants DEF Game
  <1>7. GameOK(game)
    BY <1>3, <1>4, <1>5 DEF GameOK
  <1>8. saved \in [times : 0..MaxSaves, game : Game] /\ GameOK(saved.game) /\ saved.game = game
    BY <1>5, <1>6, <1>7, Constants
  <1>9. Unbound \in [Families -> 0..MaxSeq] /\ \A f \in Families : Unbound[f] = 0
    BY Constants DEF Unbound
  <1>10. proc \in Process /\ \A f \in Families : proc.origin[f] <= game.seq /\ proc.evidence[f] <= game.seq
    <2>1. proc = [Down EXCEPT !.up = TRUE]
      BY DEF Init
    <2>2. proc \in Process /\ proc.origin = Unbound /\ proc.evidence = Unbound
      BY <1>9, <2>1 DEF Down, Process
    <2> QED
      BY <1>5, <1>9, <2>2
  <1>11. told \in Told /\ Len(told.events) <= MaxSeq /\ RowsKnown(told)
    <2>1. told = [Spoilt EXCEPT !.events = log]
      BY DEF Init, log, line
    <2>2. told \in Told /\ told.events = log /\ told.schedule = {}
      BY <1>2, <2>1, SpoiltOK DEF Told, Spoilt
    <2> QED
      BY <1>2, <2>2, Constants DEF RowsKnown
  <1>12. /\ envelope \in [Ordinals -> Envelope] /\ \A k \in Ordinals : envelope[k] = NoEnvelope
    <2>1. NoEnvelope \in Envelope
      BY Constants DEF NoEnvelope, Envelope
    <2> QED
      BY <2>1 DEF Init
  <1>13. /\ journal \in [Ordinals -> File]
         /\ \A k \in Ordinals : journal[k].rows = <<>> /\ IsHistory(journal[k].rows)
    <2>1. <<>> \in Seq(JournalRow) /\ IsHistory(<<>>)
      <3> DEFINE e == <<>>
      <3>1. e \in Seq(JournalRow) /\ e \o <<>> = e
        BY EmptySeq, ConcatEmptySeq
      <3>2. e = <<>> \/ OpenTip(e) \/ EndedTip(e)
        OBVIOUS
      <3> HIDE DEF e
      <3>3. IsHistory(e \o <<>>)
        BY <3>1, <3>2, WholeIsHistory
      <3> QED
        BY <3>1, <3>3 DEF e
    <2>2. NoFile \in File /\ NoFile.rows = <<>>
      BY <2>1 DEF NoFile, File
    <2>3. journal = [k \in Ordinals |-> NoFile]
      BY DEF Init
    <2> QED
      BY <2>1, <2>2, <2>3
  <1>14. director = Idle
    BY DEF Init
  <1>15. TypeOK
    BY <1>6, <1>8, <1>10, <1>11, <1>12, <1>13, <1>14, IdleOK DEF TypeOK
  <1>16. FilesOK
    <2>1. game.count = 0 /\ game.prog = NoProgram
      BY <1>5
    <2>2. HeldAll(game, journal)
      BY <2>1, Constants DEF HeldAll, Ordinals
    <2> QED
      BY <1>3, <1>8, <1>13, <2>1, <2>2 DEF FilesOK
  <1>17. KnownOK
    BY <1>10, <1>11, <1>12, <1>14 DEF KnownOK
  <1> QED
    BY <1>7, <1>8, <1>15, <1>16, <1>17 DEF IInv

LEMMA StutterOK ==
    ASSUME IInv, UNCHANGED vars
    PROVE  IInv'
  <1>1. UNCHANGED <<game, saved, proc, envelope, journal, told, director>>
    BY DEF vars, files
  <1>2. TypeOK' /\ GameOK(game)' /\ GameOK(saved.game)' /\ KnownOK'
    BY <1>1 DEF IInv, TypeOK, KnownOK
  <1>3. FilesOK'
    BY <1>1 DEF IInv, FilesOK, HeldAll
  <1> QED
    BY <1>2, <1>3 DEF IInv

(* Whatever fails, is lost or restored, the games, the files and what the
   process and the director know agree as IInv says.                      *)
THEOREM InductiveInvariant == Spec => []IInv
  <1>1. Init => IInv
    BY InitOK
  <1>2. IInv /\ [Next]_vars => IInv'
    <2>1. SUFFICES ASSUME IInv, [Next]_vars PROVE IInv'
      OBVIOUS
    <2>2. CASE \E f \in Families : UseEnds(f) \/ UseBreaksOff(f)
      BY <2>1, <2>2, UseEndsOK, UseBreaksOffOK
    <2>3. CASE \E final \in BOOLEAN : Step(final)
      BY <2>1, <2>3, StepOK
    <2>4. CASE SafePoint
      BY <2>1, <2>4, SafePointOK
    <2>5. CASE Checkpoint
      BY <2>1, <2>5, CheckpointOK
    <2>6. CASE Save
      BY <2>1, <2>6, SaveOK
    <2>7. CASE Crash
      BY <2>1, <2>7, CrashOK
    <2>8. CASE Restore
      BY <2>1, <2>8, RestoreOK
    <2>9. CASE Poll
      BY <2>1, <2>9, PollOK
    <2>10. CASE Publish
      BY <2>1, <2>10, PublishOK
    <2>11. CASE GivesUp
      BY <2>1, <2>11, GivesUpOK
    <2>12. CASE UNCHANGED vars
      BY <2>1, <2>12, StutterOK
    <2> QED
      BY <2>1, <2>2, <2>3, <2>4, <2>5, <2>6, <2>7, <2>8, <2>9, <2>10, <2>11, <2>12 DEF Next
  <1> QED
    BY <1>1, <1>2, PTL DEF Spec

(* The types of the state, of the whole system of engine, files and director. *)
THEOREM TypeCorrect == Spec => []TypeOK
  <1>1. IInv => TypeOK
    BY DEF IInv
  <1> QED
    BY <1>1, InductiveInvariant, PTL

(* "Its event sequence fences the next origin": a later program of the game is
   always about a later use.                                                    *)
THEOREM OriginsOrdered == Spec => []OriginsInOrder
  <1>1. IInv => OriginsInOrder
    <2>1. SUFFICES ASSUME IInv, NEW kp \in Programs(game), NEW jp \in Programs(game),
                          kp[1] < jp[1], kp[2] # NoProgram, jp[2] # NoProgram
                   PROVE  kp[2].origin < jp[2].origin
      BY DEF OriginsInOrder
    <2>2. GameOK(game) /\ game.count \in 0..Cap
      BY <2>1 DEF IInv, TypeOK, Game
    <2>3. ASSUME NEW p \in Programs(game)
          PROVE  \/ \E k \in 1..(game.count - 1) : p[1] = k /\ p[2] = game.closed[k]
                 \/ game.count > 0 /\ p[1] = game.count /\ p[2] = game.prog
      BY <2>2, <2>3, Constants DEF Programs
    <2>4. \A k \in 1..(game.count - 1) : k \in Ordinals
      BY <2>2, Constants DEF Ordinals
    <2>5. PICK k \in 1..(game.count - 1) : kp[1] = k /\ kp[2] = game.closed[k]
      <3>1. CASE game.count > 0 /\ kp[1] = game.count /\ kp[2] = game.prog
        BY <2>1, <2>2, <2>3, <3>1, Constants
      <3> QED
        BY <2>1, <2>3, <3>1
    <2>6. CASE \E j \in 1..(game.count - 1) : jp[1] = j /\ jp[2] = game.closed[j]
      BY <2>1, <2>2, <2>4, <2>5, <2>6 DEF GameOK
    <2>7. CASE game.count > 0 /\ jp[1] = game.count /\ jp[2] = game.prog
      BY <2>1, <2>2, <2>4, <2>5, <2>7 DEF GameOK
    <2> QED
      BY <2>1, <2>3, <2>6, <2>7
  <1> QED
    BY <1>1, InductiveInvariant, PTL

LEMMA BeginsIsPrefix ==
    ASSUME NEW s \in Seq(JournalRow), NEW t \in Seq(JournalRow), Begins(s, t)
    PROVE  IsPrefix(s, t)
  <1>1. Len(s) \in Nat /\ Len(t) \in Nat /\ Len(s) <= Len(t)
    BY LenProperties DEF Begins
  <1>2. SubSeq(s, 1, Len(s)) = s
    BY SubSeqFull
  <1>3. /\ SubSeq(t, 1, Len(s)) \in Seq(JournalRow) /\ Len(SubSeq(t, 1, Len(s))) = Len(s)
        /\ \A i \in 1..Len(s) : SubSeq(t, 1, Len(s))[i] = t[i]
    <2>1. \A i \in 1..Len(s) : t[i] \in JournalRow
      BY <1>1, ElementOfSeq
    <2> QED
      BY <1>1, <2>1, SubSeqProperties
  <1> DEFINE u == SubSeq(t, 1, Len(s))
  <1>4. \A i \in 1..Len(s) : s[i] = u[i]
    BY <1>3 DEF Begins
  <1> HIDE DEF u
  <1>5. s = u
    BY <1>3, <1>4, SeqEqual DEF u
  <1> QED
    BY <1>1, <1>2, <1>5 DEF IsPrefix, u

(* "Append-only, never overwrite or delete the original prefix", through every
   failure, death and restore.                                                 *)
THEOREM JournalsKept == Spec => []JournalsAreHistories
  <1>1. IInv => JournalsAreHistories
    <2>1. SUFFICES ASSUME IInv PROVE JournalsAreHistories
      OBVIOUS
    <2>2. \A k \in Ordinals : IsHistory(journal[k].rows)
      BY <2>1 DEF IInv, FilesOK
    <2>3. ASSUME NEW g \in {game, saved.game}, NEW kp \in Programs(g)
          PROVE  /\ IsPrefix(kp[2].tip, journal[kp[1]].rows)
                 /\ kp[2].journal = "complete" => journal[kp[1]].rows = kp[2].tip
      <3>1. g \in Game /\ HeldAll(g, journal) /\ journal \in [Ordinals -> File]
        BY <2>1, <2>3 DEF IInv, TypeOK, FilesOK
      <3>2. g.count \in 0..Cap /\ g.prog \in Program /\ \A k \in Ordinals : g.closed[k] \in Program
        BY <3>1 DEF Game
      <3>3. \/ \E k \in 1..(g.count - 1) : kp[1] = k /\ kp[2] = g.closed[k]
            \/ g.count > 0 /\ kp[1] = g.count /\ kp[2] = g.prog
        BY <2>3, <3>2, Constants DEF Programs
      <3>4. kp[1] \in Ordinals /\ kp[2] \in Program /\ Held(kp[2], journal[kp[1]].rows)
        <4>1. \A k \in 1..(g.count - 1) : k \in Ordinals /\ k < g.count
          BY <3>2, Constants DEF Ordinals
        <4>2. g.count > 0 => g.count \in Ordinals
          BY <3>2, Constants DEF Ordinals
        <4> QED
          BY <3>1, <3>2, <3>3, <4>1, <4>2 DEF HeldAll
      <3>5. kp[2].tip \in Seq(JournalRow) /\ journal[kp[1]].rows \in Seq(JournalRow)
        BY <3>1, <3>4 DEF Program, File
      <3> QED
        BY <3>4, <3>5, BeginsIsPrefix DEF Held
    <2> QED
      BY <2>2, <2>3 DEF JournalsAreHistories
  <1> QED
    BY <1>1, InductiveInvariant, PTL

-----------------------------------------------------------------------------
(* The attempts of a game implement ChaosAttempts *)

Fates == {"refused", "running", "closed", "lost"}

Decided(g, k) == IF k < g.count THEN g.closed[k] ELSE g.prog

LEMMA AttemptsOK ==
    ASSUME NEW g, g.count \in Nat
    PROVE  /\ Attempts(g) \in Seq(Fates) /\ Len(Attempts(g)) = g.count
           /\ \A k \in 1..g.count : Attempts(g)[k] = Fate(Decided(g, k))
  <1> DEFINE a == Attempts(g)
             n == g.count
  <1>1. \A p : Fate(p) \in Fates
    BY DEF Fate, Fates
  <1>2. a \in [1..n -> Fates] /\ \A k \in 1..n : a[k] = Fate(Decided(g, k))
    BY <1>1 DEF Attempts, Decided
  <1> HIDE DEF a, n
  <1>3. a \in Seq(Fates)
    BY <1>2, SeqDef DEF n
  <1>4. Len(a) \in Nat /\ DOMAIN a = 1..Len(a)
    BY <1>3, LenProperties
  <1>5. Len(a) = n
    <2>1. n \in Nat /\ 1..Len(a) = 1..n
      BY <1>2, <1>4 DEF n
    <2>2. ASSUME NEW i \in Nat, NEW j \in Nat, 1..i = 1..j PROVE i = j
      <3>1. i <= j
        BY <2>2
      <3>2. j <= i
        BY <2>2
      <3> QED
        BY <3>1, <3>2
    <2> QED
      BY <1>4, <2>1, <2>2
  <1> QED
    BY <1>2, <1>3, <1>5 DEF a, n

LEMMA AttemptsSame ==
    ASSUME NEW g, NEW h, g.count \in Nat, h.count = g.count,
           \A k \in 1..g.count : Fate(Decided(h, k)) = Fate(Decided(g, k))
    PROVE  Attempts(h) = Attempts(g)
  <1> DEFINE a == Attempts(g)
             b == Attempts(h)
  <1>1. /\ a \in Seq(Fates) /\ Len(a) = g.count /\ b \in Seq(Fates) /\ Len(b) = g.count
        /\ \A k \in 1..g.count : a[k] = Fate(Decided(g, k)) /\ b[k] = Fate(Decided(h, k))
    BY AttemptsOK
  <1>2. \A k \in 1..Len(b) : b[k] = a[k]
    BY <1>1
  <1> HIDE DEF a, b
  <1>3. b = a
    BY <1>1, <1>2, SeqEqual
  <1> QED
    BY <1>3 DEF a, b

(* One more attempt. *)
LEMMA AttemptsMore ==
    ASSUME NEW g, NEW h, g.count \in Nat, h.count = g.count + 1,
           \A k \in 1..g.count : h.closed[k] = Decided(g, k)
    PROVE  Attempts(h) = Append(Attempts(g), Fate(h.prog))
  <1> DEFINE a == Attempts(g)
             b == Attempts(h)
             c == Append(a, Fate(h.prog))
  <1>1. /\ a \in Seq(Fates) /\ Len(a) = g.count /\ b \in Seq(Fates) /\ Len(b) = g.count + 1
        /\ \A k \in 1..g.count : a[k] = Fate(Decided(g, k))
        /\ \A k \in 1..g.count + 1 : b[k] = Fate(Decided(h, k))
    BY AttemptsOK
  <1>2. Fate(h.prog) \in Fates
    BY DEF Fate, Fates
  <1> HIDE DEF a, b
  <1>3. /\ c \in Seq(Fates) /\ Len(c) = g.count + 1 /\ c[g.count + 1] = Fate(h.prog)
        /\ \A k \in 1..g.count : c[k] = a[k]
    BY <1>1, <1>2, AppendProperties
  <1>4. \A k \in 1..g.count + 1 : b[k] = c[k]
    <2>1. ASSUME NEW k \in 1..g.count PROVE b[k] = c[k]
      <3>1. k \in 1..g.count + 1 /\ Decided(h, k) = Decided(g, k)
        BY <2>1 DEF Decided
      <3> QED
        BY <1>1, <1>3, <3>1
    <2>2. b[g.count + 1] = c[g.count + 1]
      BY <1>1, <1>3 DEF Decided
    <2>3. \A k \in 1..g.count + 1 : k \in 1..g.count \/ k = g.count + 1
      OBVIOUS
    <2> QED
      BY <2>1, <2>2, <2>3
  <1> HIDE DEF c
  <1>5. b = c
    BY <1>1, <1>3, <1>4, SeqEqual
  <1> QED
    BY <1>5 DEF a, b, c

(* The last attempt becomes something else. *)
LEMMA AttemptsLast ==
    ASSUME NEW g, NEW h, g.count \in Nat, g.count > 0, h.count = g.count, h.closed = g.closed
    PROVE  /\ Attempts(h) = [Attempts(g) EXCEPT ![Len(Attempts(g))] = Fate(h.prog)]
           /\ Attempts(g) # <<>> /\ Attempts(g)[Len(Attempts(g))] = Fate(g.prog)
  <1> DEFINE a == Attempts(g)
             b == Attempts(h)
             n == g.count
             c == [a EXCEPT ![n] = Fate(h.prog)]
  <1>1. /\ a \in Seq(Fates) /\ Len(a) = n /\ b \in Seq(Fates) /\ Len(b) = n
        /\ \A k \in 1..n : a[k] = Fate(Decided(g, k)) /\ b[k] = Fate(Decided(h, k))
    BY AttemptsOK
  <1>2. Fate(h.prog) \in Fates /\ n \in 1..n
    BY DEF Fate, Fates
  <1> HIDE DEF a, b
  <1>3. /\ c \in Seq(Fates) /\ Len(c) = n
        /\ \A k \in 1..n : c[k] = IF k = n THEN Fate(h.prog) ELSE a[k]
    <2>1. n \in 1..Len(a)
      BY <1>1, <1>2
    <2> HIDE DEF n
    <2> QED
      BY <1>1, <1>2, <2>1, ExceptSeq
  <1>4. \A k \in 1..n : b[k] = c[k]
    BY <1>1, <1>3 DEF Decided
  <1> HIDE DEF c
  <1>5. b = c
    BY <1>1, <1>3, <1>4, SeqEqual
  <1>6. a # <<>> /\ a[n] = Fate(g.prog)
    BY <1>1, <1>2, EmptySeq DEF Decided
  <1> QED
    BY <1>1, <1>5, <1>6 DEF a, b, c

LEMMA Primes ==
    Attempts(game)' = Attempts(game') /\ Attempts(saved.game)' = Attempts(saved'.game)
  BY DEF Attempts, Fate

(* What a program is called by what its state says. *)
LEMMA FateOf ==
    /\ Fate(NoProgram) = "refused"
    /\ \A p : p # NoProgram =>
         /\ p.journal = "failed" => Fate(p) = "lost"
         /\ p.journal = "open" /\ p.at = "live" => Fate(p) = "running"
         /\ p.journal = "complete" /\ p.at = "ended" => Fate(p) = "closed"
  BY DEF Fate

LEMMA StaysAbstract ==
    ASSUME IInv, SameProgram(game, game'), saved' = saved
    PROVE  Attempts(game') = Attempts(game) /\ Attempts(saved'.game) = Attempts(saved.game)
  <1>1. game.count \in Nat
    BY Constants DEF IInv, TypeOK, Game
  <1>2. \A k \in 1..game.count : Decided(game', k) = Decided(game, k)
    BY DEF SameProgram, Decided
  <1>3. Attempts(game') = Attempts(game)
    BY <1>1, <1>2, AttemptsSame DEF SameProgram
  <1> QED
    BY <1>3

LEMMA DecideAbstract ==
    ASSUME IInv, Decides(game, game'), saved' = saved \/ saved'.game = game'
    PROVE  Abstract!Decide
  <1> DEFINE a == Attempts(game)
             b == Attempts(game')
             c == Attempts(saved.game)
             d == Attempts(saved'.game)
  <1>1. GameOK(game)
    BY DEF IInv
  <1>2. game.count < Cap /\ game.count \in Nat
    BY Constants DEF IInv, TypeOK, Game, Decides
  <1>3. Len(a) = game.count /\ (game.count = 0 => a = <<>>)
    <2>1. a \in Seq(Fates) /\ Len(a) = game.count
      BY <1>2, AttemptsOK
    <2> HIDE DEF a
    <2> QED
      BY <1>2, <2>1, EmptySeq
  <1>4. a # <<>> => a[Len(a)] \in {"refused", "closed"}
    <2>1. SUFFICES ASSUME game.count > 0 PROVE a[Len(a)] \in {"refused", "closed"}
      BY <1>2, <1>3
    <2>2. a[Len(a)] = Fate(game.prog)
      BY <1>2, <2>1, AttemptsLast
    <2>3. game.prog = NoProgram \/ (game.prog # NoProgram /\ game.prog.at = "ended" /\ game.prog.journal = "complete")
      BY <1>1 DEF Decides, Retirable, GameOK, ProgramOK
    <2> QED
      BY <2>2, <2>3, FateOf
  <1>5. b = Append(a, Fate(game'.prog))
    <2>1. \A k \in 1..game.count : game'.closed[k] = Decided(game, k)
      <3>1. \A k \in 1..game.count : k \in Ordinals /\ k < game'.count
        BY <1>2, Constants DEF Decides, Ordinals
      <3>2. \A k \in 1..game.count : k = game.count \/ k < game.count
        BY <1>2
      <3> QED
        BY <3>1, <3>2, <1>2 DEF Decides, Decided
    <2> QED
      BY <1>2, <2>1, AttemptsMore DEF Decides
  <1>6. Fate(game'.prog) \in {"refused", "running", "lost"}
    <2>1. game'.prog.at = "live" => game'.prog # NoProgram
      BY DEF NoProgram
    <2> QED
      BY <2>1, FateOf DEF Decides
  <1>7. d = c \/ d = b
    OBVIOUS
  <1>8. Attempts(game)' = b /\ Attempts(saved.game)' = d
    BY Primes
  <1> HIDE DEF a, b, c, d
  <1>9. /\ Len(a) < Cap
        /\ a # <<>> => a[Len(a)] \in {"refused", "closed"}
        /\ \E fate \in {"refused", "running", "lost"} : b = Append(a, fate)
        /\ d \in {c, b}
    BY <1>2, <1>3, <1>4, <1>5, <1>6, <1>7
  <1> QED
    BY <1>8, <1>9 DEF Abstract!Decide, Abstract!Latest, a, b, c, d

LEMMA FinishAbstract ==
    ASSUME IInv, Advances(game, game'), saved' = saved
    PROVE  Abstract!Finish \/ (Attempts(game)' = Attempts(game) /\ Attempts(saved.game)' = Attempts(saved.game))
  <1> DEFINE a == Attempts(game)
             b == Attempts(game')
             c == Attempts(saved.game)
  <1>1. game.count \in Nat /\ game.count > 0
    BY Constants DEF IInv, TypeOK, Game, Advances
  <1>2. /\ b = [a EXCEPT ![Len(a)] = Fate(game'.prog)]
        /\ a # <<>> /\ a[Len(a)] = Fate(game.prog)
    BY <1>1, AttemptsLast DEF Advances
  <1>3. game'.prog # NoProgram /\ game.prog # NoProgram
    BY DEF Advances, NoProgram
  <1>4. Attempts(game)' = b /\ Attempts(saved.game)' = c
    BY Primes
  <1>5. game.prog.journal = "open" => game.prog.at = "live"
    BY DEF IInv, GameOK, ProgramOK
  <1>6. CASE Fate(game'.prog) = Fate(game.prog)
    <2>1. \A k \in 1..game.count : Fate(Decided(game', k)) = Fate(Decided(game, k))
      BY <1>6 DEF Decided, Advances
    <2>2. b = a
      BY <1>1, <2>1, AttemptsSame DEF Advances
    <2> QED
      BY <1>4, <2>2
  <1>7. CASE Fate(game'.prog) # Fate(game.prog)
    <2>1. Fate(game.prog) = "running" /\ Fate(game'.prog) \in {"closed", "lost"}
      BY <1>3, <1>5, <1>7, FateOf DEF Advances
    <2> HIDE DEF a, b, c
    <2>2. /\ a # <<>> /\ a[Len(a)] = "running"
          /\ \E fate \in {"closed", "lost"} : b = [a EXCEPT ![Len(a)] = fate]
      BY <1>2, <2>1
    <2> QED
      BY <1>4, <2>2 DEF Abstract!Finish, Abstract!Latest, Abstract!Becomes, a, b, c
  <1> QED
    BY <1>6, <1>7

LEMMA DisownAbstract ==
    ASSUME IInv, saved' = saved, game.prog # NoProgram, game.count > 0, game'.count = game.count,
           game'.closed = game.closed, game'.prog.at = game.prog.at, game'.prog.journal = "failed"
    PROVE  Abstract!Disown \/ (Attempts(game)' = Attempts(game) /\ Attempts(saved.game)' = Attempts(saved.game))
  <1> DEFINE a == Attempts(game)
             b == Attempts(game')
             c == Attempts(saved.game)
  <1>1. game.count \in Nat /\ game.count > 0
    BY Constants DEF IInv, TypeOK, Game
  <1>2. /\ b = [a EXCEPT ![Len(a)] = Fate(game'.prog)]
        /\ a # <<>> /\ a[Len(a)] = Fate(game.prog)
    BY <1>1, AttemptsLast
  <1>3. Fate(game'.prog) = "lost"
    <2>1. game'.prog # NoProgram
      BY DEF NoProgram
    <2> QED
      BY <2>1, FateOf
  <1>4. Attempts(game)' = b /\ Attempts(saved.game)' = c
    BY Primes
  <1>5. Fate(game.prog) \in {"running", "closed", "lost"}
    BY DEF Fate
  <1>6. CASE Fate(game.prog) = "lost"
    <2>1. \A k \in 1..game.count : Fate(Decided(game', k)) = Fate(Decided(game, k))
      BY <1>3, <1>6 DEF Decided
    <2>2. b = a
      BY <1>1, <2>1, AttemptsSame
    <2> QED
      BY <1>4, <2>2
  <1>7. CASE Fate(game.prog) # "lost"
    <2> HIDE DEF a, b, c
    <2>1. /\ a # <<>> /\ a[Len(a)] \in {"running", "closed"}
          /\ b = [a EXCEPT ![Len(a)] = "lost"]
      BY <1>2, <1>3, <1>5, <1>7
    <2> QED
      BY <1>4, <2>1 DEF Abstract!Disown, Abstract!Latest, Abstract!Becomes, a, b, c
  <1> QED
    BY <1>6, <1>7

(* The programs of a game are decided one after the other, as ChaosAttempts
   promises, whatever fails in between and however often the game is restored. *)
THEOREM ImplementsAttempts == Spec => ProgramsInTurn
  <1>1. Init => Abstract!Init
    <2>1. SUFFICES ASSUME Init PROVE Abstract!Init
      OBVIOUS
    <2>2. game.count = 0 /\ saved.game = game
      BY <2>1 DEF Init
    <2> DEFINE a == Attempts(game)
    <2>3. a \in Seq(Fates) /\ Len(a) = 0
      BY <2>2, AttemptsOK
    <2>4. a = <<>>
      <3> HIDE DEF a
      <3> QED
        BY <2>3, EmptySeq
    <2> QED
      BY <2>2, <2>4 DEF Abstract!Init
  <1>2. IInv /\ [Next]_vars => [Abstract!Next]_(Abstract!vars)
    <2>1. SUFFICES ASSUME IInv, [Next]_vars
                   PROVE  Abstract!Next \/ UNCHANGED <<Attempts(game), Attempts(saved.game)>>
      BY DEF Abstract!vars
    <2>2. ASSUME SameProgram(game, game'), saved' = saved
          PROVE  UNCHANGED <<Attempts(game), Attempts(saved.game)>>
      BY <2>1, <2>2, StaysAbstract, Primes
    <2>3. CASE \E f \in Families : UseEnds(f) \/ UseBreaksOff(f)
      <3>1. PICK f \in Families : UseEnds(f) \/ UseBreaksOff(f)
        BY <2>3
      <3>2. PICK done \in BOOLEAN : /\ game' = Numbered(game, done)
                                    /\ done => game.seq < MaxSeq
        <4>1. game.seq \in 0..MaxSeq
          BY <2>1 DEF IInv, TypeOK, Game
        <4>2. \A line, done : Logged(line, done) # {} /\ done => game.seq < MaxSeq
          BY <4>1, Constants DEF Logged
        <4>3. CASE UseEnds(f)
          <5>1. PICK done \in BOOLEAN :
                   \E t \in Logged(Line(game.safe, "end", f), done) :
                      game' = Numbered(game, done)
            BY <4>3 DEF UseEnds
          <5> QED
            BY <5>1, <4>2
        <4>4. CASE UseBreaksOff(f)
          <5>1. PICK done \in BOOLEAN :
                   /\ told' \in Logged(Line(game.safe, "notice", f), done)
                   /\ game' = Numbered(game, done)
            BY <4>4 DEF UseBreaksOff
          <5> QED
            BY <5>1, <4>2
        <4> QED
          BY <3>1, <4>3, <4>4
      <3>3. SameProgram(game, game')
        BY <2>1, <3>2, NumberedType DEF IInv, SameProgram
      <3>4. saved' = saved
        BY <3>1 DEF UseEnds, UseBreaksOff
      <3> QED
        BY <2>2, <3>3, <3>4
    <2>4. CASE \E final \in BOOLEAN : Step(final)
      <3>1. PICK final \in BOOLEAN : Step(final)
        BY <2>4
      <3>2. Advances(game, game') /\ saved' = saved
        BY <2>1, <3>1, StepOK DEF Step
      <3> QED
        BY <2>1, <3>2, FinishAbstract DEF Abstract!Next
    <2>5. CASE SafePoint
      <3>1. CASE SameProgram(game, game') /\ saved' = saved
        BY <2>2, <3>1
      <3>2. CASE Decides(game, game') /\ (saved' = saved \/ saved'.game = game')
        BY <2>1, <3>2, DecideAbstract DEF Abstract!Next
      <3> QED
        BY <2>1, <2>5, <3>1, <3>2, SafePointOK
    <2>6. CASE Checkpoint \/ Save
      <3>1. game' = game /\ saved'.game = game
        BY <2>6 DEF Checkpoint, Save, Kept
      <3>2. Attempts(game)' = Attempts(game) /\ Attempts(saved.game)' = Attempts(game)
        BY <3>1, Primes
      <3> QED
        BY <3>2 DEF Abstract!Next, Abstract!Keep
    <2>7. CASE Crash
      <3>1. game' = saved.game /\ saved' = saved
        BY <2>7 DEF Crash
      <3>2. Attempts(game)' = Attempts(saved.game) /\ Attempts(saved.game)' = Attempts(saved.game)
        BY <3>1, Primes
      <3> QED
        BY <3>2 DEF Abstract!Next, Abstract!GoBack
    <2>8. CASE Restore
      <3>1. /\ saved' = saved
            /\ \/ SameProgram(game, game')
               \/ /\ game.prog # NoProgram /\ game.count > 0 /\ game'.count = game.count
                  /\ game'.closed = game.closed
                  /\ game'.prog.at = game.prog.at /\ game'.prog.journal = "failed"
        BY <2>1, <2>8, RestoreOK
      <3> QED
        BY <2>1, <2>2, <3>1, DisownAbstract DEF Abstract!Next
    <2>9. CASE Poll \/ Publish \/ GivesUp \/ UNCHANGED vars
      <3>1. game' = game /\ saved' = saved
        BY <2>9 DEF Poll, Publish, GivesUp, Elsewhere, vars
      <3> QED
        BY <2>2, <3>1 DEF SameProgram
    <2> QED
      BY <2>1, <2>3, <2>4, <2>5, <2>6, <2>7, <2>8, <2>9 DEF Next
  <1> QED
    BY <1>1, <1>2, InductiveInvariant, PTL DEF Spec, ProgramsInTurn, Abstract!Spec

=============================================================================
