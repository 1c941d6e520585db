------------------------- MODULE ChaosHaunt_proofs -------------------------
(* Proofs about ChaosHaunt: types, that a hound is one that was tried, and that the
   first event about the candidate names the look it can be found by again.         *)
EXTENDS ChaosHaunt, TLAPS

Look == [at : Window, fresh : BOOLEAN]
Engine == [game : Game, proc : Process, log : Log, look : Look]

(* the one trial was passed, and all of its evidence is written *)
Tried ==
    /\ trials = 1 /\ trial.child = "gone" /\ trial.status = "clean"
    /\ trial.boxed /\ trial.report = "passed"
    /\ used = "whole" /\ receipt = "passed" /\ log.preAdmitted

Haunted(g) == g.active \/ g.charged > 0

OneTrial == trials <= 1 /\ (used = "none" => trials = 0) /\ (trials = 0 => receipt = "none")

Waiting == proc.at \in {"trial", "reaping"}

Pending == Waiting => trials = 1 /\ used = "whole" /\ receipt = "none"

Announced == proc.at = "announce" => Tried

Grounded(g) ==
    /\ Haunted(g) => Tried
    /\ g.echo # "none" => receipt \in {"passed", "failed"}

(* What makes HoundWasTried inductive: the evidence file is what allows a trial,
   so it bounds the trials; and while the engine waits nothing has been received. *)
IInv == TypeOK /\ OneTrial /\ Pending /\ Announced /\ Grounded(game) /\ Grounded(saved)

-----------------------------------------------------------------------------
(* What an event and the other parts of a handler leave alone *)

Keeps(w, v) ==
    /\ v.game.active = w.game.active /\ v.game.charged = w.game.charged
    /\ v.game.echo = w.game.echo /\ v.game.turn = w.game.turn
    /\ w.log.preAdmitted => v.log.preAdmitted

(* The place of the next event is a window. *)
LEMMA HereIsWindow == ASSUME NEW g \in Game PROVE Here(g) \in Window
  BY HauntAssumption DEF Here, Window, Game

(* An event recorded keeps the types, and what the properties are about. *)
LEMMA LineKeeps ==
    ASSUME NEW w \in Engine, NEW name
    PROVE  /\ Line(w, name) \in Engine /\ Keeps(w, Line(w, name))
           /\ Line(w, name).game = w.game /\ Line(w, name).proc = w.proc
           /\ name = "pre_admitted" => Line(w, name).log.preAdmitted
  <1> DEFINE first == IF name \in FirstEvents /\ w.log.first = NoFirst
                      THEN [at |-> Here(w.game), fresh |-> w.look.fresh,
                            straight |-> w.log.straight]
                      ELSE w.log.first
             pre == w.log.preAdmitted \/ name = "pre_admitted"
             log1 == [w.log EXCEPT !.first = first, !.preAdmitted = pre]
  <1>1. w.game \in Game /\ w.proc \in Process /\ w.log \in Log /\ w.look \in Look
    BY DEF Engine
  <1>2. first \in [at : Window, fresh : BOOLEAN, straight : BOOLEAN]
    BY <1>1, HereIsWindow DEF Look, Log
  <1>3. pre \in BOOLEAN
    OBVIOUS
  <1>4. log1 \in Log /\ log1.preAdmitted = pre
    BY <1>1, <1>2, <1>3 DEF Log
  <1>5. Line(w, name) = [w EXCEPT !.log = log1]
    BY <1>1 DEF Line, Engine, Log
  <1> HIDE DEF first, pre, log1
  <1>6. Line(w, name) = [game |-> w.game, proc |-> w.proc, log |-> log1, look |-> w.look]
    BY <1>5 DEF Engine
  <1>7. Line(w, name) \in Engine
    BY <1>1, <1>4, <1>6 DEF Engine
  <1>8. Line(w, name).game = w.game /\ Line(w, name).proc = w.proc /\ Line(w, name).log = log1
    BY <1>6
  <1>9. (w.log.preAdmitted => log1.preAdmitted) /\ (name = "pre_admitted" => log1.preAdmitted)
    BY <1>4 DEF pre
  <1> QED
    BY <1>7, <1>8, <1>9 DEF Keeps

(* An event that is written, lost or landed does no more than that. *)
LEMMA SaidKeeps ==
    ASSUME NEW w \in Engine, NEW name, NEW v \in Said(w, name)
    PROVE  /\ v \in Engine /\ Keeps(w, v) /\ v.proc.at = w.proc.at
           /\ name = "pre_admitted" /\ v.game.seq > w.game.seq => v.log.preAdmitted
  <1>1. w.game \in Game /\ w.proc \in Process /\ w.log \in Log /\ w.look \in Look
    BY DEF Engine
  <1>2. CASE v = w
    BY <1>1, <1>2 DEF Keeps, Game
  <1>3. CASE v = Counted(w, name) /\ ~Silent(w)
    <2> DEFINE l == Line(w, name)
               g == [w.game EXCEPT !.seq = @ + 1]
    <2>1. /\ l \in Engine /\ Keeps(w, l) /\ l.game = w.game /\ l.proc = w.proc
          /\ name = "pre_admitted" => l.log.preAdmitted
      BY LineKeeps
    <2>2. w.game.seq # MaxSeq
      BY <1>3 DEF Silent
    <2>3. g \in Game /\ g.active = w.game.active /\ g.charged = w.game.charged
          /\ g.echo = w.game.echo /\ g.turn = w.game.turn
      BY <1>1, <2>2, HauntAssumption DEF Game
    <2>4. v = [l EXCEPT !.game = g]
      BY <1>3, <2>1 DEF Counted
    <2> HIDE DEF l, g
    <2>5. v \in Engine /\ v.game = g /\ v.proc = l.proc /\ v.log = l.log
      BY <2>1, <2>3, <2>4 DEF Engine
    <2> QED
      BY <2>1, <2>3, <2>5 DEF Keeps
  <1>4. CASE v = Lost(w)
    <2> DEFINE p == [w.proc EXCEPT !.mute = TRUE]
    <2>1. p \in Process /\ p.at = w.proc.at
      BY <1>1 DEF Process
    <2>2. v = [w EXCEPT !.proc = p]
      BY <1>4 DEF Lost
    <2> HIDE DEF p
    <2>3. v \in Engine /\ v.game = w.game /\ v.proc = p /\ v.log = w.log
      BY <1>1, <2>1, <2>2 DEF Engine
    <2>4. ~(v.game.seq > w.game.seq)
      BY <1>1, <2>3 DEF Game
    <2> QED
      BY <2>1, <2>3, <2>4 DEF Keeps
  <1>5. CASE v = Landed(w, name)
    <2> DEFINE l == Line(w, name)
               p == [w.proc EXCEPT !.mute = TRUE]
               o == [l.log EXCEPT !.straight = FALSE]
    <2>1. /\ l \in Engine /\ Keeps(w, l) /\ l.game = w.game /\ l.proc = w.proc
          /\ name = "pre_admitted" => l.log.preAdmitted
      BY LineKeeps
    <2>2. l.log \in Log
      BY <2>1 DEF Engine
    <2>3. p \in Process /\ p.at = w.proc.at
      BY <1>1 DEF Process
    <2>4. o \in Log /\ o.preAdmitted = l.log.preAdmitted
      BY <2>2 DEF Log
    <2>5. v = [l EXCEPT !.proc = p, !.log = o]
      BY <1>5, <2>1 DEF Landed
    <2> HIDE DEF l, p, o
    <2>6. v \in Engine /\ v.game = l.game /\ v.proc = p /\ v.log = o
      BY <2>1, <2>3, <2>4, <2>5 DEF Engine
    <2> QED
      BY <2>1, <2>3, <2>4, <2>6 DEF Keeps
  <1> QED
    BY <1>2, <1>3, <1>4, <1>5 DEF Said

(* What a step may do that has nothing to do with a trial *)
Milder(w, v) ==
    /\ v.game.active => w.game.active
    /\ v.game.charged = w.game.charged
    /\ v.game.echo # "none" => w.game.echo # "none"
    /\ w.log.preAdmitted => v.log.preAdmitted

(* Keeping is transitive into it, so a handler may be taken piece by piece. *)
LEMMA KeepsIsMild ==
    ASSUME NEW w, NEW v, NEW x, Milder(w, v), Keeps(v, x)
    PROVE  Milder(w, x)
  <1>1. (x.game.active => w.game.active) /\ (w.log.preAdmitted => x.log.preAdmitted)
    BY Zenon DEF Milder, Keeps
  <1>2. x.game.charged = w.game.charged /\ x.game.echo = v.game.echo
    BY DEF Milder, Keeps
  <1> QED
    BY <1>1, <1>2 DEF Milder

(* A handler that ends somewhere is still the engine. *)
LEMMA GoingKeeps ==
    ASSUME NEW w \in Engine,
           NEW at \in {"down", "play", "tick", "trial", "reaping", "announce"}
    PROVE  /\ Going(w, at) \in Engine /\ Keeps(w, Going(w, at))
           /\ Going(w, at).proc.at = at /\ Going(w, at).game = w.game
           /\ Going(w, at).log = w.log
  <1> DEFINE p == [w.proc EXCEPT !.at = at]
  <1>1. w.game \in Game /\ w.proc \in Process /\ w.log \in Log /\ w.look \in Look
    BY DEF Engine
  <1>2. p \in Process /\ p.at = at
    BY <1>1 DEF Process
  <1>3. Going(w, at) = [w EXCEPT !.proc = p]
    BY DEF Going
  <1> HIDE DEF p
  <1>4. Going(w, at) = [game |-> w.game, proc |-> p, log |-> w.log, look |-> w.look]
    BY <1>3 DEF Engine
  <1>5. Going(w, at) \in Engine
    BY <1>1, <1>2, <1>4 DEF Engine
  <1>6. /\ Going(w, at).proc = p /\ Going(w, at).game = w.game
        /\ Going(w, at).log = w.log
    BY <1>4
  <1> QED
    BY <1>2, <1>5, <1>6 DEF Keeps

(* So is one that has looked: only the window of an empty look is remembered. *)
LEMMA LookedKeeps ==
    ASSUME NEW w \in Engine
    PROVE  Looked(w) \in Engine /\ Keeps(w, Looked(w))
  <1> DEFINE l == [at |-> Here(w.game), fresh |-> Before(w.look.at, Here(w.game))]
             p == [w.proc EXCEPT !.empty = IF Sight(w) = "absent" THEN Here(w.game) ELSE @]
  <1>1. w.game \in Game /\ w.proc \in Process /\ w.log \in Log /\ w.look \in Look
    BY DEF Engine
  <1>2. Here(w.game) \in Window
    BY <1>1, HereIsWindow
  <1>3. p \in Process
    BY <1>1, <1>2 DEF Process
  <1>4. l \in Look
    BY <1>2 DEF Look, Before
  <1>5. Looked(w) = [w EXCEPT !.look = l, !.proc = p]
    BY <1>1 DEF Looked, Engine, Process
  <1> HIDE DEF l, p
  <1>6. /\ Looked(w) \in Engine /\ Looked(w).game = w.game
        /\ Looked(w).log = w.log
    BY <1>1, <1>3, <1>4, <1>5 DEF Engine
  <1> QED
    BY <1>6 DEF Keeps

(* A change of the game is a change of the game only. *)
LEMMA GameKeeps ==
    ASSUME NEW w \in Engine, NEW g \in Game
    PROVE  /\ [w EXCEPT !.game = g] \in Engine
           /\ [w EXCEPT !.game = g].game = g
           /\ [w EXCEPT !.game = g].proc = w.proc
           /\ [w EXCEPT !.game = g].log = w.log
  BY DEF Engine

(* ... which the candidate's being checked is. *)
LEMMA CheckedKeeps ==
    ASSUME NEW w \in Engine
    PROVE  Checked(w) \in Engine /\ Keeps(w, Checked(w))
  <1> DEFINE g == [w.game EXCEPT !.checked = TRUE]
  <1>1. w.game \in Game
    BY DEF Engine
  <1>2. /\ g \in Game /\ g.active = w.game.active /\ g.charged = w.game.charged
        /\ g.echo = w.game.echo /\ g.turn = w.game.turn
    BY <1>1 DEF Game
  <1>3. Checked(w) = [w EXCEPT !.game = g]
    BY DEF Checked
  <1> HIDE DEF g
  <1> QED
    BY <1>2, <1>3, GameKeeps DEF Keeps

(* An echo is told only if there is one. *)
LEMMA RecollectedKeeps ==
    ASSUME NEW g \in Game, NEW h \in Recollected(g)
    PROVE  /\ h \in Game /\ h.active = g.active /\ h.charged = g.charged
           /\ h.turn = g.turn
           /\ h.echo # "none" => g.echo # "none"
  BY DEF Recollected, Game

(* A tick's or an event's state is the engine's. *)
LEMMA NowIsEngine ==
    ASSUME TypeOK
    PROVE  /\ Now \in Engine /\ Now.game = game /\ Now.proc = proc /\ Now.log = log
           /\ Milder(Now, Now)
  BY DEF Now, Engine, TypeOK, Look, Milder

-----------------------------------------------------------------------------
(* The steps *)

(* The new state has the types of the engine's record. *)
LEMMA BecomesTyped ==
    ASSUME NEW v \in Engine, Becomes(v)
    PROVE  /\ game' \in Game /\ proc' \in Process /\ log' \in Log /\ look' \in Look
           /\ game' = v.game /\ proc' = v.proc /\ log' = v.log
  BY DEF Becomes, Engine

(* A process that is not there is a process too. *)
LEMMA DownIsProcess == Down \in Process /\ Down.at = "down"
  <1>1. NoWindow \in Window
    BY HauntAssumption DEF NoWindow, Window
  <1> QED
    BY <1>1, HauntAssumption DEF Down, Process

(* What was tried stays tried while neither the child nor its evidence changes. *)
LEMMA TriedStays ==
    ASSUME Tried, UNCHANGED <<used, receipt, trials, trial>>,
           log.preAdmitted => log'.preAdmitted
    PROVE  Tried'
  <1>1. log'.preAdmitted
    BY Zenon DEF Tried
  <1> QED
    BY <1>1 DEF Tried

(* A mild step outside the trial keeps the invariant. *)
LEMMA Quietly ==
    ASSUME IInv, NEW v \in Engine, Becomes(v), Milder(Now, v),
           v.proc.at \in {"down", "play", "tick"},
           saved' \in {saved, game}, UNCHANGED <<used, receipt, trials, trial, due>>,
           candidate' \in {"none", "good", "bad"}
    PROVE  IInv'
  <1>1. TypeOK /\ OneTrial /\ Grounded(game) /\ Grounded(saved)
    BY DEF IInv
  <1>2. /\ game' \in Game /\ proc' \in Process /\ log' \in Log /\ look' \in Look
        /\ game' = v.game /\ proc' = v.proc /\ log' = v.log
    BY BecomesTyped
  <1>3. TypeOK'
    BY <1>1, <1>2 DEF TypeOK, Look
  <1>4. OneTrial'
    BY <1>1 DEF OneTrial
  <1>5. Pending' /\ Announced'
    BY <1>2 DEF Pending, Announced, Waiting
  <1>6. log.preAdmitted => log'.preAdmitted
    BY <1>1, <1>2, NowIsEngine DEF Milder
  <1>7. (Haunted(game') => Haunted(game)) /\ (game'.echo # "none" => game.echo # "none")
    BY <1>1, <1>2, NowIsEngine DEF Milder, Haunted
  <1>8. Grounded(saved)' /\ Grounded(game)'
    <2>1. Haunted(game) \/ Haunted(saved) => Tried'
      BY <1>1, <1>6, TriedStays DEF Grounded
    <2>2. Haunted(saved') => Tried'
      BY <2>1
    <2>3. Haunted(game') => Tried'
      BY <1>7, <2>1
    <2>4. game'.echo # "none" \/ saved'.echo # "none" => receipt' \in {"passed", "failed"}
      BY <1>1, <1>7 DEF Grounded
    <2> QED
      BY <2>2, <2>3, <2>4 DEF Grounded, Haunted
  <1> QED
    BY <1>3, <1>4, <1>5, <1>8 DEF IInv

(* An event, then a place to go to: a mild end of a handler. *)
LEMMA SaidQuietly ==
    ASSUME IInv, NEW w \in Engine, Milder(Now, w), NEW name, NEW v \in Said(w, name),
           NEW at \in {"down", "play", "tick"}, Becomes(Going(v, at)),
           saved' = saved, UNCHANGED <<used, receipt, trials, trial, due, candidate>>
    PROVE  IInv'
  <1>1. v \in Engine /\ Keeps(w, v)
    BY SaidKeeps
  <1>2. Milder(Now, v)
    BY <1>1, KeepsIsMild
  <1>3. Going(v, at) \in Engine /\ Keeps(v, Going(v, at)) /\ Going(v, at).proc.at = at
    BY <1>1, GoingKeeps
  <1>4. Milder(Now, Going(v, at))
    BY <1>2, <1>3, KeepsIsMild
  <1>5. candidate' \in {"none", "good", "bad"}
    BY DEF IInv, TypeOK
  <1> QED
    BY <1>3, <1>4, <1>5, Quietly

(* Nothing that happens between two ticks makes a hound. *)
LEMMA PlaysOn ==
    ASSUME IInv, Passes \/ Elsewhere \/ HoundDies \/ Checkpoint \/ Publish \/ Restore
    PROVE  IInv'
  <1>1. TypeOK /\ candidate \in {"none", "good", "bad"}
    BY DEF IInv, TypeOK
  <1>2. /\ Now \in Engine /\ Now.game = game /\ Now.proc = proc /\ Now.log = log
        /\ Now.look = look /\ Milder(Now, Now)
    BY <1>1, NowIsEngine DEF Now
  <1>3. CASE Passes
    <2> DEFINE g == [game EXCEPT !.turn = @ + 1]
               w == [Now EXCEPT !.game = g]
    <2>1. /\ g \in Game /\ g.active = game.active /\ g.charged = game.charged
          /\ g.echo = game.echo
      BY <1>1, <1>3, HauntAssumption DEF Passes, TypeOK, Game
    <2>2. w \in Engine /\ w.game = g /\ w.proc = proc /\ w.log = log /\ w.look = look
      BY <1>2, <2>1 DEF Engine, Now
    <2>3. Becomes(w) /\ w.proc.at = "play"
      BY <1>3, <2>2 DEF Passes, Becomes
    <2>4. Milder(Now, w)
      BY <1>2, <2>1, <2>2 DEF Milder
    <2> HIDE DEF w
    <2> QED
      BY <1>1, <1>3, <2>2, <2>3, <2>4, Quietly DEF Passes, Rest, inbox, evidence
  <1>4. CASE Elsewhere
    <2> PICK w \in Said(Now, "") : Becomes(w)
      BY <1>4 DEF Elsewhere
    <2>1. w \in Engine /\ Keeps(Now, w) /\ w.proc.at = "play"
      BY <1>2, <1>4, SaidKeeps DEF Elsewhere
    <2>2. Milder(Now, w)
      BY <1>2, <2>1, KeepsIsMild
    <2> QED
      BY <1>1, <1>4, <2>1, <2>2, Quietly DEF Elsewhere, Rest, inbox, evidence
  <1>5. CASE HoundDies
    <2> DEFINE g == [game EXCEPT !.active = FALSE]
               m == [Now EXCEPT !.game = g]
    <2>1. /\ g \in Game /\ ~g.active /\ g.charged = game.charged /\ g.echo = game.echo
      BY <1>1 DEF TypeOK, Game
    <2>2. m \in Engine /\ m.game = g /\ m.proc = proc /\ m.log = log
      BY <1>2, <2>1, GameKeeps
    <2>3. Milder(Now, m)
      BY <1>2, <2>1, <2>2 DEF Milder
    <2>4. m = [Now EXCEPT !.game.active = FALSE]
      BY <1>2
    <2>5. PICK w \in Said(m, "killed") : Becomes(w)
      BY <1>5, <2>4 DEF HoundDies
    <2> HIDE DEF m
    <2>6. w \in Engine /\ Keeps(m, w) /\ w.proc.at = "play"
      BY <1>5, <2>2, <2>5, SaidKeeps DEF HoundDies
    <2>7. Milder(Now, w)
      BY <2>3, <2>6, KeepsIsMild
    <2> QED
      BY <1>1, <1>5, <2>5, <2>6, <2>7, Quietly DEF HoundDies, Rest, inbox, evidence
  <1>6. CASE Checkpoint
    BY <1>1, <1>2, <1>6, Quietly DEF Checkpoint, Rest, inbox, evidence, engine, Becomes
  <1>7. CASE Publish
    BY <1>1, <1>7 DEF Publish, IInv, TypeOK, OneTrial, Pending, Waiting, Announced,
                      Grounded, Tried, evidence, engine
  <1>8. CASE Restore
    <2> DEFINE p == [Down EXCEPT !.at = "play", !.run = proc.run + 1]
               m == [Now EXCEPT !.proc = p]
    <2>1. p \in Process /\ p.at = "play"
      <3>1. proc.run + 1 \in 1..MaxRuns
        BY <1>1, <1>8, HauntAssumption DEF Restore, TypeOK, Process
      <3> QED
        BY <3>1, DownIsProcess DEF Process
    <2>2. m \in Engine /\ m.game = game /\ m.proc = p /\ m.log = log
      BY <1>2, <2>1 DEF Engine
    <2>3. Milder(Now, m)
      BY <1>2, <2>2 DEF Milder
    <2>4. PICK w \in Said(m, "session") : Becomes(w)
      BY <1>8 DEF Restore
    <2> HIDE DEF m, p
    <2>5. w \in Engine /\ Keeps(m, w) /\ w.proc.at = "play"
      BY <2>1, <2>2, SaidKeeps
    <2>6. Milder(Now, w)
      BY <2>3, <2>5, KeepsIsMild
    <2> QED
      BY <1>1, <1>8, <2>4, <2>5, <2>6, Quietly DEF Restore, Rest, inbox, evidence
  <1> QED
    BY <1>3, <1>4, <1>5, <1>6, <1>7, <1>8

(* A tick that tries nothing keeps the invariant too. *)
LEMMA TickQuietly ==
    ASSUME IInv,
           TickBegins \/ TickPasses \/ BudgetRefuses \/ FindsNothing \/ RejectsSource
    PROVE  IInv'
  <1>1. TypeOK
    BY DEF IInv
  <1>2. /\ Now \in Engine /\ Now.game = game /\ Now.proc = proc /\ Now.log = log
        /\ Milder(Now, Now) /\ candidate \in {"none", "good", "bad"}
    BY <1>1, NowIsEngine DEF TypeOK
  <1> DEFINE l == Looked(Now)
             b == [l EXCEPT !.proc.budgetLogged = TRUE]
             c == Checked(l)
  <1>3. l \in Engine /\ Keeps(Now, l) /\ Milder(Now, l)
    BY <1>2, LookedKeeps, KeepsIsMild
  <1>4. b \in Engine /\ Keeps(l, b) /\ Milder(Now, b)
    <2> DEFINE p == [l.proc EXCEPT !.budgetLogged = TRUE]
    <2>1. p \in Process
      BY <1>3 DEF Engine, Process
    <2>2. b = [l EXCEPT !.proc = p]
      OBVIOUS
    <2> HIDE DEF p, l, b
    <2>3. b \in Engine /\ b.game = l.game /\ b.log = l.log
      BY <1>3, <2>1, <2>2 DEF Engine
    <2>4. Keeps(l, b)
      BY <2>3 DEF Keeps
    <2> QED
      BY <1>3, <2>3, <2>4, KeepsIsMild
  <1>5. c \in Engine /\ Milder(Now, c)
    BY <1>3, CheckedKeeps, KeepsIsMild
  <1>6. CASE TickBegins
    <2> PICK over \in BOOLEAN, back \in BOOLEAN :
             \E v \in Ended(Now, over) :
             \E w \in Trailed([v EXCEPT !.game.tick = game.turn], back) :
             \E g \in Recollected(w.game) :
               Becomes(Going([w EXCEPT !.game = g], IF proc.mute THEN "play" ELSE "tick"))
      BY <1>6 DEF TickBegins
    <2>1. PICK v \in Ended(Now, over) :
             \E w \in Trailed([v EXCEPT !.game.tick = game.turn], back) :
             \E g \in Recollected(w.game) :
               Becomes(Going([w EXCEPT !.game = g], IF proc.mute THEN "play" ELSE "tick"))
      OBVIOUS
    <2> DEFINE t == [v EXCEPT !.game.tick = game.turn]
    <2>2. PICK w \in Trailed(t, back) : \E g \in Recollected(w.game) :
             Becomes(Going([w EXCEPT !.game = g], IF proc.mute THEN "play" ELSE "tick"))
      BY <2>1
    <2>3. PICK g \in Recollected(w.game) :
             Becomes(Going([w EXCEPT !.game = g], IF proc.mute THEN "play" ELSE "tick"))
      BY <2>2
    <2>4. v \in Engine /\ Milder(Now, v)
      <3>1. CASE over
        <4> DEFINE h == [game EXCEPT !.active = FALSE]
                   m == [Now EXCEPT !.game = h]
        <4>1. h \in Game /\ ~h.active /\ h.charged = game.charged /\ h.echo = game.echo
          BY <1>1 DEF TypeOK, Game
        <4>2. m \in Engine /\ m.game = h /\ m.log = log
          BY <1>2, <4>1, GameKeeps
        <4>3. Milder(Now, m)
          BY <1>2, <4>1, <4>2 DEF Milder
        <4>4. v \in Said(m, "expired")
          <5>1. m = [Now EXCEPT !.game.active = FALSE]
            BY <1>2
          <5> QED
            BY <3>1, <5>1 DEF Ended
        <4> HIDE DEF m
        <4>5. v \in Engine /\ Keeps(m, v)
          BY <4>2, <4>4, SaidKeeps
        <4> QED
          BY <4>3, <4>5, KeepsIsMild
      <3>2. CASE ~over
        BY <1>2, <3>2 DEF Ended
      <3> QED
        BY <3>1, <3>2
    <2>5. t \in Engine /\ Milder(Now, t)
      <3> DEFINE h == [v.game EXCEPT !.tick = game.turn]
      <3>1. v.game \in Game
        BY <2>4 DEF Engine
      <3>2. /\ h \in Game /\ h.active = v.game.active /\ h.charged = v.game.charged
            /\ h.echo = v.game.echo /\ h.turn = v.game.turn
        BY <1>1, <3>1, HauntAssumption DEF TypeOK, Game
      <3>3. t = [v EXCEPT !.game = h]
        OBVIOUS
      <3> HIDE DEF t, h
      <3>4. t \in Engine /\ Keeps(v, t)
        BY <2>4, <3>2, <3>3, GameKeeps DEF Keeps
      <3> QED
        BY <2>4, <3>4, KeepsIsMild
    <2> HIDE DEF t
    <2>6. w \in Engine /\ Milder(Now, w)
      <3>1. CASE back
        <4> DEFINE h == [t.game EXCEPT !.backtracks = TRUE]
                   m == [t EXCEPT !.game = h]
        <4>1. t.game \in Game
          BY <2>5 DEF Engine
        <4>2. /\ h \in Game /\ h.active = t.game.active /\ h.charged = t.game.charged
              /\ h.echo = t.game.echo /\ h.turn = t.game.turn
          BY <4>1 DEF Game
        <4>3. m \in Engine /\ Keeps(t, m)
          BY <2>5, <4>2, GameKeeps DEF Keeps
        <4>4. w \in Said(m, "")
          BY <3>1, <2>2 DEF Trailed
        <4> HIDE DEF m, h
        <4>5. Milder(Now, m)
          BY <2>5, <4>3, KeepsIsMild
        <4>6. w \in Engine /\ Keeps(m, w)
          BY <4>3, <4>4, SaidKeeps
        <4> QED
          BY <4>5, <4>6, KeepsIsMild
      <3>2. CASE ~back
        BY <2>2, <2>5, <3>2 DEF Trailed
      <3> QED
        BY <3>1, <3>2
    <2> DEFINE f == [w EXCEPT !.game = g]
    <2>7. f \in Engine /\ Milder(Now, f)
      <3>1. w.game \in Game
        BY <2>6 DEF Engine
      <3>2. /\ g \in Game /\ g.active = w.game.active /\ g.charged = w.game.charged
            /\ g.echo # "none" => w.game.echo # "none"
        BY <3>1, RecollectedKeeps
      <3>3. f \in Engine /\ f.game = g /\ f.log = w.log
        BY <2>6, <3>2, GameKeeps
      <3> QED
        BY <2>6, <3>2, <3>3 DEF Milder
    <2> HIDE DEF f
    <2> DEFINE at == IF proc.mute THEN "play" ELSE "tick"
    <2>8. /\ Going(f, at) \in Engine /\ Keeps(f, Going(f, at))
          /\ Going(f, at).proc.at \in {"play", "tick"} /\ Becomes(Going(f, at))
      BY <2>3, <2>7, GoingKeeps DEF f
    <2>9. Milder(Now, Going(f, at))
      BY <2>7, <2>8, KeepsIsMild
    <2> QED
      BY <1>2, <1>6, <2>8, <2>9, Quietly DEF TickBegins, Rest, inbox, evidence
  <1>7. CASE TickPasses
    <2>1. /\ Going(Now, "play") \in Engine /\ Keeps(Now, Going(Now, "play"))
          /\ Going(Now, "play").proc.at = "play"
      BY <1>2, GoingKeeps
    <2>2. Milder(Now, Going(Now, "play"))
      BY <1>2, <2>1, KeepsIsMild
    <2> QED
      BY <1>2, <1>7, <2>1, <2>2, Quietly DEF TickPasses, Rest, inbox, evidence
  <1>8. Becomes(Going(l, "play")) /\ UNCHANGED saved /\ Rest => IInv'
    <2>1. /\ Going(l, "play") \in Engine /\ Keeps(l, Going(l, "play"))
          /\ Going(l, "play").proc.at = "play"
      BY <1>3, GoingKeeps
    <2>2. Milder(Now, Going(l, "play"))
      BY <1>3, <2>1, KeepsIsMild
    <2> QED
      BY <1>2, <2>1, <2>2, Quietly DEF Rest, inbox, evidence
  <1>9. CASE BudgetRefuses
    <2>1. CASE Sight(Now) = "seen"
      <3>1. PICK w \in Said(b, "budget") : Becomes(Going(w, "play"))
        BY <1>9, <2>1 DEF BudgetRefuses
      <3> HIDE DEF l, b
      <3> QED
        BY <1>4, <1>9, <3>1, SaidQuietly DEF BudgetRefuses, Rest, inbox, evidence
    <2>2. CASE Sight(Now) # "seen"
      BY <1>8, <1>9, <2>2 DEF BudgetRefuses
    <2> QED
      BY <2>1, <2>2
  <1>10. CASE FindsNothing
    BY <1>8, <1>10 DEF FindsNothing
  <1>11. CASE RejectsSource
    <2>1. PICK w \in Said(c, "source_rejected") : Becomes(Going(w, "play"))
      BY <1>11 DEF RejectsSource
    <2> HIDE DEF l, c
    <2> QED
      BY <1>5, <1>11, <2>1, SaidQuietly DEF RejectsSource, Rest, inbox, evidence
  <1> QED
    BY <1>6, <1>7, <1>9, <1>10, <1>11

(* A save and the end of the process: what is still being tried is forgotten, and
   no hound can have come of it.                                               *)
LEMMA StopsQuietly == ASSUME IInv, Hangup \/ Crash PROVE IInv'
  <1>1. TypeOK /\ OneTrial /\ Pending /\ Grounded(game) /\ Grounded(saved)
    BY DEF IInv
  <1> DEFINE p == [Down EXCEPT !.run = proc.run]
  <1>2. p \in Process /\ p.at = "down"
    BY <1>1, DownIsProcess DEF TypeOK, Process
  <1>3. proc' = p /\ UNCHANGED <<inbox, evidence, trials, look>>
    BY DEF Hangup, Crash, Orphaned
  <1>4. game' \in {game, saved} /\ saved' \in {game, saved}
    BY DEF Hangup, Crash
  <1>5. log' \in Log /\ (log.preAdmitted => log'.preAdmitted)
    <2>1. CASE Hangup
      BY <1>1, <2>1 DEF Hangup, TypeOK
    <2>2. CASE Crash
      <3> DEFINE straight == log.straight /\ Here(saved) = Here(game)
      <3>1. straight \in BOOLEAN
        OBVIOUS
      <3>2. log' = [log EXCEPT !.straight = straight]
        BY <1>1, <2>2 DEF Crash, TypeOK, Log
      <3> HIDE DEF straight
      <3> QED
        BY <1>1, <3>1, <3>2 DEF TypeOK, Log
    <2> QED
      BY <2>1, <2>2
  <1>6. trial' = IF Waiting THEN NoTrial ELSE trial
    BY DEF Hangup, Crash, Orphaned, Forgotten, Waiting
  <1> HIDE DEF p
  <1>7. TypeOK'
    <2>1. NoTrial \in Trial
      BY DEF NoTrial, Trial
    <2> QED
      BY <1>1, <1>2, <1>3, <1>4, <1>5, <1>6, <2>1 DEF TypeOK, inbox, evidence
  <1>8. OneTrial'
    BY <1>1, <1>3 DEF OneTrial, evidence
  <1>9. Pending' /\ Announced'
    BY <1>2, <1>3 DEF Pending, Announced, Waiting
  <1>10. Tried => Tried'
    <2> SUFFICES ASSUME Tried PROVE Tried'
      OBVIOUS
    <2>1. ~Waiting
      BY <1>1 DEF Pending, Tried
    <2> QED
      BY <1>3, <1>5, <1>6, <2>1, TriedStays DEF evidence
  <1>11. Grounded(game)' /\ Grounded(saved)'
    <2>1. Haunted(game') \/ Haunted(saved') => Tried'
      BY <1>1, <1>4, <1>10 DEF Grounded
    <2>2. game'.echo # "none" \/ saved'.echo # "none" => receipt' \in {"passed", "failed"}
      BY <1>1, <1>3, <1>4 DEF Grounded, evidence
    <2> QED
      BY <2>1, <2>2 DEF Grounded, Haunted
  <1> QED
    BY <1>7, <1>8, <1>9, <1>11 DEF IInv

(* The evidence is written before anything is tried, and only where there is none. *)
LEMMA TriesOnce == ASSUME IInv, NoEvidence \/ CannotTry \/ Tries PROVE IInv'
  <1>1. TypeOK /\ OneTrial /\ Grounded(game) /\ Grounded(saved) /\ proc.at = "tick"
    BY DEF IInv, NoEvidence, CannotTry, Tries, Sees, MayLook
  <1>2. /\ Now \in Engine /\ Now.game = game /\ Now.proc = proc /\ Now.log = log
        /\ Milder(Now, Now)
    BY <1>1, NowIsEngine
  <1> DEFINE c == Checked(Looked(Now))
  <1>3. c \in Engine /\ Milder(Now, c)
    BY <1>2, LookedKeeps, CheckedKeeps, KeepsIsMild
  <1>4. CASE NoEvidence /\ used # "none"
    <2>1. /\ Going(c, "play") \in Engine /\ Keeps(c, Going(c, "play"))
          /\ Going(c, "play").proc.at = "play" /\ Becomes(Going(c, "play"))
      BY <1>3, <1>4, GoingKeeps DEF NoEvidence
    <2>2. Milder(Now, Going(c, "play"))
      BY <1>3, <2>1, KeepsIsMild
    <2> HIDE DEF c
    <2> QED
      BY <1>1, <1>4, <2>1, <2>2, Quietly DEF NoEvidence, inbox, TypeOK
  <1>5. ASSUME used = "none", UNCHANGED <<saved, inbox, receipt>>,
               used' \in {"none", "torn", "whole"},
               NEW v \in Engine, Milder(Now, v), Becomes(v), trial' \in Trial,
               \/ v.proc.at \in {"play", "tick"} /\ trials' = trials
               \/ v.proc.at = "trial" /\ trials' = trials + 1 /\ used' = "whole"
        PROVE  IInv'
    <2>1. trials = 0 /\ receipt = "none" /\ ~Tried
      BY <1>1, <1>5 DEF OneTrial, Tried
    <2>2. /\ game' \in Game /\ proc' \in Process /\ log' \in Log /\ look' \in Look
          /\ game' = v.game /\ proc' = v.proc /\ log' = v.log
      BY <1>5, BecomesTyped
    <2>3. ~Haunted(game) /\ ~Haunted(saved) /\ game.echo = "none" /\ saved.echo = "none"
      BY <1>1, <2>1 DEF Grounded
    <2>4. ~Haunted(game') /\ game'.echo = "none" /\ saved' = saved
      BY <1>2, <1>5, <2>2, <2>3 DEF Milder, Haunted
    <2>5. TypeOK'
      BY <1>1, <1>5, <2>1, <2>2 DEF TypeOK, inbox, Look
    <2>6. OneTrial' /\ Pending' /\ Announced'
      BY <1>5, <2>1, <2>2 DEF OneTrial, Pending, Announced, Waiting
    <2>7. Grounded(game)' /\ Grounded(saved)'
      BY <2>3, <2>4 DEF Grounded, Haunted
    <2> QED
      BY <2>5, <2>6, <2>7 DEF IInv
  <1>6. CASE NoEvidence /\ used = "none"
    <2>1. /\ Going(c, "play") \in Engine /\ Keeps(c, Going(c, "play"))
          /\ Going(c, "play").proc.at = "play" /\ Becomes(Going(c, "play"))
      BY <1>3, <1>6, GoingKeeps DEF NoEvidence
    <2>2. Milder(Now, Going(c, "play"))
      BY <1>3, <2>1, KeepsIsMild
    <2> HIDE DEF c
    <2> QED
      BY <1>1, <1>5, <1>6, <2>1, <2>2 DEF NoEvidence, TypeOK
  <1>7. CASE CannotTry
    <2>1. PICK w \in Said(c, "shadow_failed") : Becomes(Going(w, "play"))
      BY <1>7 DEF CannotTry
    <2> HIDE DEF c
    <2>2. w \in Engine /\ Keeps(c, w)
      BY <1>3, <2>1, SaidKeeps
    <2>3. /\ Going(w, "play") \in Engine /\ Keeps(w, Going(w, "play"))
          /\ Going(w, "play").proc.at = "play"
      BY <2>2, GoingKeeps
    <2>4. Milder(Now, Going(w, "play"))
      BY <1>3, <2>2, <2>3, KeepsIsMild
    <2> QED
      BY <1>1, <1>5, <1>7, <2>1, <2>3, <2>4 DEF CannotTry, TypeOK
  <1>8. CASE Tries
    <2>1. /\ Going(c, "trial") \in Engine /\ Keeps(c, Going(c, "trial"))
          /\ Going(c, "trial").proc.at = "trial" /\ Becomes(Going(c, "trial"))
      BY <1>3, <1>8, GoingKeeps DEF Tries
    <2>2. Milder(Now, Going(c, "trial"))
      BY <1>3, <2>1, KeepsIsMild
    <2>3. trial' \in Trial
      BY <1>8 DEF Tries, NoTrial, Trial
    <2> HIDE DEF c
    <2> QED
      BY <1>5, <1>8, <2>1, <2>2, <2>3 DEF Tries
  <1> QED
    BY <1>4, <1>6, <1>7, <1>8

(* A child changes itself only, and one that was tried is gone. *)
LEMMA ChildQuietly == ASSUME IInv, Child PROVE IInv'
  <1>1. TypeOK
    BY DEF IInv
  <1>2. trial.child \in {"setup", "trying", "leaving"} /\ Childs
    BY DEF Child, ChildSetsUp, ChildReports, ChildExits, ChildDies
  <1>3. trial' \in Trial
    <2>1. Reading \in BOOLEAN
      BY DEF Reading
    <2> HIDE DEF Reading
    <2>2. CASE ChildSetsUp
      BY <1>1, <2>1, <2>2 DEF ChildSetsUp, TypeOK, Trial
    <2>3. CASE ChildReports
      BY <1>1, <2>1, <2>3 DEF ChildReports, TypeOK, Trial
    <2>4. CASE ChildExits
      BY <1>1, <2>4 DEF ChildExits, TypeOK, Trial
    <2>5. CASE ChildDies
      BY <1>1, <2>5 DEF ChildDies, TypeOK, Trial
    <2> QED
      BY <2>2, <2>3, <2>4, <2>5 DEF Child
  <1>4. ~Tried
    BY <1>2 DEF Tried
  <1>5. TypeOK'
    BY <1>1, <1>2, <1>3 DEF Childs, engine, inbox, evidence, TypeOK
  <1>6. OneTrial' /\ Pending' /\ Announced'
    BY <1>2, <1>4 DEF Childs, engine, evidence, IInv, OneTrial, Pending, Announced, Waiting
  <1>7. Grounded(game)' /\ Grounded(saved)'
    BY <1>2, <1>4 DEF Childs, engine, evidence, IInv, Grounded, Haunted
  <1> QED
    BY <1>5, <1>6, <1>7 DEF IInv

(* The parent stops reading: still nothing is received. *)
LEMMA PollsQuietly == ASSUME IInv, ParentPolls PROVE IInv'
  <1>1. TypeOK /\ OneTrial /\ Pending /\ Grounded(game) /\ Grounded(saved)
    BY DEF IInv
  <1>2. trials = 1 /\ used = "whole" /\ receipt = "none" /\ ~Tried
    BY <1>1 DEF ParentPolls, Pending, Waiting, Tried
  <1>3. proc' \in Process /\ proc'.at = "reaping" /\ trial' \in Trial
    BY <1>1 DEF ParentPolls, TypeOK, Process, Trial
  <1>4. TypeOK'
    BY <1>1, <1>3 DEF ParentPolls, inbox, evidence, TypeOK
  <1>5. OneTrial' /\ Pending' /\ Announced'
    BY <1>2, <1>3 DEF ParentPolls, inbox, evidence, OneTrial, Pending, Announced, Waiting
  <1>6. Grounded(game)' /\ Grounded(saved)'
    BY <1>1, <1>2 DEF ParentPolls, Grounded, Haunted
  <1> QED
    BY <1>4, <1>5, <1>6 DEF IInv

(* The child is gone: a hound is announced only if its trial was passed, and its
   receipt and its event are written.                                          *)
LEMMA ReapedQuietly ==
    ASSUME IInv, ShadowFails \/ NoReceipt \/ Rejects \/ PreAdmits
    PROVE  IInv'
  <1>1. /\ TypeOK /\ OneTrial /\ Pending /\ Grounded(game) /\ Grounded(saved)
        /\ proc.at = "reaping"
    BY DEF IInv, ShadowFails, NoReceipt, Rejects, PreAdmits, Reaped
  <1>2. trials = 1 /\ used = "whole" /\ receipt = "none" /\ ~Tried
    BY <1>1 DEF Pending, Waiting, Tried
  <1>3. ~Haunted(game) /\ ~Haunted(saved) /\ game.echo = "none" /\ saved.echo = "none"
    BY <1>1, <1>2 DEF Grounded
  <1>4. /\ Now \in Engine /\ Now.game = game /\ Now.proc = proc /\ Now.log = log
    BY <1>1, NowIsEngine
  <1>5. ASSUME NEW v \in Engine, Becomes(v), UNCHANGED <<saved, inbox, used, trials>>,
               trial' \in Trial, receipt' \in {"none", "torn", "passed", "failed"},
               v.proc.at \in {"play", "announce"}, v.proc.at = "announce" => Tried',
               ~Haunted(v.game), v.game.echo # "none" => receipt' \in {"passed", "failed"}
        PROVE  IInv'
    <2>1. /\ game' \in Game /\ proc' \in Process /\ log' \in Log /\ look' \in Look
          /\ game' = v.game /\ proc' = v.proc /\ log' = v.log
      BY <1>5, BecomesTyped
    <2>2. TypeOK'
      BY <1>1, <1>5, <2>1 DEF TypeOK, inbox, Look
    <2>3. OneTrial' /\ Pending' /\ Announced'
      BY <1>2, <1>5, <2>1 DEF OneTrial, Pending, Announced, Waiting
    <2>4. Grounded(game)' /\ Grounded(saved)'
      BY <1>3, <1>5, <2>1 DEF Grounded, Haunted
    <2> QED
      BY <2>2, <2>3, <2>4 DEF IInv
  <1>6. NoTrial \in Trial
    BY DEF NoTrial, Trial
  <1>7. CASE ShadowFails
    <2>1. PICK w \in Said(Now, "shadow_failed") : Becomes(Going(w, "play"))
      BY <1>7 DEF ShadowFails
    <2>2. w \in Engine /\ Keeps(Now, w)
      BY <1>4, <2>1, SaidKeeps
    <2>3. /\ Going(w, "play") \in Engine /\ Keeps(w, Going(w, "play"))
          /\ Going(w, "play").proc.at = "play"
      BY <2>2, GoingKeeps
    <2>4. ~Haunted(Going(w, "play").game) /\ Going(w, "play").game.echo = "none"
      BY <1>3, <1>4, <2>2, <2>3 DEF Keeps, Haunted
    <2> QED
      BY <1>2, <1>5, <1>6, <1>7, <2>1, <2>3, <2>4 DEF ShadowFails, Forgotten, evidence
  <1>8. CASE NoReceipt
    <2>1. /\ Going(Now, "play") \in Engine /\ Keeps(Now, Going(Now, "play"))
          /\ Going(Now, "play").proc.at = "play"
      BY <1>4, GoingKeeps
    <2>2. ~Haunted(Going(Now, "play").game) /\ Going(Now, "play").game.echo = "none"
      BY <1>3, <1>4, <2>1 DEF Keeps, Haunted
    <2> QED
      BY <1>2, <1>5, <1>6, <1>8, <2>1, <2>2 DEF NoReceipt, Forgotten
  <1>9. ASSUME NEW g \in Echoing(game)
        PROVE  LET m == [Now EXCEPT !.game = g]
               IN  /\ m \in Engine /\ m.game = g /\ m.game.seq = game.seq
                   /\ m.log = log /\ ~Haunted(m.game)
    <2>1. /\ g \in Game /\ g.seq = game.seq /\ g.active = game.active
          /\ g.charged = game.charged
      BY <1>1, <1>9 DEF Echoing, TypeOK, Game
    <2> QED
      BY <1>3, <1>4, <2>1, GameKeeps DEF Haunted
  <1>10. CASE Rejects
    <2> PICK g \in Echoing(game) : \E w \in Said([Now EXCEPT !.game = g], "rejected") :
          \E h \in Recollected(w.game) : Becomes(Going([w EXCEPT !.game = h], "play"))
      BY <1>10 DEF Rejects
    <2> DEFINE m == [Now EXCEPT !.game = g]
    <2>1. PICK w \in Said(m, "rejected") :
          \E h \in Recollected(w.game) : Becomes(Going([w EXCEPT !.game = h], "play"))
      OBVIOUS
    <2>2. PICK h \in Recollected(w.game) : Becomes(Going([w EXCEPT !.game = h], "play"))
      BY <2>1
    <2>3. m \in Engine /\ ~Haunted(m.game)
      BY <1>9
    <2> HIDE DEF m
    <2>4. w \in Engine /\ Keeps(m, w)
      BY <2>1, <2>3, SaidKeeps
    <2>5. h \in Game /\ h.active = w.game.active /\ h.charged = w.game.charged
      BY <2>2, <2>4, RecollectedKeeps DEF Engine
    <2> DEFINE f == [w EXCEPT !.game = h]
    <2>6. f \in Engine /\ f.game = h
      BY <2>4, <2>5, GameKeeps
    <2>7. ~Haunted(f.game)
      BY <2>3, <2>4, <2>5, <2>6 DEF Keeps, Haunted
    <2>8. Becomes(Going(f, "play"))
      BY <2>2
    <2> HIDE DEF f
    <2>9. /\ Going(f, "play") \in Engine /\ Going(f, "play").game = f.game
          /\ Going(f, "play").proc.at = "play"
      BY <2>6, GoingKeeps
    <2> QED
      BY <1>2, <1>5, <1>6, <1>10, <2>7, <2>8, <2>9 DEF Rejects, Forgotten
  <1>11. CASE PreAdmits
    <2> DEFINE at(w) == IF w.game.seq > game.seq THEN "announce" ELSE "play"
    <2> PICK g \in Echoing(game) : \E w \in Said([Now EXCEPT !.game = g], "pre_admitted") :
          Becomes(Going(w, at(w)))
      BY <1>11 DEF PreAdmits
    <2> DEFINE m == [Now EXCEPT !.game = g]
    <2>1. PICK w \in Said(m, "pre_admitted") : Becomes(Going(w, at(w)))
      OBVIOUS
    <2>2. m \in Engine /\ ~Haunted(m.game) /\ m.game.seq = game.seq
      BY <1>9
    <2> HIDE DEF m
    <2>3. /\ w \in Engine /\ Keeps(m, w)
          /\ w.game.seq > game.seq => w.log.preAdmitted
      BY <2>1, <2>2, SaidKeeps
    <2>4. at(w) \in {"play", "announce"}
      OBVIOUS
    <2>5. /\ Going(w, at(w)) \in Engine /\ Going(w, at(w)).game = w.game
          /\ Going(w, at(w)).log = w.log /\ Going(w, at(w)).proc.at = at(w)
      BY <2>3, <2>4, GoingKeeps
    <2>6. ~Haunted(w.game)
      BY <2>2, <2>3 DEF Keeps, Haunted
    <2>7. at(w) = "announce" => Tried'
      <3>1. log' = w.log
        BY <2>1, <2>5, BecomesTyped
      <3> SUFFICES ASSUME at(w) = "announce" PROVE Tried'
        OBVIOUS
      <3>2. log'.preAdmitted
        <4>1. w.game.seq > game.seq
          OBVIOUS
        <4> QED
          BY <2>3, <3>1, <4>1
      <3> QED
        BY <1>2, <1>11, <3>2 DEF PreAdmits, Reaped, Believed, Tried
    <2> HIDE DEF at
    <2> QED
      BY <1>1, <1>5, <1>11, <2>1, <2>4, <2>5, <2>6, <2>7 DEF PreAdmits, TypeOK
  <1> QED
    BY <1>7, <1>8, <1>10, <1>11

(* The hound that was announced was tried, and goes on having been. *)
LEMMA SpawnsQuietly == ASSUME IInv, Spawns PROVE IInv'
  <1>1. TypeOK /\ OneTrial /\ Grounded(game) /\ Grounded(saved) /\ Tried
    BY DEF IInv, Spawns, Announced
  <1>2. /\ Now \in Engine /\ Now.game = game /\ Now.proc = proc /\ Now.log = log
    BY <1>1, NowIsEngine
  <1> DEFINE hound == [game EXCEPT !.active = TRUE, !.charged = 1,
                                   !.until = game.turn + HuntTurns]
             step(made) == IF made THEN [Now EXCEPT !.game = hound] ELSE Now
             name(made) == IF made THEN "accepted" ELSE "spawn_failed"
  <1>3. PICK made \in BOOLEAN : \E v \in Said(step(made), name(made)) :
           \E g \in Recollected(v.game) : Becomes(Going([v EXCEPT !.game = g], "play"))
    BY <1>2, ZenonT(30) DEF Spawns
  <1>4. PICK v \in Said(step(made), name(made)) :
           \E g \in Recollected(v.game) : Becomes(Going([v EXCEPT !.game = g], "play"))
    BY <1>3
  <1>5. PICK g \in Recollected(v.game) : Becomes(Going([v EXCEPT !.game = g], "play"))
    BY <1>4
  <1>6. /\ step(made) \in Engine /\ step(made).log = log
        /\ step(made).game.echo = game.echo
    <2>1. hound \in Game /\ hound.echo = game.echo
      <3>1. game \in Game
        BY <1>1 DEF TypeOK
      <3>2. game.turn + HuntTurns \in 0..(MaxTurn + HuntTurns)
        BY <3>1, HauntAssumption DEF Game
      <3> DEFINE until == game.turn + HuntTurns
                 made1 == [game EXCEPT !.active = TRUE]
                 made2 == [made1 EXCEPT !.charged = 1]
                 made3 == [made2 EXCEPT !.until = until]
      <3>3. hound = made3
        BY <3>1 DEF Game
      <3> HIDE DEF until
      <3>4. made1 \in Game /\ made1.echo = game.echo
        BY <3>1 DEF Game
      <3> HIDE DEF made1
      <3>5. made2 \in Game /\ made2.echo = game.echo
        BY <3>4 DEF Game
      <3> HIDE DEF made2
      <3>6. made3 \in Game /\ made3.echo = game.echo
        BY <3>2, <3>5 DEF Game, until
      <3> HIDE DEF made3, hound
      <3> QED
        BY <3>3, <3>6
    <2> HIDE DEF hound
    <2> QED
      BY <1>2, <2>1, GameKeeps
  <1> HIDE DEF step, name
  <1>7. v \in Engine /\ Keeps(step(made), v)
    BY <1>4, <1>6, SaidKeeps
  <1>8. g \in Game /\ (g.echo # "none" => v.game.echo # "none")
    BY <1>5, <1>7, RecollectedKeeps DEF Engine
  <1> DEFINE f == [v EXCEPT !.game = g]
  <1>9. f \in Engine /\ f.game = g /\ f.log = v.log
    BY <1>7, <1>8, GameKeeps
  <1>10. Becomes(Going(f, "play"))
    BY <1>5
  <1> HIDE DEF f
  <1>11. /\ Going(f, "play") \in Engine /\ Going(f, "play").game = g
         /\ Going(f, "play").log = v.log /\ Going(f, "play").proc.at = "play"
    BY <1>9, GoingKeeps
  <1>12. /\ game' \in Game /\ proc' \in Process /\ log' \in Log /\ look' \in Look
         /\ game' = g /\ proc'.at = "play" /\ log' = v.log
    BY <1>10, <1>11, BecomesTyped
  <1>13. UNCHANGED <<saved, inbox, evidence, trial, trials>>
    BY DEF Spawns, Rest
  <1>14. Tried'
    <2>1. log.preAdmitted => log'.preAdmitted
      BY <1>6, <1>7, <1>12 DEF Keeps
    <2> QED
      BY <1>1, <1>13, <2>1, TriedStays DEF evidence
  <1>15. TypeOK'
    BY <1>1, <1>12, <1>13 DEF TypeOK, inbox, evidence, Look
  <1>16. OneTrial' /\ Pending' /\ Announced'
    BY <1>1, <1>12, <1>13 DEF OneTrial, Pending, Announced, Waiting, evidence
  <1>17. Grounded(game)' /\ Grounded(saved)'
    <2>1. game'.echo # "none" => game.echo # "none"
      BY <1>6, <1>7, <1>8, <1>12 DEF Keeps
    <2> QED
      BY <1>1, <1>13, <1>14, <2>1 DEF Grounded, Haunted, evidence
  <1> QED
    BY <1>14, <1>15, <1>16, <1>17 DEF IInv

-----------------------------------------------------------------------------
(* A hound was tried *)

(* A new game has no hound, and has tried none. *)
LEMMA InitIInv == Init => IInv
  <1> SUFFICES ASSUME Init PROVE IInv
    OBVIOUS
  <1>1. NoWindow \in Window /\ Invalid \in Window /\ Bindings \subseteq Window
    BY HauntAssumption DEF NoWindow, Invalid, Window
  <1>2. game \in Game /\ saved \in Game
    BY HauntAssumption DEF Init, Game
  <1>3. proc \in Process /\ proc.at = "play"
    BY DownIsProcess DEF Init, Process
  <1>4. log \in Log /\ look \in Look
    BY <1>1 DEF Init, Log, Look, NoFirst, NoLook
  <1>5. trial \in Trial
    BY DEF Init, NoTrial, Trial
  <1>6. candidate \in {"none", "good", "bad"} /\ due \in Window
    BY <1>1 DEF Init
  <1>7. TypeOK
    BY <1>2, <1>3, <1>4, <1>5, <1>6 DEF Init, TypeOK, Look
  <1>8. OneTrial /\ Pending /\ Announced
    BY <1>3 DEF Init, OneTrial, Pending, Announced, Waiting
  <1>9. Grounded(game) /\ Grounded(saved)
    BY DEF Init, Grounded, Haunted
  <1> QED
    BY <1>7, <1>8, <1>9 DEF IInv

(* Every step of the engine, the child and the game keeps the invariant. *)
LEMMA NextIInv == IInv /\ [Next]_vars => IInv'
  <1> SUFFICES ASSUME IInv, [Next]_vars PROVE IInv'
    OBVIOUS
  <1>1. CASE UNCHANGED vars
    BY <1>1 DEF vars, engine, inbox, evidence, IInv, TypeOK, OneTrial, Pending, Waiting,
                Announced, Grounded, Tried
  <1>2. CASE Passes \/ Elsewhere \/ HoundDies \/ Checkpoint \/ Publish \/ Restore
    BY <1>2, PlaysOn
  <1>3. CASE Hangup \/ Crash
    BY <1>3, StopsQuietly
  <1>4. CASE TickBegins \/ TickPasses \/ BudgetRefuses \/ FindsNothing \/ RejectsSource
    BY <1>4, TickQuietly
  <1>5. CASE NoEvidence \/ CannotTry \/ Tries
    BY <1>5, TriesOnce
  <1>6. CASE ParentPolls
    BY <1>6, PollsQuietly
  <1>7. CASE ShadowFails \/ NoReceipt \/ Rejects \/ PreAdmits
    BY <1>7, ReapedQuietly
  <1>8. CASE Spawns
    BY <1>8, SpawnsQuietly
  <1>9. CASE Child
    BY <1>9, ChildQuietly
  <1> QED
    BY <1>1, <1>2, <1>3, <1>4, <1>5, <1>6, <1>7, <1>8, <1>9 DEF Next, Tick

(* The strengthening holds in every reachable state, whatever fails. *)
THEOREM InductiveInvariant == Spec => []IInv
  BY InitIInv, NextIInv, PTL DEF Spec

(* Every variable keeps its type. *)
THEOREM TypeCorrect == Spec => []TypeOK
  <1>1. IInv => TypeOK
    BY DEF IInv
  <1> QED
    BY <1>1, InductiveInvariant, PTL

(* A game that is haunted or charged is one whose candidate was tried once and whole,
   with the evidence of it written, in every game however long and often restored. *)
THEOREM TriedFirst == Spec => []HoundWasTried
  <1>1. IInv => HoundWasTried
    BY DEF IInv, OneTrial, Grounded, Haunted, Tried, HoundWasTried
  <1> QED
    BY <1>1, InductiveInvariant, PTL
-----------------------------------------------------------------------------
(* The first event of a candidate and its look *)

FirstNamed(l) == l.first # NoFirst /\ l.first.straight =>
                     l.first.fresh /\ ~Before(l.first.at, due)

(* no event has named the candidate, and the play can still be recorded *)
Unnamed(w) == w.log.first = NoFirst /\ w.log.straight

NotAhead(w) == Unnamed(w) => ~Before(Here(w.game), w.look.at)

(* a look of this very window that an event may name *)
Sighted(w) ==
    /\ w.look.at = Here(w.game) /\ ~Before(w.look.at, due)
    /\ w.look.fresh \/ Silent(w)

(* a window is looked in again only where nothing can be said of it *)
Once(w) == ~w.game.checked /\ w.look.at = Here(w.game) =>
               w.proc.empty = Here(w.game) \/ Silent(w)

Placed(w) ==
    /\ w.proc.at \in {"trial", "reaping", "announce"} => w.game.checked
    /\ Unnamed(w) /\ w.proc.at # "down" => Once(w)
    /\ Unnamed(w) /\ w.proc.at \in {"trial", "reaping"} => Sighted(w)

(* What makes WindowNamesTheLook inductive: until an event names the candidate,
   no look is ahead of the log; a look in the present window was an empty one that
   the process remembers, or has ended the search, or nothing can be written; and
   while the trial goes on the present window is the one of the look.             *)
Fit(w) == FirstNamed(w.log) /\ NotAhead(w) /\ Placed(w)

NamedInv == due # Invalid => Fit(Now)

(* Windows are in order. *)
LEMMA WindowsInOrder ==
    ASSUME NEW u \in Window, NEW v \in Window, NEW w \in Window
    PROVE  /\ ~Before(v, v)
           /\ ~Before(v, w) /\ v # w => Before(w, v)
           /\ ~Before(w, u) /\ Before(w, v) => ~Before(v, u) /\ v # u /\ Before(u, v)
  <1>1. /\ u.turn \in Nat /\ u.seq \in Nat /\ v.turn \in Nat /\ v.seq \in Nat
        /\ w.turn \in Nat /\ w.seq \in Nat
    BY HauntAssumption DEF Window
  <1>2. v # w => v.turn # w.turn \/ v.seq # w.seq
    BY DEF Window
  <1>3. v = u => v.turn = u.turn /\ v.seq = u.seq
    OBVIOUS
  <1> QED
    BY <1>1, <1>2, <1>3 DEF Before

(* What an engine's record is, part by part. *)
LEMMA EngineParts ==
    ASSUME NEW w \in Engine
    PROVE  /\ w.game \in Game /\ w.proc \in Process /\ w.log \in Log /\ w.look \in Look
           /\ Here(w.game) \in Window /\ w.look.at \in Window /\ w.proc.empty \in Window
           /\ w.game.seq \in Nat /\ w.game.turn \in Nat
           /\ w.proc.mute \in BOOLEAN /\ w.log.straight \in BOOLEAN
  BY HereIsWindow, HauntAssumption DEF Engine, Look, Log, Process, Game

(* An event that is written as the candidate's first names the look. *)
LEMMA LineNames ==
    ASSUME NEW w \in Engine, NEW name
    PROVE  /\ Line(w, name).look = w.look /\ Line(w, name).log.straight = w.log.straight
           /\ name \notin FirstEvents \/ w.log.first # NoFirst =>
                Line(w, name).log.first = w.log.first
           /\ name \in FirstEvents /\ w.log.first = NoFirst =>
                Line(w, name).log.first = [at |-> Here(w.game), fresh |-> w.look.fresh,
                                           straight |-> w.log.straight]
  <1> DEFINE first == IF name \in FirstEvents /\ w.log.first = NoFirst
                      THEN [at |-> Here(w.game), fresh |-> w.look.fresh,
                            straight |-> w.log.straight]
                      ELSE w.log.first
             pre == w.log.preAdmitted \/ name = "pre_admitted"
             log1 == [w.log EXCEPT !.first = first, !.preAdmitted = pre]
  <1>1. w.log \in Log
    BY DEF Engine
  <1>2. Line(w, name) = [w EXCEPT !.log = log1]
    BY <1>1 DEF Line, Engine, Log
  <1>3. log1.first = first /\ log1.straight = w.log.straight
    BY <1>1 DEF Log
  <1> HIDE DEF log1
  <1>4. Line(w, name).log = log1 /\ Line(w, name).look = w.look
    BY <1>2 DEF Engine
  <1> QED
    BY <1>3, <1>4

(* What becomes of an event: nothing; a line; a line that is lost, or lands. *)
LEMMA SaidSorts ==
    ASSUME NEW w \in Engine, NEW name, NEW v \in Said(w, name)
    PROVE  /\ v.look = w.look /\ v.game.turn = w.game.turn
           /\ v.game.checked = w.game.checked /\ v.proc.empty = w.proc.empty
           /\ \/ v = w /\ Silent(w)
              \/ /\ v.log = Line(w, name).log /\ v.proc = w.proc
                 /\ v.game.seq = w.game.seq + 1
              \/ v.log = w.log /\ v.game = w.game /\ v.proc.mute
              \/ /\ v.log.first = Line(w, name).log.first /\ ~v.log.straight
                 /\ v.game = w.game /\ v.proc.mute
  <1>1. w.game \in Game /\ w.proc \in Process /\ w.log \in Log /\ w.look \in Look
    BY EngineParts
  <1> DEFINE l == Line(w, name)
  <1>2. l \in Engine /\ l.game = w.game /\ l.proc = w.proc /\ l.look = w.look
    BY LineKeeps, LineNames
  <1> HIDE DEF l
  <1>3. CASE v = w /\ Silent(w)
    BY <1>3
  <1>4. CASE v = Counted(w, name)
    <2> DEFINE g == [w.game EXCEPT !.seq = @ + 1]
    <2>1. g.seq = w.game.seq + 1 /\ g.turn = w.game.turn /\ g.checked = w.game.checked
      BY <1>1 DEF Game
    <2>2. v = [l EXCEPT !.game = g]
      BY <1>2, <1>4 DEF Counted, l
    <2> HIDE DEF g
    <2>3. v.game = g /\ v.proc = w.proc /\ v.log = l.log /\ v.look = w.look
      BY <1>2, <2>2 DEF Engine
    <2> QED
      BY <2>1, <2>3 DEF l
  <1>5. CASE v = Lost(w)
    <2> DEFINE p == [w.proc EXCEPT !.mute = TRUE]
    <2>1. p.mute /\ p.empty = w.proc.empty
      BY <1>1 DEF Process
    <2>2. v = [w EXCEPT !.proc = p]
      BY <1>5 DEF Lost
    <2> HIDE DEF p
    <2>3. v.game = w.game /\ v.proc = p /\ v.log = w.log /\ v.look = w.look
      BY <2>2 DEF Engine
    <2> QED
      BY <2>1, <2>3
  <1>6. CASE v = Landed(w, name)
    <2> DEFINE p == [w.proc EXCEPT !.mute = TRUE]
               o == [l.log EXCEPT !.straight = FALSE]
    <2>1. p.mute /\ p.empty = w.proc.empty
      BY <1>1 DEF Process
    <2>2. l.log \in Log
      BY <1>2 DEF Engine
    <2>3. ~o.straight /\ o.first = l.log.first
      BY <2>2 DEF Log
    <2>4. v = [l EXCEPT !.proc = p, !.log = o]
      BY <1>2, <1>6 DEF Landed, l
    <2> HIDE DEF p, o
    <2>5. v.game = w.game /\ v.proc = p /\ v.log = o /\ v.look = w.look
      BY <1>2, <2>4 DEF Engine
    <2> QED
      BY <2>1, <2>3, <2>5 DEF l
  <1> QED
    BY <1>3, <1>4, <1>5, <1>6 DEF Said

(* The number of the next event is later than this one. *)
LEMMA SaidIsLater ==
    ASSUME NEW w \in Engine, NEW v \in Engine, v.game.turn = w.game.turn,
           v.game.seq = w.game.seq + 1
    PROVE  Before(Here(w.game), Here(v.game))
  <1>1. w.game.seq \in Nat
    BY EngineParts
  <1> QED
    BY <1>1 DEF Before, Here

(* As time goes on, or with another event, no look is in the present window. *)
LEMMA TimeFits ==
    ASSUME NEW w \in Engine, NEW v \in Engine, FirstNamed(v.log),
           Unnamed(v) => Unnamed(w), NotAhead(w), v.look = w.look,
           Before(Here(w.game), Here(v.game)),
           v.proc.at \notin {"trial", "reaping"}, v.proc.at = "announce" => v.game.checked
    PROVE  Fit(v)
  <1>1. Unnamed(v) => ~Before(Here(v.game), v.look.at) /\ v.look.at # Here(v.game)
    BY EngineParts, WindowsInOrder DEF NotAhead
  <1> QED
    BY <1>1 DEF Fit, NotAhead, Placed, Once

(* A handler's record with another place, or another game of the same window. *)
Alike(w, v) ==
    /\ v.game.turn = w.game.turn /\ v.game.seq = w.game.seq
    /\ v.game.checked = w.game.checked /\ v.proc.empty = w.proc.empty
    /\ v.proc.mute = w.proc.mute /\ v.log = w.log /\ v.look = w.look

(* It is as fit where the place asks no more. *)
LEMMA AlikeFits ==
    ASSUME NEW w, NEW v, Alike(w, v), Fit(w),
           \/ v.proc.at = w.proc.at
           \/ /\ v.proc.at \in {"play", "tick", "announce"} /\ w.proc.at # "down"
              /\ v.proc.at = "announce" => v.game.checked
    PROVE  Fit(v)
  <1>1. Here(v.game) = Here(w.game) /\ (Silent(v) <=> Silent(w)) /\ (Unnamed(v) <=> Unnamed(w))
    BY DEF Alike, Here, Silent, Unnamed
  <1>2. FirstNamed(v.log) /\ NotAhead(v)
    BY <1>1 DEF Fit, Alike, NotAhead
  <1>3. (Once(w) <=> Once(v)) /\ (Sighted(w) <=> Sighted(v))
    BY <1>1 DEF Alike, Once, Sighted
  <1>4. Placed(v)
    BY <1>1, <1>3 DEF Fit, Placed, Alike
  <1> QED
    BY <1>2, <1>4 DEF Fit

(* A record that goes somewhere is alike. *)
LEMMA GoingAlike ==
    ASSUME NEW w \in Engine,
           NEW at \in {"down", "play", "tick", "trial", "reaping", "announce"}
    PROVE  /\ Going(w, at) \in Engine /\ Alike(w, Going(w, at))
           /\ Going(w, at).proc.at = at /\ Going(w, at).game = w.game
  <1> DEFINE p == [w.proc EXCEPT !.at = at]
  <1>1. w.proc \in Process
    BY EngineParts
  <1>2. p.at = at /\ p.empty = w.proc.empty /\ p.mute = w.proc.mute
    BY <1>1 DEF Process
  <1>3. Going(w, at) = [w EXCEPT !.proc = p]
    BY DEF Going
  <1> HIDE DEF p
  <1>4. /\ Going(w, at).proc = p /\ Going(w, at).game = w.game
        /\ Going(w, at).log = w.log /\ Going(w, at).look = w.look
    BY <1>3 DEF Engine
  <1> QED
    BY <1>2, <1>4, GoingKeeps DEF Alike

(* So is one with a game of the same window. *)
LEMMA GameAlike ==
    ASSUME NEW w \in Engine, NEW g \in Game, g.turn = w.game.turn, g.seq = w.game.seq,
           g.checked = w.game.checked
    PROVE  /\ [w EXCEPT !.game = g] \in Engine /\ Alike(w, [w EXCEPT !.game = g])
           /\ [w EXCEPT !.game = g].game = g /\ [w EXCEPT !.game = g].proc = w.proc
  BY DEF Engine, Alike

(* An event that is not the candidate's leaves a record fit, even where a look of
   the present window had been forgotten: it ends the window or the log.         *)
LEMMA OtherFits ==
    ASSUME NEW w \in Engine, FirstNamed(w.log), NotAhead(w),
           w.proc.at \notin {"trial", "reaping"}, w.proc.at = "announce" => w.game.checked,
           NEW name, name \notin FirstEvents, NEW v \in Said(w, name)
    PROVE  Fit(v) /\ v \in Engine /\ v.proc.at = w.proc.at
  <1>1. v \in Engine /\ v.proc.at = w.proc.at
    BY SaidKeeps
  <1>2. /\ v.look = w.look /\ v.game.turn = w.game.turn
        /\ v.game.checked = w.game.checked /\ v.proc.empty = w.proc.empty
    BY SaidSorts
  <1>3. Line(w, name).log.first = w.log.first /\ Line(w, name).log.straight = w.log.straight
    BY LineNames
  <1>4. CASE v = w /\ Silent(w)
    BY <1>4, <1>1 DEF Fit, Placed, Once
  <1>5. CASE v.log = Line(w, name).log /\ v.game.seq = w.game.seq + 1
    <2>1. FirstNamed(v.log) /\ (Unnamed(v) => Unnamed(w))
      BY <1>3, <1>5 DEF FirstNamed, Unnamed
    <2>2. Before(Here(w.game), Here(v.game))
      BY <1>1, <1>2, <1>5, SaidIsLater
    <2> QED
      BY <1>1, <1>2, <2>1, <2>2, TimeFits
  <1>6. CASE v.log = w.log /\ v.game = w.game /\ v.proc.mute
    <2>1. FirstNamed(v.log) /\ NotAhead(v)
      BY <1>2, <1>6 DEF NotAhead, Unnamed
    <2>2. Silent(v)
      BY <1>6 DEF Silent
    <2> QED
      BY <1>1, <1>2, <2>1, <2>2 DEF Fit, Placed, Once
  <1>7. CASE /\ v.log.first = Line(w, name).log.first /\ ~v.log.straight
             /\ v.game = w.game /\ v.proc.mute
    <2>1. FirstNamed(v.log) /\ ~Unnamed(v)
      BY <1>3, <1>7 DEF FirstNamed, Unnamed
    <2> QED
      BY <1>1, <1>2, <2>1 DEF Fit, NotAhead, Placed
  <1> QED
    BY <1>1, <1>4, <1>5, <1>6, <1>7, SaidSorts

(* The candidate's event names a look of its own window, fresh and due. *)
LEMMA FirstFits ==
    ASSUME NEW w \in Engine, FirstNamed(w.log), Unnamed(w) => Sighted(w),
           NEW name \in FirstEvents, NEW v \in Said(w, name),
           NEW x \in Engine, Alike(v, x), x.proc.at \in {"play", "announce"},
           x.proc.at = "announce" => x.game.checked
    PROVE  Fit(x)
  <1>1. v \in Engine
    BY SaidKeeps
  <1>2. /\ v.look = w.look /\ v.game.turn = w.game.turn
        /\ v.game.checked = w.game.checked /\ v.proc.empty = w.proc.empty
    BY SaidSorts
  <1>3. /\ Line(w, name).log.straight = w.log.straight
        /\ w.log.first # NoFirst => Line(w, name).log.first = w.log.first
        /\ w.log.first = NoFirst =>
             Line(w, name).log.first = [at |-> Here(w.game), fresh |-> w.look.fresh,
                                        straight |-> w.log.straight]
    BY LineNames
  <1>4. x.log = v.log /\ x.look = v.look /\ Here(x.game) = Here(v.game) /\ (Silent(x) <=> Silent(v))
    BY DEF Alike, Here, Silent
  <1>5. CASE v.log = w.log /\ v.game = w.game /\ Silent(v)
    <2>1. FirstNamed(x.log) /\ (Unnamed(x) => Unnamed(w))
      BY <1>4, <1>5 DEF Unnamed
    <2>2. NotAhead(x)
      <3>1. Unnamed(x) => x.look.at = Here(x.game)
        BY <1>2, <1>4, <1>5, <2>1 DEF Sighted
      <3> QED
        BY <3>1, EngineParts, WindowsInOrder DEF NotAhead
    <2> QED
      BY <1>4, <1>5, <2>1, <2>2 DEF Fit, Placed, Once
  <1>6. CASE /\ v.log.first = Line(w, name).log.first /\ ~Silent(w)
             /\ v.log.straight => w.log.straight
    <2>1. Line(w, name).log.first # NoFirst
      BY <1>3, HauntAssumption, EngineParts DEF NoFirst, Here, NoWindow
    <2>2. ~Unnamed(x)
      BY <1>4, <1>6, <2>1 DEF Unnamed
    <2>3. FirstNamed(Line(w, name).log)
      <3>1. CASE w.log.first # NoFirst
        BY <1>3, <3>1 DEF FirstNamed
      <3>2. CASE w.log.first = NoFirst /\ w.log.straight
        BY <1>3, <1>6, <3>2 DEF FirstNamed, Unnamed, Sighted
      <3>3. CASE w.log.first = NoFirst /\ ~w.log.straight
        BY <1>3, <3>3 DEF FirstNamed
      <3> QED
        BY <3>1, <3>2, <3>3
    <2>4. FirstNamed(x.log)
      BY <1>4, <1>6, <2>3 DEF FirstNamed
    <2> QED
      BY <2>2, <2>4 DEF Fit, NotAhead, Placed
  <1>7. v.proc.mute => Silent(v)
    BY DEF Silent
  <1>8. v = w \/ ~Silent(w)
    BY DEF Said
  <1>9. CASE v = w
    <2>1. Silent(w) \/ v.game.seq = w.game.seq + 1 \/ v.proc.mute
      BY SaidSorts
    <2>2. v.game.seq # w.game.seq + 1
      BY <1>9, EngineParts
    <2> QED
      BY <1>5, <1>7, <1>9, <2>1, <2>2
  <1> QED
    BY <1>3, <1>5, <1>6, <1>7, <1>8, <1>9, SaidSorts

(* The engine's record after a step is the one the handler ended with. *)
LEMMA Arrives ==
    ASSUME NEW w \in Engine, Becomes(w), due' = due, due # Invalid => Fit(w)
    PROVE  NamedInv'
  <1>1. w = [game |-> w.game, proc |-> w.proc, log |-> w.log, look |-> w.look]
    BY DEF Engine
  <1>2. Now' = w
    BY <1>1 DEF Now, Becomes
  <1>3. Fit(Now)' <=> Fit(w)
    BY <1>2 DEF Fit, FirstNamed, NotAhead, Placed, Unnamed, Once, Sighted, Here, Silent,
                Before
  <1> QED
    BY <1>3 DEF NamedInv

(* A step that leaves the engine alone. *)
LEMMA EngineRests ==
    ASSUME NamedInv, UNCHANGED engine, due' = due
    PROVE  NamedInv'
  <1>1. Now' = Now
    BY DEF Now, engine
  <1> QED
    BY <1>1 DEF NamedInv, Fit, FirstNamed, NotAhead, Placed, Unnamed, Once, Sighted, Here,
                Silent, Before

(* What the look of a tick leaves: a window of its own, which is remembered where it
   was empty; and where the candidate was seen, one that an event may name.         *)
LEMMA LookFits ==
    ASSUME TypeOK, due # Invalid, Fit(Now), MayLook
    PROVE  /\ Looked(Now) \in Engine /\ Looked(Now).game = game
           /\ Looked(Now).proc.at = "tick" /\ FirstNamed(Looked(Now).log)
           /\ NotAhead(Looked(Now)) /\ Looked(Now).look.at = Here(game)
           /\ Sight(Now) = "absent" => Fit(Looked(Now))
           /\ Sight(Now) = "seen" =>
                (Unnamed(Looked(Now)) => Sighted(Looked(Now)))
           /\ Sight(Now) \in {"absent", "seen"}
  <1> DEFINE l == [at |-> Here(game), fresh |-> Before(look.at, Here(game))]
             p == [proc EXCEPT !.empty = IF Sight(Now) = "absent" THEN Here(game) ELSE @]
             r == Looked(Now)
  <1>1. Now \in Engine /\ Now.game = game /\ Now.proc = proc /\ Now.log = log /\ Now.look = look
    BY NowIsEngine DEF Now
  <1>2. Now.proc \in Process /\ Here(game) \in Window /\ look.at \in Window
        /\ proc.empty \in Window /\ due \in Window
    BY <1>1, EngineParts DEF TypeOK
  <1>3. /\ p.at = proc.at /\ p.mute = proc.mute
        /\ p.empty = IF Sight(Now) = "absent" THEN Here(game) ELSE proc.empty
    BY <1>1, <1>2 DEF Process
  <1>4. r = [Now EXCEPT !.look = l, !.proc = p]
    BY <1>1 DEF Looked, Engine
  <1>5. l.at = Here(game) /\ (l.fresh <=> Before(look.at, Here(game)))
    OBVIOUS
  <1> HIDE DEF l, p, r
  <1>6. r.game = game /\ r.proc = p /\ r.log = log /\ r.look = l
    BY <1>1, <1>4 DEF Engine
  <1>7. r \in Engine
    BY <1>1, LookedKeeps DEF r
  <1>8. proc.at = "tick" /\ ~game.checked
    BY DEF MayLook
  <1>9. (Silent(r) <=> Silent(Now)) /\ (Unnamed(r) <=> Unnamed(Now))
    BY <1>1, <1>3, <1>6 DEF Silent, Unnamed
  <1>10. FirstNamed(r.log) /\ NotAhead(r)
    <2>1. ~Before(Here(game), Here(game))
      BY <1>2, WindowsInOrder
    <2> QED
      BY <1>1, <1>5, <1>6, <2>1 DEF Fit, NotAhead
  <1>11. Sight(Now) = "absent" => Fit(r)
    BY <1>3, <1>6, <1>8, <1>10 DEF Fit, Placed, Once
  <1>12. Sight(Now) = "seen" => (Unnamed(r) => Sighted(r))
    <2> SUFFICES ASSUME Sight(Now) = "seen", Unnamed(r) PROVE Sighted(r)
      OBVIOUS
    <2>1. Here(game) # proc.empty /\ ~Before(Here(game), due)
      BY <1>1 DEF Sight
    <2>2. ~Before(Here(game), look.at) /\ (look.at = Here(game) => Silent(Now))
      BY <1>1, <1>8, <1>9, <2>1 DEF Fit, NotAhead, Placed, Once
    <2>3. Before(look.at, Here(game)) \/ Silent(Now)
      BY <1>2, <2>2, WindowsInOrder
    <2> QED
      BY <1>5, <1>6, <1>9, <2>1, <2>3 DEF Sighted
  <1>13. Sight(Now) \in {"absent", "seen"}
    BY DEF Sight
  <1> QED
    BY <1>3, <1>5, <1>6, <1>7, <1>8, <1>10, <1>11, <1>12, <1>13 DEF r

(* The end of the search, too, is of the same window. *)
LEMMA CheckedIs ==
    ASSUME NEW w \in Engine
    PROVE  /\ Checked(w) \in Engine /\ Checked(w).game.checked
           /\ Checked(w).proc = w.proc /\ Checked(w).log = w.log /\ Checked(w).look = w.look
           /\ Here(Checked(w).game) = Here(w.game) /\ (Silent(Checked(w)) <=> Silent(w))
  <1> DEFINE g == [w.game EXCEPT !.checked = TRUE]
  <1>1. w.game \in Game
    BY EngineParts
  <1>2. g.checked /\ g.turn = w.game.turn /\ g.seq = w.game.seq
    BY <1>1 DEF Game
  <1>3. Checked(w) = [w EXCEPT !.game = g]
    BY DEF Checked
  <1> HIDE DEF g
  <1>4. /\ Checked(w).game = g /\ Checked(w).proc = w.proc
        /\ Checked(w).log = w.log /\ Checked(w).look = w.look
    BY <1>3 DEF Engine
  <1> QED
    BY <1>2, <1>4, CheckedKeeps DEF Here, Silent

(* With the search over, a look is as good as none. *)
LEMMA CheckedFits ==
    ASSUME NEW w \in Engine, FirstNamed(w.log), NotAhead(w),
           NEW at \in {"play", "trial"},
           at = "trial" => (Unnamed(w) => Sighted(w))
    PROVE  Going(Checked(w), at) \in Engine /\ Fit(Going(Checked(w), at))
  <1> DEFINE c == Checked(w)
             x == Going(c, at)
  <1>1. /\ c \in Engine /\ c.game.checked /\ c.proc = w.proc /\ c.log = w.log /\ c.look = w.look
        /\ Here(c.game) = Here(w.game) /\ (Silent(c) <=> Silent(w))
    BY CheckedIs
  <1> HIDE DEF c
  <1>2. x \in Engine /\ Alike(c, x) /\ x.proc.at = at
    BY <1>1, GoingAlike
  <1> HIDE DEF x
  <1>3. /\ x.game.checked /\ x.log = w.log /\ x.look = w.look
        /\ Here(x.game) = Here(w.game) /\ (Silent(x) <=> Silent(w))
    BY <1>1, <1>2 DEF Alike, Here, Silent
  <1>4. Unnamed(x) <=> Unnamed(w)
    BY <1>3 DEF Unnamed
  <1>5. FirstNamed(x.log) /\ NotAhead(x)
    BY <1>3, <1>4 DEF NotAhead
  <1>6. Placed(x)
    BY <1>2, <1>3, <1>4 DEF Placed, Once, Sighted
  <1>7. x \in Engine /\ Fit(x)
    BY <1>2, <1>5, <1>6 DEF Fit
  <1> QED
    BY <1>7 DEF x, c

(* Between two ticks: a turn, other events, saves, the end of the process. *)
LEMMA PlayNames ==
    ASSUME TypeOK, NamedInv, Passes \/ Elsewhere \/ HoundDies \/ Checkpoint \/ Publish
    PROVE  NamedInv'
  <1>1. Now \in Engine /\ Now.game = game /\ Now.proc = proc /\ Now.log = log /\ Now.look = look
    BY NowIsEngine DEF Now
  <1>2. due # Invalid => Fit(Now)
    BY DEF NamedInv
  <1>3. CASE Passes
    <2> DEFINE g == [game EXCEPT !.turn = @ + 1]
               w == [Now EXCEPT !.game = g]
    <2>1. g \in Game /\ g.turn = game.turn + 1
      BY <1>3, HauntAssumption DEF Passes, TypeOK, Game
    <2>2. w \in Engine /\ w.game = g /\ w.proc = proc /\ w.log = log /\ w.look = look
      BY <1>1, <2>1 DEF Engine, Now
    <2>3. Becomes(w)
      BY <1>3, <2>2 DEF Passes, Becomes
    <2>4. Before(Here(game), Here(g))
      <3>1. game.turn \in Nat
        BY <1>1, EngineParts
      <3> QED
        BY <2>1, <3>1 DEF Before, Here
    <2> HIDE DEF w, g
    <2>5. due # Invalid => Fit(w)
      <3> SUFFICES ASSUME due # Invalid PROVE Fit(w)
        OBVIOUS
      <3>1. Fit(Now) /\ FirstNamed(w.log) /\ NotAhead(Now) /\ (Unnamed(w) => Unnamed(Now))
        BY <1>1, <1>2, <2>2 DEF Fit, Unnamed
      <3>2. w.look = Now.look /\ Before(Here(Now.game), Here(w.game)) /\ w.proc.at = "play"
        BY <1>1, <1>3, <2>2, <2>4 DEF Passes
      <3> QED
        BY <1>1, <2>2, <3>1, <3>2, TimeFits
    <2>6. due' = due
      BY <1>3 DEF Passes, Rest, inbox
    <2> QED
      BY <2>2, <2>3, <2>5, <2>6, Arrives
  <1>4. CASE Elsewhere
    <2>1. proc.at = "play" /\ due' = due
      BY <1>4 DEF Elsewhere, Rest, inbox
    <2>2. PICK w \in Said(Now, "") : Becomes(w)
      BY <1>4 DEF Elsewhere
    <2>3. w \in Engine
      BY <1>1, SaidKeeps
    <2>4. due # Invalid => Fit(w)
      BY <1>1, <1>2, <2>1, OtherFits DEF Fit, FirstEvents
    <2> QED
      BY <2>1, <2>2, <2>3, <2>4, Arrives
  <1>5. CASE HoundDies
    <2> DEFINE g == [game EXCEPT !.active = FALSE]
               m == [Now EXCEPT !.game = g]
    <2>1. /\ g \in Game /\ g.turn = game.turn /\ g.seq = game.seq /\ g.checked = game.checked
      BY DEF TypeOK, Game
    <2>2. m = [Now EXCEPT !.game.active = FALSE]
      BY <1>1
    <2>3. PICK w \in Said(m, "killed") : Becomes(w)
      BY <1>5, <2>2 DEF HoundDies
    <2> HIDE DEF g
    <2>4. m \in Engine /\ Alike(Now, m) /\ m.proc = proc
      BY <1>1, <2>1, GameAlike
    <2> HIDE DEF m
    <2>5. proc.at = "play" /\ due' = due
      BY <1>5 DEF HoundDies, Rest, inbox
    <2>6. due # Invalid => Fit(m)
      BY <1>1, <1>2, <2>4, AlikeFits
    <2>7. w \in Engine
      BY <2>3, <2>4, SaidKeeps
    <2>8. due # Invalid => Fit(w)
      BY <2>3, <2>4, <2>5, <2>6, OtherFits DEF Fit, FirstEvents
    <2> QED
      BY <2>3, <2>5, <2>7, <2>8, Arrives
  <1>6. CASE Checkpoint \/ Publish
    BY <1>6, EngineRests DEF Checkpoint, Publish, Rest, inbox
  <1> QED
    BY <1>3, <1>4, <1>5, <1>6

(* A process that ends leaves a log that may be gone on with, or one that tells of
   windows that are to come again.                                                *)
LEMMA StopNames == ASSUME TypeOK, NamedInv, Hangup \/ Crash PROVE NamedInv'
  <1> DEFINE p == [Down EXCEPT !.run = proc.run]
  <1>1. Now \in Engine /\ Now.game = game /\ Now.proc = proc /\ Now.log = log /\ Now.look = look
    BY NowIsEngine DEF Now
  <1>2. due' = due /\ look' = look /\ proc' = p
    BY DEF Hangup, Crash, Orphaned, inbox
  <1>3. p.at = "down" /\ p \in Process
    BY DownIsProcess DEF TypeOK, Process
  <1>4. CASE Hangup
    <2> DEFINE w == [Now EXCEPT !.proc = p]
    <2>1. w \in Engine /\ w.game = game /\ w.proc = p /\ w.log = log /\ w.look = look
      BY <1>1, <1>3 DEF Engine, Now
    <2>2. Becomes(w)
      BY <1>2, <1>4, <2>1 DEF Hangup, Becomes
    <2> HIDE DEF w, p
    <2>3. due # Invalid => Fit(w)
      BY <1>1, <1>3, <2>1 DEF NamedInv, Fit, NotAhead, Unnamed, Placed
    <2> QED
      BY <1>2, <2>1, <2>2, <2>3, Arrives
  <1>5. CASE Crash
    <2> DEFINE o == [log EXCEPT !.straight = @ /\ Here(saved) = Here(game)]
               w == [game |-> saved, proc |-> p, log |-> o, look |-> look]
    <2>1. /\ o \in Log /\ o.first = log.first
          /\ o.straight => log.straight /\ Here(saved) = Here(game)
      BY DEF TypeOK, Log
    <2>2. w \in Engine /\ w.game = saved /\ w.proc = p /\ w.log = o /\ w.look = look
      BY <1>1, <1>3, <2>1 DEF Engine, TypeOK
    <2>3. Becomes(w)
      BY <1>2, <1>5 DEF Crash, Becomes
    <2> HIDE DEF w, p, o
    <2>4. due # Invalid => Fit(w)
      <3>1. due # Invalid => FirstNamed(w.log) /\ NotAhead(w)
        BY <1>1, <2>1, <2>2 DEF NamedInv, Fit, FirstNamed, NotAhead, Unnamed
      <3> QED
        BY <1>3, <2>2, <3>1 DEF Fit, Placed
    <2> QED
      BY <1>2, <2>2, <2>3, <2>4, Arrives
  <1> QED
    BY <1>4, <1>5

(* A restore begins a window of its own, or can say nothing. *)
LEMMA RestoreNames == ASSUME TypeOK, NamedInv, Restore PROVE NamedInv'
  <1> DEFINE p == [Down EXCEPT !.at = "play", !.run = proc.run + 1]
             m == [Now EXCEPT !.proc = p]
  <1>1. Now \in Engine /\ Now.game = game /\ Now.proc = proc /\ Now.log = log /\ Now.look = look
    BY NowIsEngine DEF Now
  <1>2. p \in Process /\ p.at = "play"
    <2>1. proc.run + 1 \in 1..MaxRuns
      BY HauntAssumption DEF Restore, TypeOK, Process
    <2> QED
      BY <2>1, DownIsProcess DEF Process
  <1>3. m \in Engine /\ m.game = game /\ m.proc = p /\ m.log = log /\ m.look = look
    BY <1>1, <1>2 DEF Engine
  <1>4. PICK w \in Said(m, "session") : Becomes(w)
    BY DEF Restore
  <1> HIDE DEF m, p
  <1>5. w \in Engine
    BY <1>3, SaidKeeps
  <1>6. due # Invalid => FirstNamed(m.log) /\ NotAhead(m)
    BY <1>1, <1>3 DEF NamedInv, Fit, NotAhead, Unnamed
  <1>7. due # Invalid => Fit(w)
    BY <1>2, <1>3, <1>6, OtherFits DEF FirstEvents
  <1>8. due' = due
    BY DEF Restore, Rest, inbox
  <1> QED
    BY <1>4, <1>5, <1>7, <1>8, Arrives

(* The first half of a tick is of other things. *)
LEMMA TickNames == ASSUME TypeOK, NamedInv, TickBegins \/ TickPasses PROVE NamedInv'
  <1>1. Now \in Engine /\ Now.game = game /\ Now.proc = proc /\ Now.log = log
    BY NowIsEngine
  <1>2. due # Invalid => Fit(Now)
    BY DEF NamedInv
  <1>3. due' = due
    BY DEF TickBegins, TickPasses, Rest, inbox
  <1>4. CASE TickPasses
    <2>1. Going(Now, "play") \in Engine /\ Alike(Now, Going(Now, "play"))
          /\ Going(Now, "play").proc.at = "play"
      BY <1>1, GoingAlike
    <2>2. Becomes(Going(Now, "play")) /\ proc.at = "tick"
      BY <1>4 DEF TickPasses
    <2>3. due # Invalid => Fit(Going(Now, "play"))
      BY <1>1, <1>2, <2>1, <2>2, AlikeFits
    <2> QED
      BY <1>3, <2>1, <2>2, <2>3, Arrives
  <1>5. CASE TickBegins
    <2>1. PICK over \in BOOLEAN, back \in BOOLEAN :
            \E v \in Ended(Now, over) :
            \E w \in Trailed([v EXCEPT !.game.tick = game.turn], back) :
            \E g \in Recollected(w.game) :
              Becomes(Going([w EXCEPT !.game = g], IF proc.mute THEN "play" ELSE "tick"))
      BY <1>5 DEF TickBegins
    <2>2. PICK v \in Ended(Now, over) :
            \E w \in Trailed([v EXCEPT !.game.tick = game.turn], back) :
            \E g \in Recollected(w.game) :
              Becomes(Going([w EXCEPT !.game = g], IF proc.mute THEN "play" ELSE "tick"))
      BY <2>1
    <2>3. PICK w \in Trailed([v EXCEPT !.game.tick = game.turn], back) :
            \E g \in Recollected(w.game) :
              Becomes(Going([w EXCEPT !.game = g], IF proc.mute THEN "play" ELSE "tick"))
      BY <2>2
    <2>4. PICK g \in Recollected(w.game) :
              Becomes(Going([w EXCEPT !.game = g], IF proc.mute THEN "play" ELSE "tick"))
      BY <2>3
    <2>5. proc.at = "play"
      BY <1>5 DEF TickBegins
    <2>6. v \in Engine /\ v.proc.at = "play" /\ (due # Invalid => Fit(v))
      <3> DEFINE e == [game EXCEPT !.active = FALSE]
                 m == [Now EXCEPT !.game = e]
      <3>1. /\ e \in Game /\ e.turn = game.turn /\ e.seq = game.seq
            /\ e.checked = game.checked
        BY DEF TypeOK, Game
      <3>2. m = [Now EXCEPT !.game.active = FALSE]
        BY <1>1
      <3>3. v = Now \/ v \in Said(m, "expired")
        BY <3>2 DEF Ended
      <3> HIDE DEF e
      <3>4. m \in Engine /\ Alike(Now, m) /\ m.proc = proc
        BY <1>1, <3>1, GameAlike
      <3> HIDE DEF m
      <3>5. due # Invalid => Fit(m)
        BY <1>1, <1>2, <3>4, AlikeFits
      <3>6. CASE v = Now
        BY <1>1, <1>2, <2>5, <3>6
      <3>7. CASE v \in Said(m, "expired")
        <4>1. v \in Engine /\ v.proc.at = "play"
          BY <2>5, <3>4, <3>7, SaidKeeps
        <4>2. due # Invalid => Fit(v)
          BY <2>5, <3>4, <3>5, <3>7, OtherFits DEF Fit, FirstEvents
        <4> QED
          BY <4>1, <4>2
      <3> QED
        BY <3>3, <3>6, <3>7
    <2>7. w \in Engine /\ w.proc.at = "play" /\ (due # Invalid => Fit(w))
      <3> DEFINE t == [v.game EXCEPT !.tick = game.turn]
                 s == [v EXCEPT !.game = t]
                 b == [t EXCEPT !.backtracks = TRUE]
                 m == [s EXCEPT !.game = b]
      <3>1. /\ t \in Game /\ t.turn = v.game.turn /\ t.seq = v.game.seq
            /\ t.checked = v.game.checked
        <4>1. v.game \in Game /\ game.turn \in 0..MaxTurn
          BY <2>6, EngineParts, HauntAssumption DEF TypeOK, Game
        <4> QED
          BY <4>1 DEF Game
      <3>2. s = [v EXCEPT !.game.tick = game.turn]
        OBVIOUS
      <3> HIDE DEF t
      <3>3. s \in Engine /\ Alike(v, s) /\ s.proc = v.proc /\ s.game = t
        BY <2>6, <3>1, GameAlike
      <3> HIDE DEF s
      <3>4. /\ b \in Game /\ b.turn = t.turn /\ b.seq = t.seq /\ b.checked = t.checked
        BY <3>1 DEF Game
      <3>5. m = [s EXCEPT !.game.backtracks = TRUE]
        BY <3>3
      <3>6. w = s \/ w \in Said(m, "")
        BY <3>2, <3>5 DEF Trailed
      <3> HIDE DEF b
      <3>7. m \in Engine /\ Alike(s, m) /\ m.proc = s.proc
        BY <3>3, <3>4, GameAlike
      <3> HIDE DEF m
      <3>8. due # Invalid => Fit(s)
        BY <2>6, <3>3, AlikeFits
      <3>9. due # Invalid => Fit(m)
        BY <3>7, <3>8, AlikeFits
      <3>10. CASE w = s
        BY <2>6, <3>3, <3>8, <3>10
      <3>11. CASE w \in Said(m, "")
        <4>1. w \in Engine /\ w.proc.at = "play"
          BY <2>6, <3>3, <3>7, <3>11, SaidKeeps, ZenonT(30)
        <4>2. due # Invalid => Fit(w)
          BY <2>6, <3>3, <3>7, <3>9, <3>11, OtherFits DEF Fit, FirstEvents
        <4> QED
          BY <4>1, <4>2
      <3> QED
        BY <3>6, <3>10, <3>11
    <2>8. /\ g \in Game /\ g.turn = w.game.turn /\ g.seq = w.game.seq
          /\ g.checked = w.game.checked
      <3>1. w.game \in Game
        BY <2>7, EngineParts
      <3> QED
        BY <3>1 DEF Recollected, Game
    <2> DEFINE h == [w EXCEPT !.game = g]
               at == IF proc.mute THEN "play" ELSE "tick"
               x == Going(h, at)
    <2>9. Becomes(x)
      BY <2>4
    <2>10. at \in {"play", "tick"}
      OBVIOUS
    <2>11. h \in Engine /\ Alike(w, h) /\ h.proc = w.proc
      BY <2>7, <2>8, GameAlike
    <2> HIDE DEF h, at
    <2>12. x \in Engine /\ Alike(h, x) /\ x.proc.at = at
      BY <2>10, <2>11, GoingAlike
    <2> HIDE DEF x
    <2>13. due # Invalid => Fit(h)
      BY <2>7, <2>11, AlikeFits
    <2>14. due # Invalid => Fit(x)
      BY <2>7, <2>10, <2>11, <2>12, <2>13, AlikeFits
    <2> QED
      BY <1>3, <2>9, <2>12, <2>14, Arrives
  <1> QED
    BY <1>4, <1>5

(* A look that ends with the tick. *)
LEMMA LookNames ==
    ASSUME TypeOK, NamedInv, BudgetRefuses \/ FindsNothing \/ RejectsSource
    PROVE  NamedInv'
  <1> DEFINE r == Looked(Now)
  <1>1. Now \in Engine /\ due' = due /\ MayLook
    BY NowIsEngine DEF BudgetRefuses, FindsNothing, RejectsSource, Rest, inbox
  <1>2. r \in Engine
    BY <1>1, LookedKeeps
  <1>3. due # Invalid =>
          /\ r.game = game /\ r.proc.at = "tick" /\ FirstNamed(r.log) /\ NotAhead(r)
          /\ Sight(Now) = "absent" => Fit(r)
          /\ Sight(Now) = "seen" => (Unnamed(r) => Sighted(r))
          /\ Sight(Now) \in {"absent", "seen"}
    BY <1>1, LookFits DEF NamedInv
  <1>4. CASE Becomes(Going(r, "play")) /\ Sight(Now) # "seen"
    <2>1. Going(r, "play") \in Engine /\ Alike(r, Going(r, "play"))
          /\ Going(r, "play").proc.at = "play"
      BY <1>2, GoingAlike
    <2>2. due # Invalid => Fit(Going(r, "play"))
      BY <1>3, <1>4, <2>1, AlikeFits
    <2> QED
      BY <1>1, <1>4, <2>1, <2>2, Arrives
  <1>5. CASE BudgetRefuses /\ Sight(Now) = "seen"
    <2> DEFINE p == [r.proc EXCEPT !.budgetLogged = TRUE]
               m == [r EXCEPT !.proc = p]
    <2>1. m = [r EXCEPT !.proc.budgetLogged = TRUE]
      OBVIOUS
    <2>2. PICK w \in Said(m, "budget") : Becomes(Going(w, "play"))
      BY <1>5, <2>1 DEF BudgetRefuses
    <2>3. r.proc \in Process
      BY <1>2, EngineParts
    <2>4. /\ p \in Process /\ p.mute = r.proc.mute
      BY <2>3 DEF Process
    <2> HIDE DEF p, r
    <2>5. m \in Engine /\ m.game = r.game /\ m.proc = p /\ m.log = r.log /\ m.look = r.look
      BY <1>2, <2>4 DEF Engine
    <2> HIDE DEF m
    <2>6. w \in Engine
      BY <2>2, <2>5, SaidKeeps
    <2>7. Going(w, "play") \in Engine /\ Alike(w, Going(w, "play"))
          /\ Going(w, "play").proc.at = "play"
      BY <2>6, GoingAlike
    <2>8. due # Invalid => FirstNamed(m.log) /\ (Unnamed(m) => Sighted(m))
      BY <1>3, <1>5, <2>4, <2>5 DEF Unnamed, Sighted, Silent
    <2>9. "budget" \in FirstEvents
      BY DEF FirstEvents
    <2>10. due # Invalid => Fit(Going(w, "play"))
      BY <2>2, <2>5, <2>7, <2>8, <2>9, FirstFits
    <2> QED
      BY <1>1, <2>2, <2>7, <2>10, Arrives
  <1>6. CASE RejectsSource
    <2> DEFINE c == Checked(r)
    <2>1. PICK w \in Said(c, "source_rejected") : Becomes(Going(w, "play"))
      BY <1>6 DEF RejectsSource
    <2>2. due # Invalid => Sight(Now) = "seen"
      BY <1>3, <1>6 DEF RejectsSource
    <2> HIDE DEF r
    <2>3. /\ c \in Engine /\ c.log = r.log /\ c.look = r.look
          /\ Here(c.game) = Here(r.game) /\ (Silent(c) <=> Silent(r))
      BY <1>2, CheckedIs
    <2> HIDE DEF c
    <2>4. w \in Engine
      BY <2>1, <2>3, SaidKeeps
    <2>5. Going(w, "play") \in Engine /\ Alike(w, Going(w, "play"))
          /\ Going(w, "play").proc.at = "play"
      BY <2>4, GoingAlike
    <2>6. due # Invalid => FirstNamed(c.log) /\ (Unnamed(c) => Sighted(c))
      BY <1>3, <2>2, <2>3 DEF Unnamed, Sighted
    <2>7. "source_rejected" \in FirstEvents
      BY DEF FirstEvents
    <2>8. due # Invalid => Fit(Going(w, "play"))
      BY <2>1, <2>3, <2>5, <2>6, <2>7, FirstFits
    <2> QED
      BY <1>1, <2>1, <2>5, <2>8, Arrives
  <1>7. CASE FindsNothing \/ (BudgetRefuses /\ Sight(Now) # "seen")
    BY <1>4, <1>7 DEF FindsNothing, BudgetRefuses
  <1> QED
    BY <1>5, <1>6, <1>7

(* The evidence and the trial: the look that found the candidate is of the window
   that the trial leaves as it is.                                               *)
LEMMA TrialNames ==
    ASSUME TypeOK, NamedInv, NoEvidence \/ CannotTry \/ Tries \/ ParentPolls
    PROVE  NamedInv'
  <1> DEFINE r == Looked(Now)
  <1>1. /\ Now \in Engine /\ Now.game = game /\ Now.proc = proc /\ Now.log = log
        /\ Now.look = look
    BY NowIsEngine DEF Now
  <1>2. due' = due
    BY DEF NoEvidence, CannotTry, Tries, ParentPolls, inbox
  <1>3. CASE NoEvidence \/ Tries
    <2>1. MayLook /\ Sight(Now) = "seen"
      BY <1>3 DEF NoEvidence, Tries, Sees
    <2>2. PICK at \in {"play", "trial"} : Becomes(Going(Checked(r), at))
      BY <1>3 DEF NoEvidence, Tries
    <2>3. r \in Engine
      BY <1>1, LookedKeeps
    <2>4. due # Invalid => FirstNamed(r.log) /\ NotAhead(r) /\ (Unnamed(r) => Sighted(r))
      BY <2>1, LookFits DEF NamedInv
    <2> HIDE DEF r
    <2>5. due # Invalid => Fit(Going(Checked(r), at))
      BY <2>3, <2>4, CheckedFits
    <2>6. Going(Checked(r), at) \in Engine
      BY <2>3, CheckedKeeps, GoingAlike
    <2> QED
      BY <1>2, <2>2, <2>5, <2>6, Arrives
  <1>4. CASE CannotTry
    <2> DEFINE c == Checked(r)
    <2>1. MayLook /\ Sight(Now) = "seen"
      BY <1>4 DEF CannotTry, Sees
    <2>2. PICK w \in Said(c, "shadow_failed") : Becomes(Going(w, "play"))
      BY <1>4 DEF CannotTry
    <2>3. r \in Engine
      BY <1>1, LookedKeeps
    <2>4. due # Invalid => r.game = game /\ FirstNamed(r.log) /\ (Unnamed(r) => Sighted(r))
      BY <2>1, LookFits DEF NamedInv
    <2> HIDE DEF r
    <2>5. /\ c \in Engine /\ c.log = r.log /\ c.look = r.look
          /\ Here(c.game) = Here(r.game) /\ (Silent(c) <=> Silent(r))
      BY <2>3, CheckedIs
    <2> HIDE DEF c
    <2>6. w \in Engine
      BY <2>2, <2>5, SaidKeeps
    <2>7. Going(w, "play") \in Engine /\ Alike(w, Going(w, "play"))
          /\ Going(w, "play").proc.at = "play"
      BY <2>6, GoingAlike
    <2>8. due # Invalid => FirstNamed(c.log) /\ (Unnamed(c) => Sighted(c))
      BY <2>4, <2>5 DEF Unnamed, Sighted
    <2>9. "shadow_failed" \in FirstEvents
      BY DEF FirstEvents
    <2>10. due # Invalid => Fit(Going(w, "play"))
      BY <2>2, <2>5, <2>7, <2>8, <2>9, FirstFits
    <2> QED
      BY <1>2, <2>2, <2>7, <2>10, Arrives
  <1>5. CASE ParentPolls
    <2> DEFINE w == Going(Now, "reaping")
    <2>1. w \in Engine /\ Alike(Now, w) /\ w.proc.at = "reaping" /\ w.game = game
      BY <1>1, GoingAlike
    <2>2. w = [Now EXCEPT !.proc = [proc EXCEPT !.at = "reaping"]]
      BY <1>1 DEF Going
    <2>3. Becomes(w)
      BY <1>1, <1>5, <2>2 DEF ParentPolls, Becomes, Now
    <2> HIDE DEF w
    <2>4. due # Invalid => Fit(w)
      <3> SUFFICES ASSUME due # Invalid PROVE Fit(w)
        OBVIOUS
      <3>1. Fit(Now) /\ proc.at = "trial"
        BY <1>5 DEF NamedInv, ParentPolls
      <3>2. /\ w.log = log /\ w.look = look /\ Here(w.game) = Here(game)
            /\ (Silent(w) <=> Silent(Now)) /\ (Unnamed(w) <=> Unnamed(Now))
        BY <1>1, <2>1 DEF Alike, Silent, Unnamed
      <3>3. FirstNamed(w.log) /\ NotAhead(w) /\ game.checked
            /\ (Unnamed(w) => Sighted(w))
        BY <1>1, <3>1, <3>2 DEF Fit, NotAhead, Placed, Sighted
      <3> QED
        BY <2>1, <3>3 DEF Fit, Placed, Once
    <2> QED
      BY <1>2, <2>1, <2>3, <2>4, Arrives
  <1> QED
    BY <1>3, <1>4, <1>5

(* What the engine says of the trial names the look it was made for. *)
LEMMA ReapedNames ==
    ASSUME TypeOK, NamedInv, ShadowFails \/ NoReceipt \/ Rejects \/ PreAdmits
    PROVE  NamedInv'
  <1>1. /\ Now \in Engine /\ Now.game = game /\ Now.proc = proc /\ Now.log = log
        /\ Now.look = look
    BY NowIsEngine DEF Now
  <1>2. due' = due /\ proc.at = "reaping"
    BY DEF ShadowFails, NoReceipt, Rejects, PreAdmits, inbox, Reaped
  <1>3. due # Invalid =>
          /\ FirstNamed(Now.log) /\ NotAhead(Now) /\ game.checked
          /\ Unnamed(Now) => Sighted(Now)
    BY <1>1, <1>2 DEF NamedInv, Fit, Placed
  <1>4. CASE ShadowFails
    <2>1. PICK w \in Said(Now, "shadow_failed") : Becomes(Going(w, "play"))
      BY <1>4 DEF ShadowFails
    <2>2. w \in Engine
      BY <1>1, SaidKeeps
    <2>3. Going(w, "play") \in Engine /\ Alike(w, Going(w, "play"))
          /\ Going(w, "play").proc.at = "play"
      BY <2>2, GoingAlike
    <2>4. "shadow_failed" \in FirstEvents
      BY DEF FirstEvents
    <2>5. due # Invalid => Fit(Going(w, "play"))
      BY <1>1, <1>3, <2>1, <2>3, <2>4, FirstFits
    <2> QED
      BY <1>2, <2>1, <2>3, <2>5, Arrives
  <1>5. CASE NoReceipt
    <2>1. Going(Now, "play") \in Engine /\ Alike(Now, Going(Now, "play"))
          /\ Going(Now, "play").proc.at = "play"
      BY <1>1, GoingAlike
    <2>2. Becomes(Going(Now, "play"))
      BY <1>5 DEF NoReceipt
    <2>3. due # Invalid => Fit(Going(Now, "play"))
      BY <1>1, <1>2, <2>1, AlikeFits DEF NamedInv
    <2> QED
      BY <1>2, <2>1, <2>2, <2>3, Arrives
  <1>6. CASE Rejects \/ PreAdmits
    <2>1. \E g \in Echoing(game), name \in FirstEvents, at \in {"play", "announce"} :
          \E w \in Said([Now EXCEPT !.game = g], name) :
          \E h \in Recollected(w.game) \cup {w.game} :
            Becomes(Going([w EXCEPT !.game = h], at))
      <3>1. CASE Rejects
        <4>1. PICK g \in Echoing(game) : \E w \in Said([Now EXCEPT !.game = g], "rejected") :
                \E h \in Recollected(w.game) : Becomes(Going([w EXCEPT !.game = h], "play"))
          BY <3>1 DEF Rejects
        <4>2. "rejected" \in FirstEvents
          BY DEF FirstEvents
        <4> QED
          BY <4>1, <4>2
      <3>2. CASE PreAdmits
        <4>1. PICK g \in Echoing(game) : \E w \in Said([Now EXCEPT !.game = g], "pre_admitted") :
                Becomes(Going(w, IF w.game.seq > game.seq THEN "announce" ELSE "play"))
          BY <3>2 DEF PreAdmits
        <4>2. PICK w \in Said([Now EXCEPT !.game = g], "pre_admitted") :
                Becomes(Going(w, IF w.game.seq > game.seq THEN "announce" ELSE "play"))
          BY <4>1
        <4> DEFINE at == IF w.game.seq > game.seq THEN "announce" ELSE "play"
        <4>3. at \in {"announce", "play"} /\ Becomes(Going(w, at))
          BY <4>2
        <4> HIDE DEF at
        <4>4. g \in Game
          <5>1. game \in Game
            BY DEF TypeOK
          <5> QED
            BY <5>1 DEF Echoing, Game
        <4>5. w \in Engine
          BY <1>1, <4>2, <4>4, GameKeeps, SaidKeeps
        <4>6. [w EXCEPT !.game = w.game] = w
          BY <4>5 DEF Engine
        <4>7. "pre_admitted" \in FirstEvents /\ w.game \in Recollected(w.game) \cup {w.game}
          BY DEF FirstEvents
        <4>8. Becomes(Going([w EXCEPT !.game = w.game], at))
          BY <4>3, <4>6
        <4> QED
          BY <4>2, <4>3, <4>7, <4>8
      <3> QED
        BY <1>6, <3>1, <3>2
    <2>2. PICK g \in Echoing(game), name \in FirstEvents, at \in {"play", "announce"} :
            \E w \in Said([Now EXCEPT !.game = g], name) :
            \E h \in Recollected(w.game) \cup {w.game} :
              Becomes(Going([w EXCEPT !.game = h], at))
      BY <2>1
    <2>3. PICK w \in Said([Now EXCEPT !.game = g], name) :
            \E h \in Recollected(w.game) \cup {w.game} :
              Becomes(Going([w EXCEPT !.game = h], at))
      BY <2>2
    <2>4. PICK h \in Recollected(w.game) \cup {w.game} :
            Becomes(Going([w EXCEPT !.game = h], at))
      BY <2>3
    <2> DEFINE m == [Now EXCEPT !.game = g]
               k == [w EXCEPT !.game = h]
               x == Going(k, at)
    <2>5. /\ g \in Game /\ g.turn = game.turn /\ g.seq = game.seq /\ g.checked = game.checked
      <3>1. game \in Game
        BY DEF TypeOK
      <3> QED
        BY <3>1 DEF Echoing, Game
    <2>6. w \in Said(m, name) /\ Becomes(x)
      BY <2>4, <2>3
    <2>7. m \in Engine /\ Alike(Now, m) /\ m.game = g /\ m.proc = proc
      BY <1>1, <2>5, GameAlike
    <2> HIDE DEF m
    <2>8. w \in Engine /\ w.game.checked = m.game.checked
      BY <2>6, <2>7, SaidKeeps, SaidSorts
    <2>9. /\ h \in Game /\ h.turn = w.game.turn /\ h.seq = w.game.seq
          /\ h.checked = w.game.checked
      <3>1. w.game \in Game
        BY <2>8, EngineParts
      <3> QED
        BY <3>1 DEF Recollected, Game
    <2>10. k \in Engine /\ Alike(w, k) /\ k.game = h
      BY <2>8, <2>9, GameAlike
    <2> HIDE DEF k
    <2>11. x \in Engine /\ Alike(k, x) /\ x.proc.at = at /\ x.game = h
      BY <2>10, GoingAlike
    <2> HIDE DEF x
    <2>12. Alike(w, x)
      BY <2>10, <2>11 DEF Alike
    <2>13. due # Invalid => /\ FirstNamed(m.log) /\ (Unnamed(m) => Sighted(m))
                            /\ x.game.checked
      <3>1. m.log = Now.log /\ m.look = Now.look /\ Here(m.game) = Here(Now.game)
            /\ (Silent(m) <=> Silent(Now))
        BY <2>7 DEF Alike, Here, Silent
      <3> QED
        BY <1>3, <2>5, <2>7, <2>8, <2>9, <2>11, <3>1 DEF Unnamed, Sighted
    <2>14. due # Invalid => Fit(x)
      BY <2>6, <2>7, <2>11, <2>12, <2>13, FirstFits
    <2> QED
      BY <1>2, <2>6, <2>11, <2>14, Arrives
  <1> QED
    BY <1>4, <1>5, <1>6

(* The message, and the hound behind it. *)
LEMMA SpawnNames == ASSUME TypeOK, NamedInv, Spawns PROVE NamedInv'
  <1>1. /\ Now \in Engine /\ Now.game = game /\ Now.proc = proc
    BY NowIsEngine
  <1>2. due' = due /\ proc.at = "announce"
    BY DEF Spawns, Rest, inbox
  <1>3. game \in Game
    BY DEF TypeOK
  <1> DEFINE s == [game EXCEPT !.active = TRUE, !.charged = 1, !.until = game.turn + HuntTurns]
             m == [Now EXCEPT !.game = s]
  <1>4. /\ s \in Game /\ s.turn = game.turn /\ s.seq = game.seq /\ s.checked = game.checked
    <2>1. game.turn + HuntTurns \in 0..(MaxTurn + HuntTurns)
      BY <1>3, HauntAssumption DEF Game
    <2> DEFINE until == game.turn + HuntTurns
               s1 == [game EXCEPT !.active = TRUE]
               s2 == [s1 EXCEPT !.charged = 1]
               s3 == [s2 EXCEPT !.until = until]
    <2>2. s = s3
      BY <1>3 DEF Game
    <2> HIDE DEF until
    <2>3. s1 \in Game /\ s1.turn = game.turn /\ s1.seq = game.seq /\ s1.checked = game.checked
      BY <1>3 DEF Game
    <2> HIDE DEF s1
    <2>4. s2 \in Game /\ s2.turn = game.turn /\ s2.seq = game.seq /\ s2.checked = game.checked
      BY <2>3 DEF Game
    <2> HIDE DEF s2
    <2>5. s3 \in Game /\ s3.turn = game.turn /\ s3.seq = game.seq /\ s3.checked = game.checked
      BY <2>1, <2>4 DEF Game, until
    <2> HIDE DEF s3, s
    <2> QED
      BY <2>2, <2>5
  <1>5. m = [Now EXCEPT !.game.active = TRUE, !.game.charged = 1,
                        !.game.until = game.turn + HuntTurns]
    BY <1>1
  <1>6. PICK w \in {Now, m}, name \in {"accepted", "spawn_failed"} :
          \E v \in Said(w, name) : \E g \in Recollected(v.game) :
            Becomes(Going([v EXCEPT !.game = g], "play"))
    BY <1>5 DEF Spawns
  <1>7. PICK v \in Said(w, name) : \E g \in Recollected(v.game) :
          Becomes(Going([v EXCEPT !.game = g], "play"))
    BY <1>6
  <1>8. PICK g \in Recollected(v.game) : Becomes(Going([v EXCEPT !.game = g], "play"))
    BY <1>7
  <1> HIDE DEF s
  <1>9. m \in Engine /\ Alike(Now, m) /\ m.proc = proc /\ m.game = s
    BY <1>1, <1>4, GameAlike
  <1> HIDE DEF m
  <1>10. w \in Engine /\ w.proc = proc
    BY <1>1, <1>8, <1>9
  <1>11. due # Invalid => Fit(w) /\ w.game.checked
    <2>1. due # Invalid => Fit(Now) /\ game.checked
      BY <1>1, <1>2 DEF NamedInv, Fit, Placed
    <2>2. due # Invalid => Fit(m)
      BY <1>1, <1>9, <2>1, AlikeFits
    <2> QED
      BY <1>1, <1>4, <1>8, <1>9, <2>1, <2>2
  <1>12. v \in Engine /\ v.proc.at = "announce"
    BY <1>2, <1>8, <1>10, SaidKeeps
  <1>13. due # Invalid => Fit(v)
    BY <1>2, <1>8, <1>10, <1>11, OtherFits DEF Fit, FirstEvents
  <1>14. /\ g \in Game /\ g.turn = v.game.turn /\ g.seq = v.game.seq
         /\ g.checked = v.game.checked
    <2>1. v.game \in Game
      BY <1>12, EngineParts
    <2> QED
      BY <1>8, <2>1 DEF Recollected, Game
  <1> DEFINE k == [v EXCEPT !.game = g]
             x == Going(k, "play")
  <1>15. k \in Engine /\ Alike(v, k) /\ k.proc = v.proc
    BY <1>12, <1>14, GameAlike
  <1>16. Becomes(x)
    BY <1>8
  <1> HIDE DEF k
  <1>17. x \in Engine /\ Alike(k, x) /\ x.proc.at = "play"
    BY <1>15, GoingAlike
  <1> HIDE DEF x
  <1>18. due # Invalid => Fit(k)
    BY <1>13, <1>15, AlikeFits
  <1>19. due # Invalid => Fit(x)
    BY <1>12, <1>15, <1>17, <1>18, AlikeFits
  <1> QED
    BY <1>2, <1>16, <1>17, <1>19, Arrives

(* A game begins with nothing looked at. *)
LEMMA InitNamed == Init => NamedInv
  <1> SUFFICES ASSUME Init, due # Invalid PROVE Fit(Now)
    BY DEF NamedInv
  <1>1. /\ Now.look.at = NoWindow /\ Now.log.first = NoFirst /\ Now.proc.at = "play"
        /\ Now.game.turn = 1 /\ Now.game.seq = 0
    BY DEF Init, Now, Down, NoLook
  <1>2. ~Before(Here(Now.game), Now.look.at) /\ Now.look.at # Here(Now.game)
    BY <1>1 DEF Before, Here, NoWindow
  <1> QED
    BY <1>1, <1>2 DEF Fit, FirstNamed, NotAhead, Placed, Once

(* Every step keeps it. *)
LEMMA NextNamed == IInv /\ NamedInv /\ [Next]_vars => NamedInv'
  <1> SUFFICES ASSUME IInv, NamedInv, [Next]_vars PROVE NamedInv'
    OBVIOUS
  <1>1. TypeOK
    BY DEF IInv
  <1>2. CASE UNCHANGED vars
    BY <1>2, EngineRests DEF vars, inbox
  <1>3. CASE Child
    BY <1>3, EngineRests DEF Child, ChildSetsUp, ChildReports, ChildExits, ChildDies, Childs,
                             inbox
  <1>4. CASE Passes \/ Elsewhere \/ HoundDies \/ Checkpoint \/ Publish
    BY <1>1, <1>4, PlayNames
  <1>5. CASE Hangup \/ Crash
    BY <1>1, <1>5, StopNames
  <1>6. CASE Restore
    BY <1>1, <1>6, RestoreNames
  <1>7. CASE TickBegins \/ TickPasses
    BY <1>1, <1>7, TickNames
  <1>8. CASE BudgetRefuses \/ FindsNothing \/ RejectsSource
    BY <1>1, <1>8, LookNames
  <1>9. CASE NoEvidence \/ CannotTry \/ Tries \/ ParentPolls
    BY <1>1, <1>9, TrialNames
  <1>10. CASE ShadowFails \/ NoReceipt \/ Rejects \/ PreAdmits
    BY <1>1, <1>10, ReapedNames
  <1>11. CASE Spawns
    BY <1>1, <1>11, SpawnNames
  <1> QED
    BY <1>2, <1>3, <1>4, <1>5, <1>6, <1>7, <1>8, <1>9, <1>10, <1>11 DEF Next, Tick

(* The first event about a candidate, in a play that can be recorded, names a window
   in which it was looked at for the first time, and none before its binding: a replay
   that is bound to that window sees the candidate in the same tick, in games of every
   length, with every loss of a line and every restore.                              *)
THEOREM FirstEventNamesTheLook == Spec => []WindowNamesTheLook
  <1>1. NamedInv => WindowNamesTheLook
    <2> SUFFICES ASSUME NamedInv, due # Invalid PROVE FirstNamed(log)
      BY DEF WindowNamesTheLook, FirstNamed
    <2>1. Now.log = log
      BY DEF Now
    <2> QED
      BY <2>1 DEF NamedInv, Fit
  <1> QED
    BY <1>1, InitNamed, NextNamed, InductiveInvariant, PTL DEF Spec
=============================================================================
