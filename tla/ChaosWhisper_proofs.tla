------------------------ MODULE ChaosWhisper_proofs ------------------------
(****************************************************************************)
(* Proofs about ChaosWhisper, for any number of sessions, directors, ids,    *)
(* safe points and event numbers, with every write that may be lost.         *)
(*                                                                           *)
(* What is inductive is IInv: which process the lines are of (SessionOK),    *)
(* what the handler holds of the request in hand (StepOK), that the game,    *)
(* its staged copy and its save are each in order (GamesOK), how the numbers *)
(* of the game and of its save lie to the log (NumberOK), and which accepted *)
(* effects a game of a given number has (CoversOK).                          *)
(****************************************************************************)
EXTENDS ChaosWhisper, SequenceTheorems, TLAPS

Has(st, id) == \E j \in DOMAIN st.effects : st.effects[j].id = id

Announced(number, request) ==
    \E j \in DOMAIN events : /\ events[j].name = "telegraph" /\ events[j].session = number
                             /\ events[j].request = request

SessionOK ==
    /\ pc = "new" => /\ session = 0 /\ events = <<>> /\ saved = NoRequest /\ u = NewGame
                     /\ ~torn /\ ~failed
    /\ pc # "new" => session >= 1
    /\ pc = "off" => ~failed
    /\ \A i \in DOMAIN events : events[i].session <= session

InHand == {"journal", "telegraph", "show"}

StepOK ==
    /\ pc \in InHand => /\ r \in Request /\ Has(next, r.id)
                       /\ \A j \in DOMAIN u.effects : Has(next, u.effects[j].id)
    /\ pc \in {"telegraph", "show"} => <<session, r>> \in journal
    /\ pc = "show" => Announced(session, r)
    /\ pc = "ack" /\ verdict = "accepted" =>
         <<session, r>> \in applied /\ Announced(session, r) /\ Has(u, r.id)

(* AppliedOnceOnTime, of any game *)
InOrder(st) ==
    \A i \in DOMAIN st.effects :
      /\ st.effects[i].at = st.effects[i].safe
      /\ st.effects[i].id <= st.last_id
      /\ \A j \in 1..(i - 1) : st.effects[j].id < st.effects[i].id

GamesOK == InOrder(u) /\ InOrder(next) /\ (saved # NoRequest => InOrder(saved))

Numbered ==
    \A i \in DOMAIN events :
      i > 1 /\ events[i].session = events[i - 1].session
        => events[i].seq = events[i - 1].seq + 1

(* Once the last number is used nothing can be written any more. *)
NumberOK ==
    /\ Numbered
    /\ Running /\ events # <<>> /\ (~failed \/ u.seq = MaxSeq) => u.seq = Latest(events).seq
    /\ saved # NoRequest /\ saved.seq = MaxSeq /\ events # <<>> => Latest(events).seq = MaxSeq
    /\ Running /\ saved # NoRequest => saved.seq <= u.seq
    /\ Running /\ ~failed /\ u.seq < MaxSeq => ~torn

(* A log that a director trusts, and that no later number follows, tells of no
   effect a game does not have.                                               *)
Covers(lines, st) ==
    Trusted(lines) /\ (lines = <<>> \/ st.seq >= Latest(lines).seq) =>
      \A i \in DOMAIN lines : lines[i].name = "accepted" => Has(st, lines[i].request.id)

CoversOK == (Running => Covers(events, u)) /\ (saved # NoRequest => Covers(events, saved))

DirectorOK ==
    director \in [up : BOOLEAN, read : Nat, known : Request \cup {NoRequest},
                  plan : Request \cup {NoRequest}]

IInv == TypeOK /\ DirectorOK /\ SessionOK /\ StepOK /\ GamesOK /\ NumberOK /\ CoversOK /\ AckIsProof
-----------------------------------------------------------------------------
(* Games and lines *)

LEMMA Constants ==
    /\ MaxSeq \in Nat /\ MaxSafe \in Nat /\ MaxId \in Nat /\ MaxSessions \in Nat /\ MaxSessions >= 1
    /\ MaxDirectors \in Nat
  BY WhisperAssumption

(* A new game is a game, it is in order, and it is no request. *)
LEMMA NewGameOK == NewGame \in Saved /\ InOrder(NewGame) /\ NewGame.seq = 0
  <1>1. <<>> \in Seq(Effect) /\ DOMAIN <<>> = {}
    BY EmptySeq
  <1> QED
    BY <1>1, Constants DEF NewGame, Saved, InOrder

LEMMA NotAGame == NoRequest \notin Saved
  <1>1. SUFFICES ASSUME NoRequest \in Saved PROVE FALSE
    OBVIOUS
  <1>2. "seq" \in DOMAIN NoRequest
    BY <1>1 DEF Saved
  <1> QED
    BY <1>2 DEF NoRequest

(* The next number changes nothing else of a game. *)
LEMMA NumberTaken ==
    ASSUME NEW st \in Saved, st.seq < MaxSeq
    PROVE  LET g == [st EXCEPT !.seq = @ + 1]
           IN  /\ g \in Saved /\ g.seq = st.seq + 1 /\ g.safe = st.safe
               /\ g.last_id = st.last_id /\ g.effects = st.effects
  BY Constants DEF Saved

(* Two games of the same effects and the same consumed id are in order alike. *)
LEMMA SameOrder ==
    ASSUME NEW g, NEW h, InOrder(g), h.effects = g.effects, h.last_id = g.last_id
    PROVE  InOrder(h)
  BY DEF InOrder

(* What a log is after one more line. *)
LEMMA Appended ==
    ASSUME NEW lines \in Seq(Line), NEW l \in Line
    PROVE  LET more == Append(lines, l)
           IN  /\ more \in Seq(Line) /\ Len(more) = Len(lines) + 1 /\ more # <<>>
               /\ DOMAIN more = DOMAIN lines \cup {Len(lines) + 1}
               /\ \A i \in DOMAIN lines : more[i] = lines[i]
               /\ more[Len(lines) + 1] = l /\ Latest(more) = l
  <1>1. /\ Append(lines, l) \in Seq(Line) /\ Len(Append(lines, l)) = Len(lines) + 1
        /\ \A i \in 1..Len(lines) : Append(lines, l)[i] = lines[i]
        /\ Append(lines, l)[Len(lines) + 1] = l
    BY AppendProperties
  <1>2. Len(lines) \in Nat /\ DOMAIN lines = 1..Len(lines)
        /\ DOMAIN Append(lines, l) = 1..Len(Append(lines, l))
    BY <1>1, LenProperties
  <1>3. Append(lines, l) # <<>>
    BY <1>1, <1>2, EmptySeq
  <1> QED
    BY <1>1, <1>2, <1>3 DEF Latest

(* The line of an event, and the three ways it may go. *)
LineOf(l, st, name, request, number) ==
    /\ l.session = number /\ l.seq = st.seq + 1 /\ l.request = request
    /\ l.safe = st.safe /\ l.last_id = st.last_id
    /\ l.name \in {name, "unreadable"} /\ (~torn => l.name = name)
    /\ CanWrite(st) => l \in Line

Made(l, st, done) ==
    /\ done /\ CanWrite(st) /\ events' = Append(events, l) /\ torn' = FALSE
    /\ failed' = failed /\ u' = [st EXCEPT !.seq = @ + 1]

Lost(l, st, done) ==
    /\ ~done /\ CanWrite(st) /\ failed' = TRUE /\ Lossy /\ u' = st /\ torn' \in BOOLEAN
    /\ events' = events \/ events' = Append(events, l)

Shut(st, done) ==
    /\ ~done /\ ~CanWrite(st) /\ u' = st /\ events' = events /\ torn' = torn /\ failed' = failed

(* What event() leaves behind: a line of the next number, or the same log. *)
LEMMA EventSays ==
    ASSUME TypeOK, NEW st \in Saved, NEW name \in EventNames,
           NEW request \in Request \cup {NoRequest}, NEW number \in 1..MaxSessions,
           NEW done \in BOOLEAN, Event(st, name, request, number, done)
    PROVE  \E l :
             /\ LineOf(l, st, name, request, number)
             /\ Made(l, st, done) \/ Lost(l, st, done) \/ Shut(st, done)
  <1> DEFINE e == EventLine(st, name, request, number)
             l == IF torn THEN [e EXCEPT !.name = "unreadable"] ELSE e
  <1>1. /\ e.session = number /\ e.seq = st.seq + 1 /\ e.request = request /\ e.name = name
        /\ e.safe = st.safe /\ e.last_id = st.last_id
        /\ e = [name |-> name, session |-> number, seq |-> st.seq + 1, safe |-> st.safe,
                last_id |-> st.last_id, request |-> request]
    BY DEF EventLine
  <1>2. CanWrite(st) => e \in Line
    BY <1>1, Constants DEF CanWrite, Saved, Line
  <1>3. /\ l.session = e.session /\ l.seq = e.seq /\ l.request = e.request /\ l.safe = e.safe
        /\ l.last_id = e.last_id /\ l.name = IF torn THEN "unreadable" ELSE name
    BY <1>1
  <1>4. "unreadable" \in EventNames
    BY DEF EventNames
  <1>5. CanWrite(st) => l \in Line
    BY <1>2, <1>4 DEF Line
  <1>6. LineAdded(e) = Append(events, l)
    BY DEF LineAdded
  <1> HIDE DEF l, e
  <1>7. torn \in BOOLEAN /\ failed \in BOOLEAN
    BY DEF TypeOK
  <1>8. WriteMade(e) => events' = Append(events, l) /\ torn' = FALSE /\ failed' = failed
    BY <1>6 DEF WriteMade
  <1>9. WriteLost(e) => /\ failed' = TRUE /\ Lossy /\ torn' \in BOOLEAN
                        /\ events' = events \/ events' = Append(events, l)
    BY <1>6, <1>7, Zenon DEF WriteLost
  <1>10. \/ done /\ CanWrite(st) /\ WriteMade(e) /\ u' = [st EXCEPT !.seq = @ + 1]
         \/ ~done /\ CanWrite(st) /\ WriteLost(e) /\ u' = st
         \/ ~done /\ ~CanWrite(st) /\ u' = st /\ UNCHANGED <<events, torn, failed>>
    BY Zenon DEF Event, e
  <1>11. LineOf(l, st, name, request, number)
    BY <1>1, <1>3, <1>5 DEF LineOf
  <1>12. Made(l, st, done) \/ Lost(l, st, done) \/ Shut(st, done)
    BY <1>8, <1>9, <1>10, Zenon DEF Made, Lost, Shut
  <1> QED
    BY <1>11, <1>12

-----------------------------------------------------------------------------
(* One more line *)

LEMMA TrustedPrefix ==
    ASSUME NEW lines \in Seq(Line), NEW l \in Line, Trusted(Append(lines, l))
    PROVE  Trusted(lines) /\ (lines # <<>> => l.seq > Latest(lines).seq) /\ l.name # "unreadable"
  <1> DEFINE more == Append(lines, l)
  <1>1. /\ DOMAIN more = DOMAIN lines \cup {Len(lines) + 1}
        /\ \A i \in DOMAIN lines : more[i] = lines[i]
        /\ more[Len(lines) + 1] = l
    BY Appended
  <1>2. DOMAIN lines = 1..Len(lines) /\ Len(lines) \in Nat
    BY LenProperties
  <1> HIDE DEF more
  <1>3. Trusted(more)
    BY DEF more
  <1>4. \A i \in DOMAIN lines : i \in DOMAIN more /\ (i > 1 => i - 1 \in DOMAIN lines)
    BY <1>1, <1>2
  <1>5. Trusted(lines)
    <2>1. \A i \in DOMAIN lines :
            /\ lines[i].name # "unreadable"
            /\ i > 1 => /\ lines[i].seq > lines[i - 1].seq
                        /\ lines[i].safe >= lines[i - 1].safe
                        /\ lines[i].last_id >= lines[i - 1].last_id
                        /\ lines[i - 1].name # "death"
                        /\ lines[i].name = "session" => lines[i].session > 1
      BY <1>1, <1>3, <1>4 DEF Trusted
    <2>2. \A i, j \in DOMAIN lines :
            i < j /\ IsAck(lines[i]) /\ IsAck(lines[j])
                  /\ lines[i].request.id = lines[j].request.id
              => /\ lines[i].request = lines[j].request
                 /\ ~(lines[i].name = "accepted" /\ lines[j].name = "accepted")
      <3>1. SUFFICES ASSUME NEW i \in DOMAIN lines, NEW j \in DOMAIN lines, i < j,
                            IsAck(lines[i]), IsAck(lines[j]),
                            lines[i].request.id = lines[j].request.id
                     PROVE  /\ lines[i].request = lines[j].request
                            /\ ~(lines[i].name = "accepted" /\ lines[j].name = "accepted")
        OBVIOUS
      <3>2. more[i] = lines[i] /\ more[j] = lines[j] /\ i \in DOMAIN more /\ j \in DOMAIN more
        BY <1>1
      <3>3. IsAck(more[i]) /\ IsAck(more[j]) /\ more[i].request.id = more[j].request.id
        BY <3>1, <3>2
      <3>4. more[i].request = more[j].request
             /\ ~(more[i].name = "accepted" /\ more[j].name = "accepted")
        BY <1>3, <3>1, <3>2, <3>3, SMT DEF Trusted
      <3> QED
        BY <3>2, <3>4
    <2> QED
      BY <2>1, <2>2, Zenon DEF Trusted
  <1>6. more[Len(lines) + 1].name # "unreadable"
    BY <1>1, <1>3 DEF Trusted
  <1>7. ASSUME lines # <<>> PROVE l.seq > Latest(lines).seq
    <2>1. Len(lines) >= 1
      BY <1>2, <1>7, EmptySeq
    <2>2. Len(lines) + 1 > 1 /\ Len(lines) + 1 - 1 = Len(lines) /\ Len(lines) \in DOMAIN lines
      BY <1>2, <2>1
    <2>3. more[Len(lines) + 1].seq > more[Len(lines) + 1 - 1].seq
      BY <1>1, <1>3, <2>2 DEF Trusted
    <2> QED
      BY <1>1, <1>7, <2>2, <2>3 DEF Latest
  <1> QED
    BY <1>1, <1>5, <1>6, <1>7

(* The game that was given the number covers the longer log; a game that is
   behind it covers it because a director that trusts it is behind it too.    *)
LEMMA CoversAppend ==
    ASSUME NEW lines \in Seq(Line), NEW l \in Line, NEW g \in Saved, NEW h \in Saved,
           Covers(lines, g), h.effects = g.effects, g.seq < l.seq,
           \/ h.seq = g.seq
           \/ h.seq = l.seq /\ l.seq = g.seq + 1 /\ (l.name = "accepted" => Has(h, l.request.id))
    PROVE  Covers(Append(lines, l), h)
  <1> DEFINE more == Append(lines, l)
  <1>1. SUFFICES ASSUME Trusted(more), more = <<>> \/ h.seq >= Latest(more).seq,
                        NEW i \in DOMAIN more, more[i].name = "accepted"
                 PROVE  Has(h, more[i].request.id)
    BY DEF Covers
  <1>2. /\ more # <<>> /\ DOMAIN more = DOMAIN lines \cup {Len(lines) + 1}
        /\ \A k \in DOMAIN lines : more[k] = lines[k]
        /\ more[Len(lines) + 1] = l /\ Latest(more) = l
    BY Appended
  <1>3. g.seq \in Nat /\ h.seq \in Nat /\ l.seq \in Nat
    BY Constants DEF Saved, Line
  <1>4. h.seq = l.seq /\ l.seq = g.seq + 1 /\ (l.name = "accepted" => Has(h, l.request.id))
    BY <1>1, <1>2, <1>3
  <1>5. Trusted(lines) /\ (lines # <<>> => l.seq > Latest(lines).seq)
    BY <1>1, TrustedPrefix
  <1>6. lines = <<>> \/ g.seq >= Latest(lines).seq
    <2>1. CASE lines # <<>>
      <3>1. Latest(lines) \in Line
        BY <2>1, LenProperties, EmptySeq DEF Latest
      <3>2. Latest(lines).seq \in Nat
        BY <3>1, Constants DEF Line
      <3> QED
        BY <1>3, <1>4, <1>5, <2>1, <3>2
    <2> QED
      BY <2>1
  <1>7. CASE i \in DOMAIN lines
    <2>1. Has(g, lines[i].request.id)
      BY <1>1, <1>2, <1>5, <1>6, <1>7 DEF Covers
    <2> QED
      BY <1>2, <1>7, <2>1 DEF Has
  <1>8. CASE i = Len(lines) + 1
    BY <1>1, <1>2, <1>4, <1>8
  <1> QED
    BY <1>2, <1>7, <1>8

(* A game an event may be logged for, by process `number`: it follows the log. *)
Follows(st, number) ==
    /\ st \in Saved /\ InOrder(st) /\ Covers(events, st)
    /\ number \in 1..MaxSessions /\ number >= session
    /\ events # <<>> /\ ~failed /\ (number = session \/ st.seq = MaxSeq)
         => st.seq = Latest(events).seq
    /\ events # <<>> /\ st.seq = MaxSeq => Latest(events).seq = MaxSeq
    /\ saved # NoRequest => saved.seq <= st.seq
    /\ number = session /\ ~failed /\ st.seq < MaxSeq => ~torn

(* What an event preserves, whoever logs it. *)
Logged(st, number, name, request, done) ==
    /\ events' \in Seq(Line) /\ failed' \in BOOLEAN /\ torn' \in BOOLEAN
    /\ Len(events') >= Len(events) /\ u' \in Saved /\ InOrder(u') /\ u'.effects = st.effects
    /\ NumberOK' /\ CoversOK' /\ AckIsProof'
    /\ \A i \in DOMAIN events' : events'[i].session <= number
    /\ \A n, q : Announced(n, q) => Announced(n, q)'
    /\ number = session /\ done /\ name = "telegraph" => Announced(number, request)'

LEMMA EventStep ==
    ASSUME TypeOK, SessionOK, AckIsProof, NumberOK, CoversOK,
           NEW st, NEW number, Follows(st, number), NEW name \in EventNames,
           NEW request \in Request \cup {NoRequest}, NEW done \in BOOLEAN,
           Event(st, name, request, number, done),
           saved' = saved, journal \subseteq journal', applied \subseteq applied',
           name = "accepted" =>
             /\ <<number, request>> \in journal \cap applied
             /\ Announced(number, request) /\ Has(st, request.id)
    PROVE  Logged(st, number, name, request, done)
  <1>1. /\ st \in Saved /\ InOrder(st) /\ number \in 1..MaxSessions /\ events \in Seq(Line)
        /\ session \in Nat /\ number \in Nat /\ st.seq \in Nat
    BY Constants DEF Follows, TypeOK, Saved
  <1>2. PICK l :
             /\ LineOf(l, st, name, request, number)
             /\ Made(l, st, done) \/ Lost(l, st, done) \/ Shut(st, done)
    BY <1>1, EventSays, Zenon
  <1>21. /\ l.session = number /\ l.seq = st.seq + 1 /\ l.request = request
         /\ l.name \in {name, "unreadable"} /\ (~torn => l.name = name)
         /\ CanWrite(st) => l \in Line
    BY <1>2 DEF LineOf
  <1>22. \A i \in DOMAIN events : events[i] \in Line /\ events[i].session \in Nat
                                /\ events[i].session <= session
    <2>1. \A i \in DOMAIN events : events[i] \in Line
      BY <1>1, ElementOfSeq, LenProperties
    <2> QED
      BY <2>1, Constants DEF SessionOK, Line
  <1>3. saved # NoRequest => saved \in Saved /\ saved.seq \in Nat
    BY Constants DEF TypeOK, Saved
  <1>4. failed \in BOOLEAN /\ torn \in BOOLEAN
    BY DEF TypeOK
  <1>5. failed' \in BOOLEAN /\ torn' \in BOOLEAN
    BY <1>2, <1>4, Zenon DEF Made, Lost, Shut
  <1>6. /\ u' \in Saved /\ InOrder(u') /\ u'.effects = st.effects /\ u'.seq \in Nat
        /\ u'.seq = IF done THEN st.seq + 1 ELSE st.seq
    <2>1. CASE done
      <3>1. CanWrite(st) /\ u' = [st EXCEPT !.seq = @ + 1]
        BY <1>2, <2>1, Zenon DEF Made, Lost, Shut
      <3>2. /\ u' \in Saved /\ u'.seq = st.seq + 1 /\ u'.effects = st.effects
            /\ u'.last_id = st.last_id
        BY <1>1, <3>1, NumberTaken DEF CanWrite
      <3> QED
        BY <1>1, <2>1, <3>2, SameOrder
    <2>2. CASE ~done
      <3>1. u' = st
        BY <1>2, <2>2, Zenon DEF Made, Lost, Shut
      <3> QED
        BY <1>1, <2>2, <3>1
    <2> QED
      BY <2>1, <2>2
  <1>7. CASE events' = events
    <2>1. ~done /\ u' = st
      <3>1. CASE done
        <4>1. CanWrite(st) /\ events' = Append(events, l)
          BY <1>2, <3>1, Zenon DEF Made, Lost, Shut
        <4> QED
          BY <1>1, <1>21, <1>7, <4>1, Appended, LenProperties
      <3> QED
        BY <1>2, <3>1, Zenon DEF Made, Lost, Shut
    <2>2. ~failed' => failed = FALSE /\ ~CanWrite(st) /\ torn' = torn
      BY <1>2, <1>4, <2>1, Zenon DEF Made, Lost, Shut
    <2>3. ~failed' => st.seq = MaxSeq
      BY <1>1, <2>2, Constants DEF CanWrite, Saved
    <2>4. NumberOK'
      <3>1. Numbered'
        BY <1>7 DEF NumberOK, Numbered
      <3>2. events' # <<>> /\ (~failed' \/ u'.seq = MaxSeq) => u'.seq = Latest(events').seq
        BY <1>7, <2>1, <2>2, <2>3 DEF Follows
      <3>3. saved' # NoRequest /\ saved'.seq = MaxSeq /\ events' # <<>>
              => Latest(events').seq = MaxSeq
        BY <1>7 DEF NumberOK
      <3>4. saved' # NoRequest => saved'.seq <= u'.seq
        BY <2>1 DEF Follows
      <3>5. ~failed' /\ u'.seq < MaxSeq => ~torn'
        BY <2>1, <2>3, Constants
      <3> QED
        BY <3>1, <3>2, <3>3, <3>4, <3>5 DEF NumberOK
    <2>5. CoversOK'
      <3>1. Covers(events, st) /\ (saved # NoRequest => Covers(events, saved))
        BY DEF Follows, CoversOK
      <3> QED
        BY <1>7, <2>1, <3>1 DEF CoversOK
    <2>6. AckIsProof'
      BY <1>7 DEF AckIsProof
    <2>7. \A i \in DOMAIN events' : events'[i].session <= number
      <3> QED
        BY <1>1, <1>7, <1>22 DEF Follows
    <2>8. \A n, q : Announced(n, q) => Announced(n, q)'
      BY <1>7 DEF Announced
    <2> QED
      <3>1. events' \in Seq(Line) /\ Len(events') >= Len(events)
        BY <1>1, <1>7, LenProperties
      <3> QED
        BY <1>5, <1>6, <2>1, <2>4, <2>5, <2>6, <2>7, <2>8, <3>1, Zenon DEF Logged
  <1>8. CASE events' = Append(events, l) /\ CanWrite(st)
    <2>1. l \in Line /\ ~failed /\ st.seq < MaxSeq
      BY <1>21, <1>8 DEF CanWrite
    <2>2. /\ events' \in Seq(Line) /\ Len(events') = Len(events) + 1 /\ events' # <<>>
          /\ DOMAIN events' = DOMAIN events \cup {Len(events) + 1}
          /\ \A i \in DOMAIN events : events'[i] = events[i]
          /\ events'[Len(events) + 1] = l /\ Latest(events') = l
      BY <1>1, <1>8, <2>1, Appended
    <2>3. Len(events) \in Nat /\ DOMAIN events = 1..Len(events)
      BY <1>1, LenProperties
    <2>4. (done => ~failed') /\ (~done => failed')
      <3>1. CASE Made(l, st, done)
        BY <2>1, <3>1 DEF Made
      <3>2. CASE Lost(l, st, done)
        BY <3>2 DEF Lost
      <3> QED
        BY <1>2, <1>8, <3>1, <3>2, Zenon DEF Shut
    <2>5. Numbered'
      <3>1. ASSUME NEW i \in DOMAIN events', i > 1, events'[i].session = events'[i - 1].session
            PROVE  events'[i].seq = events'[i - 1].seq + 1
        <4>1. CASE i \in DOMAIN events
          <5>1. i - 1 \in DOMAIN events
            BY <2>3, <3>1, <4>1
          <5> QED
            BY <2>2, <3>1, <4>1, <5>1 DEF NumberOK, Numbered
        <4>2. CASE i = Len(events) + 1
          <5>1. i - 1 = Len(events) /\ Len(events) \in DOMAIN events /\ events # <<>>
            BY <2>3, <3>1, <4>2, EmptySeq
          <5>2. events'[i - 1] = Latest(events) /\ events[Len(events)] = Latest(events)
            BY <2>2, <5>1 DEF Latest
          <5>3. Latest(events).session = number /\ Latest(events).session <= session
                /\ Latest(events).session \in Nat
            BY <1>21, <1>22, <2>2, <3>1, <4>2, <5>1, <5>2
          <5>4. number = session
            BY <1>1, <5>3 DEF Follows
          <5>5. st.seq = Latest(events).seq
            BY <2>1, <5>1, <5>4 DEF Follows
          <5> QED
            BY <1>21, <2>2, <4>2, <5>2, <5>5
        <4> QED
          BY <2>2, <4>1, <4>2
      <3> QED
        BY <3>1 DEF Numbered
    <2>6. NumberOK'
      <3>1. events' # <<>> /\ (~failed' \/ u'.seq = MaxSeq) => u'.seq = Latest(events').seq
        BY <1>1, <1>21, <1>6, <2>1, <2>2, <2>4, Constants
      <3>2. saved' # NoRequest => saved'.seq < MaxSeq /\ saved'.seq <= u'.seq
        BY <1>1, <1>3, <1>6, <2>1, Constants DEF Follows
      <3>3. ~failed' => ~torn'
        BY <1>2, <2>1, <2>4, Zenon DEF Made, Lost, Shut
      <3> QED
        BY <1>3, <2>5, <3>1, <3>2, <3>3, Constants DEF NumberOK
    <2>7. CoversOK'
      <3>1. Covers(events', u')
        <4>1. Covers(events, st)
          BY DEF Follows
        <4>2. \/ u'.seq = st.seq
              \/ u'.seq = l.seq /\ (l.name = "accepted" => Has(u', l.request.id))
          <5>1. Has(st, request.id) => Has(u', request.id)
            BY <1>6 DEF Has
          <5>2. done => u'.seq = l.seq
            BY <1>21, <1>6
          <5>3. ~done => u'.seq = st.seq
            BY <1>6
          <5>4. l.name = "accepted" => name = "accepted"
            BY <1>21
          <5> QED
            BY <1>21, <5>1, <5>2, <5>3, <5>4
        <4>3. st.seq < l.seq /\ l.seq = st.seq + 1
          BY <1>1, <1>21
        <4> QED
          BY <1>1, <1>6, <1>8, <2>1, <4>1, <4>2, <4>3, CoversAppend
      <3>2. ASSUME saved # NoRequest PROVE Covers(events', saved')
        <4>1. saved.seq < l.seq
          BY <1>1, <1>21, <1>3, <3>2 DEF Follows
        <4> QED
          BY <1>1, <1>3, <1>8, <2>1, <3>2, <4>1, CoversAppend DEF CoversOK
      <3> QED
        BY <3>1, <3>2 DEF CoversOK
    <2>8. \A n, q : Announced(n, q) => Announced(n, q)'
      BY <2>2 DEF Announced
    <2>9. AckIsProof'
      <3>1. ASSUME NEW i \in DOMAIN events', events'[i].name = "accepted"
            PROVE  /\ <<events'[i].session, events'[i].request>> \in journal' \cap applied'
                   /\ \E j \in 1..(i - 1) : /\ events'[j].name = "telegraph"
                                           /\ events'[j].session = events'[i].session
                                           /\ events'[j].request = events'[i].request
        <4>1. CASE i \in DOMAIN events
          <5>1. /\ <<events[i].session, events[i].request>> \in journal \cap applied
                /\ \E j \in 1..(i - 1) : /\ events[j].name = "telegraph"
                                        /\ events[j].session = events[i].session
                                        /\ events[j].request = events[i].request
            BY <2>2, <3>1, <4>1 DEF AckIsProof
          <5>2. \A j \in 1..(i - 1) : j \in DOMAIN events
            BY <2>3, <4>1
          <5> QED
            BY <2>2, <4>1, <5>1, <5>2
        <4>2. CASE i = Len(events) + 1
          <5>1. name = "accepted" /\ events'[i] = l
            BY <1>21, <2>2, <3>1, <4>2
          <5>2. <<number, request>> \in journal \cap applied /\ Announced(number, request)
            BY <5>1
          <5>3. PICK j \in DOMAIN events :
                   /\ events[j].name = "telegraph" /\ events[j].session = number
                   /\ events[j].request = request
            BY <5>2 DEF Announced
          <5>4. j \in 1..(i - 1) /\ events'[j] = events[j]
            BY <2>2, <2>3, <4>2
          <5> QED
            BY <1>21, <5>1, <5>2, <5>3, <5>4
        <4> QED
          BY <2>2, <4>1, <4>2
      <3> QED
        BY <3>1 DEF AckIsProof
    <2>10. \A i \in DOMAIN events' : events'[i].session <= number
      <3> QED
        BY <1>1, <1>21, <1>22, <2>2 DEF Follows
    <2>11. ASSUME number = session, done, name = "telegraph" PROVE Announced(number, request)'
      <3>1. ~torn
        BY <2>1, <2>11 DEF Follows
      <3>2. l.name = "telegraph" /\ Len(events) + 1 \in DOMAIN events'
        BY <1>21, <2>2, <2>11, <3>1
      <3> QED
        BY <1>21, <2>2, <2>11, <3>2 DEF Announced
    <2> QED
      BY <1>5, <1>6, <2>2, <2>3, <2>6, <2>7, <2>8, <2>9, <2>10, <2>11 DEF Logged
  <1> QED
    BY <1>2, <1>7, <1>8, Zenon DEF Made, Lost, Shut

-----------------------------------------------------------------------------
(* The steps that log an event, and hold no request after it *)

(* A running process logs for the game as it is, or as it is one safe point later. *)
LEMMA RunningFollows ==
    ASSUME IInv, Running
    PROVE  Follows(u, session)
  <1>1. u \in Saved /\ InOrder(u) /\ Covers(events, u)
    BY DEF IInv, TypeOK, GamesOK, CoversOK
  <1>2. session \in 1..MaxSessions /\ session >= session
    BY Constants DEF IInv, TypeOK, SessionOK, Running
  <1> QED
    BY <1>1, <1>2 DEF Follows, IInv, NumberOK

LEMMA NextSafeFollows ==
    ASSUME IInv, Running, u.safe < MaxSafe
    PROVE  /\ Follows([u EXCEPT !.safe = @ + 1], session)
           /\ [u EXCEPT !.safe = @ + 1].effects = u.effects
  <1> DEFINE st == [u EXCEPT !.safe = @ + 1]
  <1>1. u \in Saved
    BY DEF IInv, TypeOK
  <1>2. /\ st \in Saved /\ st.seq = u.seq /\ st.effects = u.effects /\ st.last_id = u.last_id
    BY <1>1, Constants DEF Saved
  <1> HIDE DEF st
  <1>3. Follows(u, session)
    BY RunningFollows
  <1>4. InOrder(st)
    BY <1>2, <1>3, SameOrder DEF Follows
  <1>5. Covers(events, st)
    BY <1>2, <1>3 DEF Follows, Covers, Has
  <1>6. Follows(st, session)
    BY <1>2, <1>3, <1>4, <1>5 DEF Follows
  <1> QED
    BY <1>2, <1>6 DEF st

LEMMA LogAtRest ==
    ASSUME IInv, NEW st, NEW number, Follows(st, number), number >= 1,
           NEW name, NEW request, NEW done, Logged(st, number, name, request, done),
           AtRest, pc' \in {"arrive", "enter", "play", "over", "read"}, session' = number,
           UNCHANGED <<saved, applied, journal, whisper, sidecar>>
    PROVE  IInv'
  <1>1. /\ next' = NewGame /\ r' = NoRequest /\ verdict' = "rejected"
    BY DEF AtRest
  <1>2. /\ saved' = saved /\ applied' = applied /\ journal' = journal /\ whisper' = whisper
        /\ director' = director /\ stopped' = stopped /\ late' = late /\ directors' = directors
    BY DEF sidecar
  <1>3. /\ events' \in Seq(Line) /\ failed' \in BOOLEAN /\ torn' \in BOOLEAN
        /\ Len(events') >= Len(events) /\ u' \in Saved /\ InOrder(u')
        /\ NumberOK' /\ CoversOK' /\ AckIsProof'
        /\ \A i \in DOMAIN events' : events'[i].session <= number
    BY DEF Logged
  <1>4. Len(events) \in Nat /\ Len(events') \in Nat
    BY <1>3, LenProperties DEF IInv, TypeOK
  <1>5. TypeOK'
    <2>1. director' \in [up : BOOLEAN, read : Nat, known : Request \cup {NoRequest},
                         plan : Request \cup {NoRequest}] /\ director'.read \in 0..Len(events')
      BY <1>2, <1>3, <1>4 DEF IInv, TypeOK, DirectorOK
    <2>2. session' \in 0..MaxSessions
      BY Constants DEF Follows
    <2> QED
      BY <1>1, <1>2, <1>3, <2>1, <2>2, NewGameOK DEF IInv, TypeOK
  <1>6. SessionOK'
    BY <1>3 DEF SessionOK
  <1>7. StepOK'
    BY DEF StepOK, InHand
  <1>8. GamesOK'
    BY <1>1, <1>2, <1>3, NewGameOK DEF GamesOK, IInv
  <1>9. DirectorOK'
    BY <1>2 DEF IInv, DirectorOK
  <1> QED
    BY <1>3, <1>5, <1>6, <1>7, <1>8, <1>9 DEF IInv

(* Arrive, Report, Die *)
LEMMA EventKeeps ==
    ASSUME IInv, Running, NEW name \in EventNames \ {"accepted"}, NEW done \in BOOLEAN,
           Event(u, name, NoRequest, session, done),
           AtRest, Unsaved, pc' \in {"arrive", "enter", "play", "over", "read"}
    PROVE  IInv'
  <1>1. Follows(u, session) /\ session \in 1..MaxSessions
    BY RunningFollows DEF Follows
  <1>2. UNCHANGED <<saved, session, applied, journal, whisper, sidecar>>
    BY DEF Unsaved
  <1>3. Logged(u, session, name, NoRequest, done)
    BY <1>1, <1>2, EventStep DEF IInv
  <1> QED
    BY <1>1, <1>2, <1>3, LogAtRest, Constants

LEMMA StartKeeps ==
    ASSUME IInv, Start
    PROVE  IInv'
  <1>1. /\ pc = "new" /\ pc' = "arrive" /\ session' = 1 /\ AtRest
        /\ UNCHANGED <<saved, applied, journal, whisper, sidecar>>
    BY DEF Start
  <1>2. PICK done \in BOOLEAN : Event(u, "session", NoRequest, 1, done)
    BY DEF Start
  <1>3. /\ session = 0 /\ events = <<>> /\ saved = NoRequest /\ u = NewGame /\ ~torn /\ ~failed
    BY <1>1 DEF IInv, SessionOK
  <1>4. Covers(events, u)
    BY <1>3, EmptySeq DEF Covers
  <1>5. Follows(u, 1)
    BY <1>3, <1>4, NewGameOK, Constants DEF Follows
  <1>6. "session" \in EventNames
    BY DEF EventNames
  <1>7. Logged(u, 1, "session", NoRequest, done)
    BY <1>1, <1>2, <1>5, <1>6, EventStep DEF IInv
  <1> QED
    BY <1>1, <1>5, <1>7, LogAtRest

LEMMA RestoreKeeps ==
    ASSUME IInv, Restore
    PROVE  IInv'
  <1>1. /\ pc = "off" /\ saved # NoRequest /\ session < MaxSessions /\ pc' = "play"
        /\ session' = session + 1 /\ AtRest
        /\ UNCHANGED <<saved, applied, journal, whisper, sidecar>>
    BY DEF Restore
  <1>2. PICK done \in BOOLEAN : Event(saved, "session", NoRequest, session + 1, done)
    BY <1>1 DEF Restore
  <1>3. /\ saved \in Saved /\ InOrder(saved) /\ Covers(events, saved) /\ session \in Nat
        /\ session + 1 \in 1..MaxSessions /\ saved.seq \in Nat /\ session + 1 # session
    BY <1>1, Constants DEF IInv, TypeOK, GamesOK, CoversOK, Saved
  <1>4. saved.seq = MaxSeq /\ events # <<>> => Latest(events).seq = MaxSeq
    BY <1>1 DEF IInv, NumberOK
  <1>5. Follows(saved, session + 1)
    BY <1>3, <1>4 DEF Follows
  <1>6. "session" \in EventNames
    BY DEF EventNames
  <1>7. Logged(saved, session + 1, "session", NoRequest, done)
    BY <1>1, <1>2, <1>5, <1>6, EventStep DEF IInv
  <1> QED
    BY <1>1, <1>3, <1>5, <1>7, LogAtRest

LEMMA SafePointKeeps ==
    ASSUME IInv, SafePoint
    PROVE  IInv'
  <1> DEFINE st == [u EXCEPT !.safe = @ + 1]
  <1>1. /\ Running /\ u.safe < MaxSafe /\ AtRest /\ applied' = applied /\ Unread
        /\ pc' \in {"read", "play"}
    BY DEF SafePoint, Running
  <1>2. PICK done \in BOOLEAN : Event(st, "safe_point", NoRequest, session, done)
    BY DEF SafePoint
  <1>3. Follows(st, session) /\ session \in 1..MaxSessions
    BY <1>1, NextSafeFollows, RunningFollows DEF Follows
  <1> HIDE DEF st
  <1>4. UNCHANGED <<saved, session, applied, journal, whisper, sidecar>>
    BY <1>1 DEF Unread
  <1>5. "safe_point" \in EventNames
    BY DEF EventNames
  <1>6. Logged(st, session, "safe_point", NoRequest, done)
    BY <1>2, <1>3, <1>4, <1>5, EventStep DEF IInv
  <1> QED
    BY <1>1, <1>3, <1>4, <1>6, LogAtRest, Constants

LEMMA AckKeeps ==
    ASSUME IInv, Ack
    PROVE  IInv'
  <1>1. /\ pc = "ack" /\ pc' = "play" /\ Running /\ AtRest /\ applied' = applied /\ Unread
    BY DEF Ack, Running
  <1>2. PICK done \in BOOLEAN : Event(u, verdict, r, session, done)
    BY DEF Ack
  <1>3. Follows(u, session) /\ session \in 1..MaxSessions
    BY <1>1, RunningFollows DEF Follows
  <1>4. UNCHANGED <<saved, session, applied, journal, whisper, sidecar>>
    BY <1>1 DEF Unread
  <1>5. verdict \in EventNames /\ r \in Request \cup {NoRequest} /\ applied \subseteq journal
    BY DEF IInv, TypeOK, EventNames
  <1>6. verdict = "accepted" =>
          <<session, r>> \in journal \cap applied /\ Announced(session, r) /\ Has(u, r.id)
    BY <1>1, <1>5 DEF IInv, StepOK
  <1>7. Logged(u, session, verdict, r, done)
    BY <1>2, <1>3, <1>4, <1>5, <1>6, EventStep DEF IInv
  <1> QED
    BY <1>1, <1>3, <1>4, <1>7, LogAtRest, Constants

-----------------------------------------------------------------------------
(* The steps of a request in hand *)

(* Where the staged copy is set aside nothing of StepOK is left but what an
   acknowledgement needs.                                                    *)
LEMMA TelegraphKeeps ==
    ASSUME IInv, Telegraph
    PROVE  IInv'
  <1>1. /\ pc = "telegraph" /\ Running /\ applied' = applied /\ Unread
    BY DEF Telegraph, Running
  <1>2. PICK done \in BOOLEAN :
           /\ Event(u, "telegraph", r, session, done)
           /\ IF done THEN pc' = "show" /\ UNCHANGED <<next, r, verdict>>
                      ELSE pc' = "play" /\ AtRest
    BY DEF Telegraph
  <1>3. Follows(u, session) /\ session \in 1..MaxSessions
    BY <1>1, RunningFollows DEF Follows
  <1>4. UNCHANGED <<saved, session, applied, journal, whisper, sidecar>>
    BY <1>1 DEF Unread
  <1>5. "telegraph" \in EventNames /\ r \in Request \cup {NoRequest}
    BY DEF EventNames, IInv, TypeOK
  <1>6. Logged(u, session, "telegraph", r, done)
    BY <1>2, <1>3, <1>4, <1>5, EventStep DEF IInv
  <1>7. CASE ~done
    BY <1>2, <1>3, <1>4, <1>6, <1>7, LogAtRest, Constants
  <1>8. CASE done
    <2>1. pc' = "show" /\ next' = next /\ r' = r /\ verdict' = verdict
      BY <1>2, <1>8
    <2>2. /\ saved' = saved /\ session' = session /\ applied' = applied /\ journal' = journal
          /\ whisper' = whisper /\ director' = director /\ stopped' = stopped /\ late' = late
          /\ directors' = directors
      BY <1>4 DEF sidecar
    <2>3. /\ events' \in Seq(Line) /\ failed' \in BOOLEAN /\ torn' \in BOOLEAN
          /\ Len(events') >= Len(events) /\ u' \in Saved /\ InOrder(u') /\ u'.effects = u.effects
          /\ NumberOK' /\ CoversOK' /\ AckIsProof' /\ Announced(session, r)'
          /\ \A i \in DOMAIN events' : events'[i].session <= session
      BY <1>6, <1>8 DEF Logged
    <2>4. Len(events) \in Nat /\ Len(events') \in Nat
      BY <2>3, LenProperties DEF IInv, TypeOK
    <2>5. TypeOK'
      <3>1. director'.read \in 0..Len(events')
        BY <2>2, <2>3, <2>4 DEF IInv, TypeOK, DirectorOK
      <3> QED
        BY <2>1, <2>2, <2>3, <3>1 DEF IInv, TypeOK
    <2>6. SessionOK'
      BY <1>1, <2>1, <2>2, <2>3 DEF SessionOK, IInv
    <2>7. StepOK'
      <3>1. /\ r \in Request /\ Has(next, r.id) /\ <<session, r>> \in journal
            /\ \A j \in DOMAIN u.effects : Has(next, u.effects[j].id)
        BY <1>1 DEF IInv, StepOK, InHand
      <3> QED
        BY <2>1, <2>2, <2>3, <3>1 DEF StepOK, InHand, Has, Announced
    <2>8. GamesOK' /\ DirectorOK'
      BY <2>1, <2>2, <2>3 DEF GamesOK, DirectorOK, IInv
    <2> QED
      BY <2>3, <2>5, <2>6, <2>7, <2>8 DEF IInv
  <1> QED
    BY <1>7, <1>8

(* A step of a running process that writes no event, and the log it leaves. *)
LEMMA LogKept ==
    ASSUME IInv, Running, pc' \notin {"new", "off", "over"}, session' = session,
           events' = events, torn' = torn, failed' \in {failed, TRUE},
           u' \in Saved, u'.seq = u.seq, \A j \in DOMAIN u.effects : Has(u', u.effects[j].id),
           saved' \in {saved, u}, journal \subseteq journal', applied \subseteq applied'
    PROVE  SessionOK' /\ NumberOK' /\ CoversOK' /\ AckIsProof'
  <1>1. Running'
    BY DEF Running
  <1>2. SessionOK'
    BY DEF SessionOK, IInv, Running
  <1>3. ~failed' => ~failed
    OBVIOUS
  <1>4. u.seq \in Nat /\ u \in Saved
    BY Constants DEF IInv, TypeOK, Saved
  <1>5. NumberOK'
    <2>1. Numbered'
      BY DEF IInv, NumberOK, Numbered
    <2>2. events' # <<>> /\ (~failed' \/ u'.seq = MaxSeq) => u'.seq = Latest(events').seq
      BY <1>3 DEF IInv, NumberOK
    <2>3. saved' # NoRequest /\ saved'.seq = MaxSeq /\ events' # <<>> => Latest(events').seq = MaxSeq
      <3>1. CASE saved' = saved
        BY <3>1 DEF IInv, NumberOK
      <3>2. CASE saved' = u
        BY <3>2 DEF IInv, NumberOK
      <3> QED
        BY <3>1, <3>2
    <2>4. saved' # NoRequest => saved'.seq <= u'.seq
      BY <1>4 DEF IInv, NumberOK
    <2>5. ~failed' /\ u'.seq < MaxSeq => ~torn'
      BY <1>3 DEF IInv, NumberOK
    <2> QED
      BY <2>1, <2>2, <2>3, <2>4, <2>5 DEF NumberOK
  <1>6. CoversOK'
    <2>1. Covers(events, u)
      BY DEF IInv, CoversOK
    <2>2. \A id : Has(u, id) => Has(u', id)
      BY DEF Has
    <2>3. Covers(events', u')
      BY <2>1, <2>2 DEF Covers
    <2>4. saved' # NoRequest => Covers(events', saved')
      BY <2>1 DEF IInv, CoversOK
    <2> QED
      BY <2>3, <2>4 DEF CoversOK
  <1>7. AckIsProof'
    BY DEF IInv, AckIsProof
  <1> QED
    BY <1>2, <1>5, <1>6, <1>7

(* The parts of the invariant a step of the engine that reads no mail and writes
   no event leaves to show.                                                      *)
LEMMA EngineKeeps ==
    ASSUME IInv, Running, pc' \in {"play", "journal", "telegraph", "show", "ack"},
           UNCHANGED <<session, events, torn, whisper, sidecar>>, failed' \in {failed, TRUE},
           u' \in Saved, u'.seq = u.seq, \A j \in DOMAIN u.effects : Has(u', u.effects[j].id),
           next' \in Saved, r' \in Request \cup {NoRequest}, verdict' \in {"accepted", "rejected"},
           saved' \in {saved, u}, journal \subseteq journal', applied \subseteq applied',
           journal' \subseteq (1..MaxSessions) \X Request, applied' \subseteq journal',
           InOrder(u'), InOrder(next'), StepOK'
    PROVE  IInv'
  <1>1. /\ session' = session /\ events' = events /\ torn' = torn /\ whisper' = whisper
        /\ director' = director /\ stopped' = stopped /\ late' = late /\ directors' = directors
    BY DEF sidecar
  <1>2. SessionOK' /\ NumberOK' /\ CoversOK' /\ AckIsProof'
    BY <1>1, LogKept
  <1>3. TypeOK'
    <2>1. failed' \in BOOLEAN /\ saved' \in Saved \cup {NoRequest}
      BY DEF IInv, TypeOK
    <2> QED
      BY <1>1, <2>1 DEF IInv, TypeOK
  <1>4. GamesOK' /\ DirectorOK'
    BY <1>1 DEF IInv, GamesOK, DirectorOK
  <1> QED
    BY <1>2, <1>3, <1>4 DEF IInv

(* NoSafePoint, NothingToDo and Save: the game stays, and nothing is in hand *)
LEMMA RestKeeps ==
    ASSUME IInv, Running, pc' = "play", AtRest, saved' \in {saved, u},
           UNCHANGED <<u, failed, session, applied, events, torn, journal, whisper, sidecar>>
    PROVE  IInv'
  <1>1. /\ next' = NewGame /\ r' = NoRequest /\ verdict' = "rejected"
    BY DEF AtRest
  <1>2. StepOK'
    BY DEF StepOK, InHand
  <1>3. u \in Saved /\ InOrder(u) /\ journal \subseteq (1..MaxSessions) \X Request
        /\ applied \subseteq journal
    BY DEF IInv, TypeOK, GamesOK
  <1>4. \A j \in DOMAIN u.effects : Has(u, u.effects[j].id)
    BY DEF Has
  <1>5. InOrder(u') /\ InOrder(next') /\ next' \in Saved
    BY <1>1, <1>3, NewGameOK
  <1> QED
    BY <1>1, <1>2, <1>3, <1>4, <1>5, EngineKeeps

LEMMA RejectKeeps ==
    ASSUME IInv, Reject
    PROVE  IInv'
  <1>1. /\ pc = "read" /\ Running /\ whisper # NoRequest /\ pc' = "ack" /\ r' = whisper
        /\ verdict' = "rejected" /\ UNCHANGED <<next, failed, events, torn, applied>> /\ Unread
    BY DEF Reject, Running
  <1>2. PICK result \in {"duplicate", "schedule", "refused"} :
           result \in Judge(u, whisper) /\ u' = Consumed(u, whisper, result)
    BY DEF Reject
  <1>3. /\ u \in Saved /\ InOrder(u) /\ InOrder(next) /\ next \in Saved /\ whisper \in Request
        /\ journal \subseteq (1..MaxSessions) \X Request /\ applied \subseteq journal
    BY <1>1 DEF IInv, TypeOK, GamesOK
  <1>4. /\ u' \in Saved /\ u'.seq = u.seq /\ u'.effects = u.effects
        /\ u'.last_id = IF result = "duplicate" THEN u.last_id ELSE whisper.id
    <2>1. CASE result = "duplicate"
      BY <1>2, <1>3, <2>1 DEF Consumed
    <2>2. CASE result # "duplicate"
      <3>1. u' = [u EXCEPT !.last_id = whisper.id]
        BY <1>2, <2>2 DEF Consumed
      <3>2. whisper.id \in 0..MaxId
        BY <1>3, Constants DEF Request
      <3> QED
        BY <1>3, <2>2, <3>1, <3>2 DEF Saved
    <2> QED
      BY <2>1, <2>2
  <1>5. InOrder(u')
    <2>1. CASE result = "duplicate"
      BY <1>3, <1>4, <2>1, SameOrder
    <2>2. CASE result # "duplicate"
      <3>1. ~(whisper.id <= u.last_id)
        BY <1>2, <2>2 DEF Judge
      <3>2. whisper.id >= u.last_id /\ whisper.id \in Nat /\ u.last_id \in Nat
        BY <1>3, <3>1, Constants DEF Request, Saved
      <3>3. \A i \in DOMAIN u.effects : u.effects[i].id \in Nat
        <4>1. u.effects \in Seq(Effect)
          BY <1>3 DEF Saved
        <4>2. \A i \in DOMAIN u.effects : u.effects[i] \in Effect
          BY <4>1, ElementOfSeq, LenProperties
        <4> QED
          BY <4>2, Constants DEF Effect
      <3> QED
        BY <1>3, <1>4, <2>2, <3>2, <3>3 DEF InOrder
    <2> QED
      BY <2>1, <2>2
  <1>6. \A j \in DOMAIN u.effects : Has(u', u.effects[j].id)
    BY <1>4 DEF Has
  <1>7. StepOK'
    BY <1>1 DEF StepOK, InHand
  <1> QED
    BY <1>1, <1>3, <1>4, <1>5, <1>6, <1>7, EngineKeeps DEF Unread

LEMMA AdmitKeeps ==
    ASSUME IInv, Admit
    PROVE  IInv'
  <1> DEFINE effect == [id |-> whisper.id, at |-> whisper.at, safe |-> u.safe]
             more == Append(u.effects, effect)
  <1>1. /\ pc = "read" /\ Running /\ whisper # NoRequest /\ pc' = "journal" /\ r' = whisper
        /\ u' = Consumed(u, whisper, "ok") /\ "ok" \in Judge(u, whisper)
        /\ next' = [u' EXCEPT !.effects = Append(@, effect)]
        /\ UNCHANGED <<verdict, failed, events, torn, applied>> /\ Unread
    BY DEF Admit, Running
  <1>2. /\ u \in Saved /\ InOrder(u) /\ whisper \in Request /\ verdict \in {"accepted", "rejected"}
        /\ journal \subseteq (1..MaxSessions) \X Request /\ applied \subseteq journal
    BY <1>1 DEF IInv, TypeOK, GamesOK
  <1>3. ~(whisper.id <= u.last_id) /\ whisper.at = u.safe
    BY <1>1 DEF Judge
  <1>4. /\ whisper.id \in 1..MaxId /\ whisper.at \in 1..MaxSafe /\ u.last_id \in Nat
        /\ u.effects \in Seq(Effect)
    BY <1>2, Constants DEF Request, Saved
  <1>5. /\ u' \in Saved /\ u'.seq = u.seq /\ u'.effects = u.effects /\ u'.last_id = whisper.id
    BY <1>1, <1>2, <1>4, Constants, SMTT(30) DEF Consumed, Saved
  <1>6. effect \in Effect /\ effect.id = whisper.id /\ effect.at = effect.safe
    BY <1>3, <1>4 DEF Effect
  <1>7. \A i \in DOMAIN u.effects : u.effects[i] \in Effect /\ u.effects[i].id \in Nat
    <2>1. \A i \in DOMAIN u.effects : u.effects[i] \in Effect
      BY <1>4, ElementOfSeq, LenProperties
    <2> QED
      BY <2>1, Constants DEF Effect
  <1> HIDE DEF effect
  <1>8. /\ more \in Seq(Effect) /\ DOMAIN more = DOMAIN u.effects \cup {Len(u.effects) + 1}
        /\ \A i \in DOMAIN u.effects : more[i] = u.effects[i]
        /\ more[Len(u.effects) + 1] = effect
    <2>1. /\ more \in Seq(Effect) /\ Len(more) = Len(u.effects) + 1
          /\ \A i \in 1..Len(u.effects) : more[i] = u.effects[i]
          /\ more[Len(u.effects) + 1] = effect
      BY <1>4, <1>6, AppendProperties
    <2> QED
      BY <1>4, <2>1, LenProperties
  <1>9. DOMAIN u.effects = 1..Len(u.effects) /\ Len(u.effects) \in Nat
    BY <1>4, LenProperties
  <1> HIDE DEF more
  <1>10. next' = [u' EXCEPT !.effects = more]
    BY <1>1, <1>5 DEF more, Saved
  <1>11. /\ next' \in Saved /\ next'.effects = more /\ next'.last_id = whisper.id
    BY <1>5, <1>8, <1>10 DEF Saved
  <1>12. InOrder(u')
    BY <1>2, <1>3, <1>4, <1>5, <1>7 DEF InOrder
  <1>13. InOrder(next')
    <2>1. ASSUME NEW i \in DOMAIN more
          PROVE  /\ more[i].at = more[i].safe /\ more[i].id <= whisper.id
                 /\ \A j \in 1..(i - 1) : more[j].id < more[i].id
      <3>1. CASE i \in DOMAIN u.effects
        <4>1. \A j \in 1..(i - 1) : j \in DOMAIN u.effects
          BY <1>9, <3>1
        <4>2. /\ u.effects[i].at = u.effects[i].safe /\ u.effects[i].id <= u.last_id
              /\ \A j \in 1..(i - 1) : u.effects[j].id < u.effects[i].id
          BY <1>2, <3>1 DEF InOrder
        <4>3. u.effects[i].id <= whisper.id
          BY <1>3, <1>4, <1>7, <3>1, <4>2
        <4> QED
          BY <1>8, <3>1, <4>1, <4>2, <4>3
      <3>2. CASE i = Len(u.effects) + 1
        <4>1. \A j \in 1..(i - 1) : j \in DOMAIN u.effects
          BY <1>9, <3>2
        <4>2. \A j \in DOMAIN u.effects : u.effects[j].id < whisper.id
          BY <1>2, <1>3, <1>4, <1>7 DEF InOrder
        <4> QED
          BY <1>4, <1>6, <1>8, <3>2, <4>1, <4>2
      <3> QED
        BY <1>8, <3>1, <3>2
    <2> QED
      BY <1>11, <2>1 DEF InOrder
  <1>14. Has(next', whisper.id)
    BY <1>6, <1>8, <1>11 DEF Has
  <1>15. \A j \in DOMAIN u.effects : Has(u', u.effects[j].id) /\ Has(next', u.effects[j].id)
    BY <1>5, <1>8, <1>11 DEF Has
  <1>16. StepOK'
    BY <1>1, <1>2, <1>5, <1>14, <1>15 DEF StepOK, InHand
  <1> QED
    BY <1>1, <1>2, <1>5, <1>11, <1>12, <1>13, <1>15, <1>16, EngineKeeps DEF Unread

LEMMA JournalKeeps ==
    ASSUME IInv, Journal
    PROVE  IInv'
  <1>1. /\ pc = "journal" /\ Running /\ UNCHANGED <<u, events, torn, applied, saved, session, whisper, sidecar>>
    BY DEF Journal, Running
  <1>2. /\ u \in Saved /\ InOrder(u) /\ next \in Saved /\ InOrder(next) /\ failed \in BOOLEAN
        /\ journal \subseteq (1..MaxSessions) \X Request /\ applied \subseteq journal
        /\ verdict \in {"accepted", "rejected"} /\ r \in Request \cup {NoRequest}
    BY DEF IInv, TypeOK, GamesOK
  <1>3. /\ r \in Request /\ Has(next, r.id) /\ \A j \in DOMAIN u.effects : Has(next, u.effects[j].id)
    BY <1>1 DEF IInv, StepOK, InHand
  <1>4. <<session, r>> \in (1..MaxSessions) \X Request
    BY <1>1, <1>3, Constants DEF IInv, TypeOK, SessionOK
  <1>5. \A j \in DOMAIN u.effects : Has(u', u.effects[j].id)
    BY <1>1 DEF Has
  <1>6. CASE pc' = "telegraph" /\ journal' = journal \cup {<<session, r>>}
             /\ UNCHANGED <<next, r, verdict, failed>>
    <2>1. StepOK'
      BY <1>1, <1>3, <1>6 DEF StepOK, InHand, Has
    <2> QED
      BY <1>1, <1>2, <1>4, <1>5, <1>6, <2>1, EngineKeeps
  <1>7. CASE /\ pc' = "play" /\ failed' = TRUE /\ AtRest
             /\ journal' \in {journal, journal \cup {<<session, r>>}}
    <2>1. StepOK'
      BY <1>7 DEF StepOK, InHand
    <2>2. /\ next' = NewGame /\ r' = NoRequest /\ verdict' = "rejected"
      BY <1>7 DEF AtRest
    <2> QED
      BY <1>1, <1>2, <1>4, <1>5, <1>7, <2>1, <2>2, NewGameOK, EngineKeeps
  <1> QED
    BY <1>6, <1>7 DEF Journal

LEMMA ShowKeeps ==
    ASSUME IInv, Show
    PROVE  IInv'
  <1>1. /\ pc = "show" /\ Running /\ pc' = "ack" /\ verdict' = "accepted" /\ u' = Commit(u, next)
        /\ applied' = applied \cup {<<session, r>>}
        /\ UNCHANGED <<next, r, failed, events, torn>> /\ Unread
    BY DEF Show, Running
  <1>2. /\ u \in Saved /\ InOrder(u) /\ next \in Saved /\ InOrder(next)
        /\ journal \subseteq (1..MaxSessions) \X Request /\ applied \subseteq journal
    BY DEF IInv, TypeOK, GamesOK
  <1>3. /\ r \in Request /\ Has(next, r.id) /\ <<session, r>> \in journal /\ Announced(session, r)
        /\ \A j \in DOMAIN u.effects : Has(next, u.effects[j].id)
    BY <1>1 DEF IInv, StepOK, InHand
  <1>4. /\ u' \in Saved /\ u'.seq = u.seq /\ u'.effects = next.effects /\ u'.last_id = next.last_id
    BY <1>1, <1>2 DEF Commit, Saved
  <1>5. InOrder(u')
    BY <1>2, <1>4, SameOrder
  <1>6. \A id : Has(next, id) => Has(u', id)
    BY <1>4 DEF Has
  <1>7. StepOK'
    BY <1>1, <1>3, <1>6 DEF StepOK, InHand, Announced, Unread
  <1> QED
    BY <1>1, <1>2, <1>3, <1>4, <1>5, <1>6, <1>7, EngineKeeps DEF Unread

LEMMA ShowFailsKeeps ==
    ASSUME IInv, ShowFails
    PROVE  IInv'
  <1>1. /\ pc = "show" /\ Running /\ pc' = "ack" /\ verdict' = "rejected"
        /\ UNCHANGED <<u, next, r, failed, events, torn, applied>> /\ Unread
    BY DEF ShowFails, Running
  <1>2. /\ u \in Saved /\ InOrder(u) /\ next \in Saved /\ InOrder(next)
        /\ r \in Request \cup {NoRequest}
        /\ journal \subseteq (1..MaxSessions) \X Request /\ applied \subseteq journal
    BY DEF IInv, TypeOK, GamesOK
  <1>3. \A j \in DOMAIN u.effects : Has(u', u.effects[j].id)
    BY <1>1 DEF Has
  <1>4. StepOK'
    BY <1>1 DEF StepOK, InHand
  <1> QED
    BY <1>1, <1>2, <1>3, <1>4, EngineKeeps DEF Unread

(* Stop and HangUp *)
LEMMA EndsKeeps ==
    ASSUME IInv, Ends, saved' \in {saved, u}
    PROVE  IInv'
  <1>1. /\ Running /\ pc' = "off" /\ failed' = FALSE /\ u' = NewGame /\ next' = NewGame
        /\ r' = NoRequest /\ verdict' = "rejected" /\ session' = session /\ applied' = applied
        /\ events' = events /\ torn' = torn /\ journal' = journal /\ whisper' = whisper
        /\ director' = director /\ stopped' = stopped /\ late' = late /\ directors' = directors
    BY DEF Ends, AtRest, files, sidecar
  <1>2. TypeOK'
    BY <1>1, NewGameOK DEF IInv, TypeOK
  <1>3. SessionOK' /\ StepOK' /\ DirectorOK' /\ AckIsProof'
    BY <1>1 DEF IInv, SessionOK, StepOK, InHand, DirectorOK, AckIsProof, Running
  <1>4. GamesOK'
    BY <1>1, NewGameOK DEF IInv, GamesOK
  <1>5. ~Running'
    BY <1>1 DEF Running
  <1>6. NumberOK'
    <2>1. Numbered'
      BY <1>1 DEF IInv, NumberOK, Numbered
    <2>2. saved' # NoRequest /\ saved'.seq = MaxSeq /\ events' # <<>> => Latest(events').seq = MaxSeq
      BY <1>1 DEF IInv, NumberOK
    <2> QED
      BY <1>5, <2>1, <2>2 DEF NumberOK
  <1>7. CoversOK'
    BY <1>1, <1>5 DEF IInv, CoversOK
  <1> QED
    BY <1>2, <1>3, <1>4, <1>6, <1>7 DEF IInv

-----------------------------------------------------------------------------
(* The director's steps, and the specification *)

(* Whatever it does, it touches only the mailbox. *)
LEMMA OutsideKeeps ==
    ASSUME IInv, Alone, whisper' \in Request \cup {NoRequest},
           director' \in [up : BOOLEAN, read : Nat, known : Request \cup {NoRequest},
                          plan : Request \cup {NoRequest}],
           director'.read \in 0..Len(events), directors' \in 0..MaxDirectors,
           stopped' \in {"running", "error", "death", "cap"}, late' \in BOOLEAN
    PROVE  IInv'
  <1>1. /\ pc' = pc /\ u' = u /\ next' = next /\ r' = r /\ verdict' = verdict /\ failed' = failed
        /\ saved' = saved /\ session' = session /\ applied' = applied /\ events' = events
        /\ torn' = torn /\ journal' = journal
    BY DEF Alone, engine, files
  <1>2. TypeOK' /\ DirectorOK'
    BY <1>1 DEF IInv, TypeOK, DirectorOK
  <1>3. SessionOK' /\ StepOK' /\ GamesOK'
    BY <1>1 DEF IInv, SessionOK, StepOK, GamesOK, Has, Announced
  <1>4. NumberOK' /\ CoversOK' /\ AckIsProof'
    BY <1>1 DEF IInv, NumberOK, Numbered, CoversOK, AckIsProof, Running
  <1> QED
    BY <1>2, <1>3, <1>4 DEF IInv

LEMMA IdleOK ==
    /\ Idle \in [up : BOOLEAN, read : Nat, known : Request \cup {NoRequest},
                 plan : Request \cup {NoRequest}]
    /\ Idle.read = 0
  BY DEF Idle

DirectorStep == \/ DirectorStarts \/ Mistrusts \/ SeesDeath \/ Waits \/ Chooses \/ Submit
                \/ DirectorEnds

LEMMA DirectorKeeps ==
    ASSUME IInv, DirectorStep
    PROVE  IInv'
  <1> DEFINE D == [up : BOOLEAN, read : Nat, known : Request \cup {NoRequest},
                   plan : Request \cup {NoRequest}]
  <1>1. /\ whisper \in Request \cup {NoRequest} /\ director \in D /\ director.read \in 0..Len(events)
        /\ directors \in 0..MaxDirectors /\ stopped \in {"running", "error", "death", "cap"}
        /\ late \in BOOLEAN /\ Len(events) \in Nat
    BY LenProperties DEF IInv, TypeOK, DirectorOK
  <1>2. Alone
    BY DEF DirectorStep, DirectorStarts, Mistrusts, SeesDeath, Waits, Chooses, Submit, DirectorEnds
  <1>3. CASE DirectorStarts
    <2>1. /\ director' = [Idle EXCEPT !.up = TRUE] /\ directors' = directors + 1
          /\ directors < MaxDirectors /\ stopped' = "running" /\ UNCHANGED <<whisper, late>>
      BY <1>3 DEF DirectorStarts
    <2>2. director' \in D /\ director'.read = 0
      BY <2>1, IdleOK
    <2>3. directors' \in 0..MaxDirectors
      BY <1>1, <2>1, Constants
    <2> QED
      BY <1>1, <1>2, <2>1, <2>2, <2>3, OutsideKeeps
  <1>4. CASE Mistrusts \/ SeesDeath \/ DirectorEnds
    <2>1. /\ director' = Idle /\ stopped' \in {"error", "death", "cap"}
          /\ UNCHANGED <<whisper, late, directors>>
      BY <1>4 DEF Mistrusts, SeesDeath, DirectorEnds, StopsFor
    <2>2. director' \in D /\ director'.read = 0
      BY <2>1, IdleOK
    <2> QED
      BY <1>1, <1>2, <2>1, <2>2, OutsideKeeps
  <1>5. CASE Waits
    <2>1. /\ director' = [director EXCEPT !.known = whisper]
          /\ UNCHANGED <<whisper, stopped, late, directors>>
      BY <1>5 DEF Waits
    <2>2. director' \in D /\ director'.read = director.read
      BY <1>1, <2>1
    <2> QED
      BY <1>1, <1>2, <2>1, <2>2, OutsideKeeps
  <1>6. CASE Chooses
    <2>1. UNCHANGED <<whisper, stopped, late, directors>>
      BY <1>6 DEF Chooses
    <2>2. \/ director' = [director EXCEPT !.known = NoRequest]
          \/ \E plan \in Request : director' = [director EXCEPT !.known = NoRequest, !.plan = plan,
                                                               !.read = Len(events)]
      BY <1>6 DEF Chooses, Choices
    <2>3. director' \in D /\ director'.read \in {director.read, Len(events)}
      BY <1>1, <2>2
    <2> QED
      BY <1>1, <1>2, <2>1, <2>3, OutsideKeeps
  <1>7. CASE Submit
    <2>1. /\ whisper' = director.plan /\ late' = (late \/ director.plan.at <= u.safe)
          /\ director' = [director EXCEPT !.known = director.plan, !.plan = NoRequest, !.read = 0]
          /\ UNCHANGED <<stopped, directors>>
      BY <1>7 DEF Submit
    <2>2. director' \in D /\ director'.read = 0
      BY <1>1, <2>1
    <2>3. whisper' \in Request \cup {NoRequest}
      BY <1>1, <2>1
    <2>4. late' \in BOOLEAN
      BY <1>1, <2>1, Zenon
    <2> QED
      BY <1>1, <1>2, <2>1, <2>2, <2>3, <2>4, OutsideKeeps
  <1> QED
    BY <1>3, <1>4, <1>5, <1>6, <1>7 DEF DirectorStep

LEMMA InitIInv == Init => IInv
  <1>1. SUFFICES ASSUME Init PROVE IInv
    OBVIOUS
  <1>2. /\ pc = "new" /\ u = NewGame /\ next = NewGame /\ r = NoRequest /\ verdict = "rejected"
        /\ failed = FALSE /\ saved = NoRequest /\ session = 0 /\ applied = {} /\ events = <<>>
        /\ torn = FALSE /\ journal = {} /\ whisper = NoRequest /\ director = Idle
        /\ stopped = "running" /\ late = FALSE /\ directors = 0
    BY <1>1 DEF Init
  <1>3. DOMAIN events = {} /\ events \in Seq(Line) /\ Len(events) = 0
    BY <1>2, EmptySeq
  <1>4. TypeOK
    <2>1. /\ director.up \in BOOLEAN /\ director.read \in 0..Len(events)
          /\ director.known \in Request \cup {NoRequest} /\ director.plan \in Request \cup {NoRequest}
      BY <1>2, <1>3 DEF Idle
    <2>2. /\ u \in Saved /\ next \in Saved /\ saved \in Saved \cup {NoRequest}
          /\ r \in Request \cup {NoRequest} /\ whisper \in Request \cup {NoRequest}
      BY <1>2, NewGameOK
    <2>3. /\ failed \in BOOLEAN /\ torn \in BOOLEAN /\ late \in BOOLEAN
          /\ journal \subseteq (1..MaxSessions) \X Request /\ applied \subseteq journal
      BY <1>2, Zenon
    <2>4. session \in 0..MaxSessions /\ directors \in 0..MaxDirectors
      BY <1>2, Constants
    <2> QED
      BY <1>2, <1>3, <2>1, <2>2, <2>3, <2>4 DEF TypeOK
  <1>5. DirectorOK /\ SessionOK /\ StepOK
    BY <1>2, <1>3, IdleOK DEF DirectorOK, SessionOK, StepOK, InHand
  <1>6. GamesOK
    BY <1>2, NewGameOK DEF GamesOK
  <1>7. ~Running
    BY <1>2 DEF Running
  <1>8. NumberOK /\ CoversOK /\ AckIsProof
    BY <1>2, <1>3, <1>7 DEF NumberOK, Numbered, CoversOK, AckIsProof
  <1> QED
    BY <1>4, <1>5, <1>6, <1>8 DEF IInv

LEMMA NextIInv == IInv /\ [Next]_vars => IInv'
  <1>1. SUFFICES ASSUME IInv, [Next]_vars PROVE IInv'
    OBVIOUS
  <1>2. CASE UNCHANGED vars
    <2>1. /\ Alone /\ whisper' = whisper /\ director' = director /\ directors' = directors
          /\ stopped' = stopped /\ late' = late
      BY <1>2 DEF vars, Alone, engine, files, sidecar
    <2> QED
      BY <1>1, <2>1, OutsideKeeps DEF IInv, TypeOK, DirectorOK
  <1>3. CASE Start
    BY <1>1, <1>3, StartKeeps
  <1>4. CASE Arrive
    <2>1. /\ Running /\ AtRest /\ Unsaved /\ pc' = "enter"
          /\ \E done \in BOOLEAN : Event(u, "other", NoRequest, session, done)
      BY <1>4 DEF Arrive, Running
    <2>2. "other" \in EventNames \ {"accepted"}
      BY DEF EventNames
    <2> QED
      BY <1>1, <2>1, <2>2, EventKeeps
  <1>5. CASE Report
    <2>1. /\ Running /\ AtRest /\ Unsaved /\ pc' = "play"
          /\ \E done \in BOOLEAN : Event(u, "other", NoRequest, session, done)
      BY <1>5 DEF Report, Running
    <2>2. "other" \in EventNames \ {"accepted"}
      BY DEF EventNames
    <2> QED
      BY <1>1, <2>1, <2>2, EventKeeps
  <1>6. CASE Die
    <2>1. /\ Running /\ AtRest /\ Unsaved /\ pc' = "over"
          /\ \E done \in BOOLEAN : Event(u, "death", NoRequest, session, done)
      BY <1>6 DEF Die, Running
    <2>2. "death" \in EventNames \ {"accepted"}
      BY DEF EventNames
    <2> QED
      BY <1>1, <2>1, <2>2, EventKeeps
  <1>7. CASE SafePoint
    BY <1>1, <1>7, SafePointKeeps
  <1>8. CASE Restore
    BY <1>1, <1>8, RestoreKeeps
  <1>9. CASE Ack
    BY <1>1, <1>9, AckKeeps
  <1>10. CASE Telegraph
    BY <1>1, <1>10, TelegraphKeeps
  <1>11. CASE NoSafePoint \/ NothingToDo \/ Save
    <2>1. /\ Running /\ pc' = "play" /\ AtRest /\ saved' \in {saved, u}
          /\ UNCHANGED <<u, failed, session, applied, events, torn, journal, whisper, sidecar>>
      BY <1>11 DEF NoSafePoint, NothingToDo, Save, Running, Unread, files
    <2> QED
      BY <1>1, <2>1, RestKeeps
  <1>12. CASE Reject
    BY <1>1, <1>12, RejectKeeps
  <1>13. CASE Admit
    BY <1>1, <1>13, AdmitKeeps
  <1>14. CASE Journal
    BY <1>1, <1>14, JournalKeeps
  <1>15. CASE Show
    BY <1>1, <1>15, ShowKeeps
  <1>16. CASE ShowFails
    BY <1>1, <1>16, ShowFailsKeeps
  <1>17. CASE Stop \/ HangUp
    <2>1. Ends /\ saved' \in {saved, u}
      BY <1>17 DEF Stop, HangUp
    <2> QED
      BY <1>1, <2>1, EndsKeeps
  <1>18. CASE DirectorStep
    BY <1>1, <1>18, DirectorKeeps
  <1> QED
    BY <1>1, <1>2, <1>3, <1>4, <1>5, <1>6, <1>7, <1>8, <1>9, <1>10, <1>11, <1>12, <1>13, <1>14,
       <1>15, <1>16, <1>17, <1>18 DEF Next, EngineStep, DirectorStep

(* The invariant that carries the theorems below. *)
THEOREM InductiveInvariant == Spec => []IInv
  BY InitIInv, NextIInv, PTL DEF Spec

(* chaos_io_safe, chaos_start and director.run keep every variable in its range. *)
THEOREM TypeCorrect == Spec => []TypeOK
  <1>1. IInv => TypeOK
    BY DEF IInv
  <1> QED
    BY <1>1, InductiveInvariant, PTL

(* An accepted line stands for a whisper that was journalled, announced and
   installed, whatever writes failed and wherever the process died.          *)
THEOREM AcknowledgedIsProved == Spec => []AckIsProof
  <1>1. IInv => AckIsProof
    BY DEF IInv
  <1> QED
    BY <1>1, InductiveInvariant, PTL

(* chaos_admit applies a whisper at its own safe point, in the order of the
   ids and never twice, across every save and restore.                       *)
THEOREM AppliedOnTime == Spec => []AppliedOnceOnTime
  <1>1. IInv => AppliedOnceOnTime
    BY DEF IInv, GamesOK, InOrder, AppliedOnceOnTime
  <1> QED
    BY <1>1, InductiveInvariant, PTL

(* chaos_io_event numbers the lines of a process without a gap. *)
THEOREM LinesAreNumbered == Spec => []EventsNumbered
  <1>1. IInv => EventsNumbered
    BY DEF IInv, NumberOK, Numbered, EventsNumbered
  <1> QED
    BY <1>1, InductiveInvariant, PTL

(* A director that trusts the log of a settled game believes in no effect the
   game does not have, however often it was rolled back.                      *)
THEOREM BelievedIsTrue == Spec => []BelievedIsInstalled
  <1>1. ASSUME IInv PROVE BelievedIsInstalled
    <2>1. SUFFICES ASSUME Trusted(events), pc = "play", ~failed, NEW i \in DOMAIN events,
                          events[i].name = "accepted"
                   PROVE  \E j \in DOMAIN u.effects : u.effects[j].id = events[i].request.id
      BY DEF BelievedIsInstalled
    <2>2. Running
      BY <2>1 DEF Running
    <2>3. Covers(events, u) /\ (events # <<>> => u.seq = Latest(events).seq)
      BY <1>1, <2>1, <2>2 DEF IInv, CoversOK, NumberOK
    <2>4. u.seq \in Nat
      BY <1>1, Constants DEF IInv, TypeOK, Saved
    <2> QED
      BY <2>1, <2>3, <2>4 DEF Covers, Has
  <1> QED
    BY <1>1, InductiveInvariant, PTL

(* Mailbox.submit never replaces a request that has no answer in the log. *)
THEOREM UnansweredIsKept == Spec => NeverOverwritesUnanswered
  <1>1. ASSUME IInv, Next, whisper' # whisper, whisper # NoRequest
        PROVE  Answered(events, whisper)
    <2> DEFINE lines == SubSeq(events, 1, director.read)
    <2>1. Submit
      <3>1. ~Submit => whisper' = whisper
        BY <1>1 DEF Next, EngineStep, Start, Arrive, NoSafePoint, NothingToDo, Reject, Admit,
                    Journal, Telegraph, Show, ShowFails, Ack, SafePoint, Report, Die, Save, Stop,
                    HangUp, Ends, Restore, DirectorStarts, Mistrusts, SeesDeath, Waits, Chooses,
                    DirectorEnds, Unread, Unsaved
      <3> QED
        BY <1>1, <3>1
    <2>2. Pending(lines, whisper, NoRequest) = "none"
      BY <2>1 DEF Submit
    <2>3. Answered(lines, whisper)
      BY <1>1, <2>2 DEF Pending
    <2>4. events \in Seq(Line) /\ director.read \in 0..Len(events) /\ Len(events) \in Nat
      BY <1>1, LenProperties DEF IInv, TypeOK
    <2>5. \A i \in DOMAIN lines : i \in DOMAIN events /\ lines[i] = events[i]
      BY <2>4, LenProperties
    <2> QED
      BY <2>3, <2>5 DEF Answered
  <1>2. IInv /\ [Next]_vars
          => [whisper' # whisper /\ whisper # NoRequest => Answered(events, whisper)]_vars
    BY <1>1 DEF vars
  <1> QED
    BY <1>2, InductiveInvariant, PTL DEF Spec, NeverOverwritesUnanswered

-----------------------------------------------------------------------------
(****************************************************************************)
(* One healthy game and one director: what it polls never looks like damage. *)
(* CleanOK says what holds in a run that is clean so far: of the log, of the *)
(* request in hand, and of the mail.                                         *)
(****************************************************************************)

Clean == ~failed /\ pc # "off" /\ session <= 1 /\ directors <= 1 /\ ~late

Ordered ==
    \A i \in DOMAIN events :
      /\ events[i].name # "unreadable"
      /\ i > 1 => /\ events[i].seq > events[i - 1].seq
                  /\ events[i].safe >= events[i - 1].safe
                  /\ events[i].last_id >= events[i - 1].last_id
                  /\ events[i - 1].name # "death"
                  /\ events[i].name # "session"

AcksAgree ==
    \A i, j \in DOMAIN events :
      i < j /\ IsAck(events[i]) /\ IsAck(events[j]) /\ events[i].request.id = events[j].request.id
        => /\ events[i].request = events[j].request
           /\ ~(events[i].name = "accepted" /\ events[j].name = "accepted")

(* The lines that answer a request *)
Acks == {i \in DOMAIN events : IsAck(events[i])}

CleanLog ==
    /\ Ordered /\ AcksAgree
    /\ pc # "over" => \A i \in DOMAIN events : events[i].name # "death"
    /\ Latest(events).safe <= u.safe /\ Latest(events).last_id <= u.last_id
    /\ \A i \in DOMAIN events : events[i].last_id <= Latest(events).last_id
    /\ \A i \in Acks : events[i].request.id <= events[i].last_id

Unheard(id) == \A i \in Acks : events[i].request.id # id

CleanHand ==
    /\ pc \in InHand => /\ r = whisper /\ u.last_id = r.id /\ r.at = u.safe
                       /\ next.last_id = r.id /\ next.safe = u.safe
    /\ pc \in InHand \/ (pc = "ack" /\ verdict = "accepted") => Unheard(r.id)
    /\ pc = "ack" => /\ r \in Request /\ r.id <= u.last_id /\ (r = whisper \/ r.id < whisper.id)
                     /\ \A i \in Acks : events[i].request.id = r.id => events[i].request = r

Unanswered == whisper # NoRequest /\ ~Answered(events, whisper)

(* What the log lets the director think of a request that has no answer. *)
Waiting ==
    LET latest == Latest(events)
    IN  \/ whisper.id > latest.last_id /\ whisper.at >= latest.safe
        \/ whisper.id = latest.last_id /\ whisper.at = latest.safe /\ latest.name = "telegraph"

(* Why it stays so: the game has not come to its index, or is at it. *)
Due ==
    /\ pc \in {"new", "arrive", "enter", "play"} \/ (pc = "ack" /\ r # whisper)
         => whisper.id > u.last_id /\ whisper.at > u.safe
    /\ pc = "read" => whisper.id > u.last_id /\ whisper.at >= u.safe
    /\ pc = "ack" /\ r = whisper => whisper.at = u.safe

CleanMail ==
    /\ u.last_id <= whisper.id
    /\ \A i \in Acks : events[i].request = whisper \/ events[i].request.id < whisper.id
    /\ director.known \in {NoRequest, whisper}
    /\ director.plan # NoRequest => director.plan.id > whisper.id /\ ~Unanswered
    /\ director.up /\ Unanswered => director.known = whisper
    /\ ~director.up => director.known = NoRequest /\ director.plan = NoRequest
    /\ directors = 0 => whisper = NoRequest /\ ~director.up
    /\ Unanswered => Waiting /\ (u.seq < MaxSeq => Due)

CleanOK == Clean => stopped # "error" /\ CleanLog /\ CleanHand /\ CleanMail

LEMMA Typed ==
    ASSUME IInv
    PROVE  /\ u \in Saved /\ u.last_id \in Nat /\ u.safe \in Nat /\ u.seq \in Nat /\ u.seq <= MaxSeq
           /\ whisper.id \in Nat /\ whisper.at \in Nat /\ r.id \in Nat /\ r.at \in Nat
           /\ events \in Seq(Line) /\ Len(events) \in Nat /\ DOMAIN events = 1..Len(events)
           /\ \A i \in DOMAIN events :
                /\ events[i] \in Line /\ events[i].seq \in Nat /\ events[i].safe \in Nat
                /\ events[i].last_id \in Nat /\ events[i].request.id \in Nat
           /\ Latest(events).seq \in Nat /\ Latest(events).safe \in Nat
           /\ Latest(events).last_id \in Nat
           /\ events # <<>> => Len(events) \in DOMAIN events /\ Latest(events) = events[Len(events)]
  <1>1. /\ u \in Saved /\ whisper \in Request \cup {NoRequest} /\ r \in Request \cup {NoRequest}
        /\ events \in Seq(Line)
    BY DEF IInv, TypeOK
  <1>2. \A q \in Request \cup {NoRequest} : q.id \in Nat /\ q.at \in Nat
    BY Constants DEF Request, NoRequest
  <1>3. Len(events) \in Nat /\ DOMAIN events = 1..Len(events)
    BY <1>1, LenProperties
  <1>4. \A i \in DOMAIN events : events[i] \in Line
    BY <1>1, <1>3, ElementOfSeq
  <1>5. \A l \in Line : /\ l.seq \in Nat /\ l.safe \in Nat /\ l.last_id \in Nat
                        /\ l.request \in Request \cup {NoRequest}
    BY Constants DEF Line
  <1>6. \A i \in DOMAIN events :
                /\ events[i] \in Line /\ events[i].seq \in Nat /\ events[i].safe \in Nat
                /\ events[i].last_id \in Nat /\ events[i].request.id \in Nat
    BY <1>2, <1>4, <1>5
  <1>7. u.last_id \in Nat /\ u.safe \in Nat /\ u.seq \in Nat /\ u.seq <= MaxSeq
    BY <1>1, Constants DEF Saved
  <1>8. CASE events = <<>>
    BY <1>1, <1>2, <1>3, <1>6, <1>7, <1>8 DEF Latest, NoLine
  <1>9. CASE events # <<>>
    <2>1. Len(events) \in DOMAIN events
      BY <1>1, <1>3, <1>9, EmptySeq
    <2> QED
      BY <1>1, <1>2, <1>3, <1>6, <1>7, <1>9, <2>1 DEF Latest
  <1> QED
    BY <1>8, <1>9

(* What a clean run logs: the line it meant, or none once the numbers are used. *)
Told(st, name, request, done) ==
    /\ u'.last_id = st.last_id /\ u'.safe = st.safe
    /\ \A i \in DOMAIN events : i \in DOMAIN events' /\ events'[i] = events[i]
    /\ done => /\ st.seq < MaxSeq /\ Latest(events').name = name /\ Latest(events').request = request
               /\ Latest(events').safe = st.safe /\ Latest(events').last_id = st.last_id
               /\ DOMAIN events' = DOMAIN events \cup {Len(events) + 1}
               /\ events'[Len(events) + 1] = Latest(events')
    /\ ~done => events' = events /\ u'.seq = MaxSeq

AckNames == {"accepted", "rejected"}

LEMMA CleanEvent ==
    ASSUME IInv, ~failed, ~failed', CleanLog, NEW st, NEW number, Follows(st, number),
           number = session \/ events = <<>>,
           st.seq = u.seq, st.last_id = u.last_id, st.safe >= u.safe,
           NEW name \in EventNames \ {"unreadable"}, NEW request \in Request \cup {NoRequest},
           NEW done \in BOOLEAN, Event(st, name, request, number, done),
           events # <<>> => name # "session" /\ ~torn, events = <<>> => ~torn, pc # "over",
           pc' # "over" => name # "death",
           name \in AckNames =>
             /\ request.id <= st.last_id
             /\ \A i \in Acks : events[i].request.id = request.id =>
                   events[i].request = request /\ ~(name = "accepted" /\ events[i].name = "accepted")
    PROVE  CleanLog' /\ Told(st, name, request, done)
  <1>1. /\ st \in Saved /\ number \in 1..MaxSessions /\ TypeOK
    BY DEF Follows, IInv
  <1>2. PICK l : LineOf(l, st, name, request, number) /\ (Made(l, st, done) \/ Lost(l, st, done) \/ Shut(st, done))
    BY <1>1, EventSays, Zenon
  <1>3. /\ st.seq \in Nat /\ st.last_id \in Nat /\ st.safe \in Nat /\ st.seq <= MaxSeq
    BY <1>1, Constants DEF Saved
  <1>4. CASE Shut(st, done)
    <2>1. ~done /\ u' = st /\ events' = events /\ st.seq = MaxSeq
      BY <1>3, <1>4, Constants DEF Shut, CanWrite
    <2>2. Latest(events).safe <= u'.safe
      BY <1>3, <2>1, Typed DEF CleanLog
    <2>3. CleanLog'
      BY <2>1, <2>2 DEF CleanLog, Ordered, AcksAgree, Acks
    <2> QED
      BY <2>1, <2>3 DEF Told
  <1>5. CASE Made(l, st, done)
    <2>1. /\ done /\ events' = Append(events, l) /\ u' = [st EXCEPT !.seq = @ + 1] /\ CanWrite(st)
          /\ st.seq < MaxSeq
      BY <1>5 DEF Made, CanWrite
    <2>2. /\ l.seq = st.seq + 1 /\ l.request = request /\ l.safe = st.safe /\ l.last_id = st.last_id
          /\ l.name = name /\ l \in Line
      BY <1>2, <2>1 DEF LineOf
    <2>3. /\ Len(events') = Len(events) + 1 /\ events' # <<>>
          /\ DOMAIN events' = DOMAIN events \cup {Len(events) + 1}
          /\ \A i \in DOMAIN events : events'[i] = events[i]
          /\ events'[Len(events) + 1] = l /\ Latest(events') = l
      BY <2>1, <2>2, Typed, Appended
    <2>4. u'.last_id = st.last_id /\ u'.safe = st.safe
      BY <1>1, <2>1, NumberTaken DEF CanWrite
    <2>5. events # <<>> => st.seq = Latest(events).seq
      BY DEF Follows
    <2>6. /\ Latest(events).safe <= st.safe /\ Latest(events).last_id <= st.last_id
      BY <1>3, Typed DEF CleanLog
    <2>7. Ordered'
      <3>1. ASSUME NEW i \in DOMAIN events'
            PROVE  /\ events'[i].name # "unreadable"
                   /\ i > 1 => /\ events'[i].seq > events'[i - 1].seq
                               /\ events'[i].safe >= events'[i - 1].safe
                               /\ events'[i].last_id >= events'[i - 1].last_id
                               /\ events'[i - 1].name # "death" /\ events'[i].name # "session"
        <4>1. CASE i \in DOMAIN events
          <5>1. i > 1 => i - 1 \in DOMAIN events
            BY <4>1, Typed
          <5> QED
            BY <2>3, <4>1, <5>1 DEF CleanLog, Ordered
        <4>2. CASE i = Len(events) + 1
          <5>1. i > 1 => events # <<>>
            BY <4>2, EmptySeq
          <5>2. i > 1 => i - 1 \in DOMAIN events /\ events'[i - 1] = Latest(events)
            <6>1. SUFFICES ASSUME i > 1
                           PROVE  i - 1 \in DOMAIN events /\ events'[i - 1] = Latest(events)
              OBVIOUS
            <6>2. i - 1 = Len(events)
              BY <4>2, Typed
            <6>3. Len(events) \in DOMAIN events /\ Latest(events) = events[Len(events)]
              BY <5>1, <6>1, Typed
            <6> QED
              BY <2>3, <6>2, <6>3
          <5>3. i > 1 => Latest(events).name # "death"
            BY <2>3, <5>1, <5>2, Typed DEF CleanLog
          <5> QED
            BY <1>3, <2>2, <2>3, <2>5, <2>6, <4>2, <5>1, <5>2, <5>3, Typed
        <4> QED
          BY <2>3, <4>1, <4>2
      <3> QED
        BY <3>1 DEF Ordered
    <2>8. /\ Acks' \subseteq Acks \cup {Len(events) + 1}
          /\ Len(events) + 1 \in Acks' => name \in AckNames
      BY <2>2, <2>3 DEF Acks, IsAck, AckNames
    <2>9. AcksAgree'
      <3>1. SUFFICES ASSUME NEW i \in DOMAIN events', NEW j \in DOMAIN events', i < j,
                            IsAck(events'[i]), IsAck(events'[j]),
                            events'[i].request.id = events'[j].request.id
                     PROVE  /\ events'[i].request = events'[j].request
                            /\ ~(events'[i].name = "accepted" /\ events'[j].name = "accepted")
        BY DEF AcksAgree
      <3>2. i \in DOMAIN events
        BY <2>3, <3>1, Typed
      <3>3. CASE j \in DOMAIN events
        <4>1. events'[i] = events[i] /\ events'[j] = events[j]
          BY <2>3, <3>2, <3>3
        <4>2. IsAck(events[i]) /\ IsAck(events[j]) /\ events[i].request.id = events[j].request.id
          BY <3>1, <4>1
        <4>3. AcksAgree
          BY DEF CleanLog
        <4>4. /\ events[i].request = events[j].request
              /\ ~(events[i].name = "accepted" /\ events[j].name = "accepted")
          BY <3>1, <3>2, <3>3, <4>2, <4>3, SMT DEF AcksAgree
        <4> QED
          BY <4>1, <4>4
      <3>4. CASE j = Len(events) + 1
        <4>1. /\ events'[j].request = request /\ events'[j].name = name /\ name \in AckNames
              /\ i \in Acks /\ events[i].request.id = request.id /\ events'[i] = events[i]
          BY <2>2, <2>3, <3>1, <3>2, <3>4 DEF Acks, IsAck, AckNames
        <4> QED
          BY <4>1
      <3> QED
        BY <2>3, <3>3, <3>4
    <2>10. /\ Latest(events').safe <= u'.safe /\ Latest(events').last_id <= u'.last_id
           /\ \A i \in DOMAIN events' : events'[i].last_id <= Latest(events').last_id
      <3>1. \A i \in DOMAIN events : events[i].last_id <= st.last_id
        BY <1>3, <2>6, Typed DEF CleanLog
      <3> QED
        BY <1>3, <2>2, <2>3, <2>4, <3>1
    <2>11. \A i \in Acks' : events'[i].request.id <= events'[i].last_id
      <3>1. \A i \in Acks' : i \in DOMAIN events => i \in Acks /\ events'[i] = events[i]
        BY <2>3 DEF Acks
      <3>2. Len(events) + 1 \in Acks' => request.id <= st.last_id
        BY <2>8
      <3>3. \A i \in Acks : i \in DOMAIN events
        BY DEF Acks
      <3> QED
        BY <2>2, <2>3, <2>8, <3>1, <3>2, <3>3 DEF CleanLog
    <2>12. pc' # "over" => \A i \in DOMAIN events' : events'[i].name # "death"
      BY <2>2, <2>3 DEF CleanLog
    <2>13. CleanLog'
      BY <2>7, <2>9, <2>10, <2>11, <2>12 DEF CleanLog
    <2> QED
      BY <2>1, <2>2, <2>3, <2>4, <2>13 DEF Told
  <1>6. ~Lost(l, st, done)
    BY DEF Lost
  <1> QED
    BY <1>2, <1>4, <1>5, <1>6

(* The mail after a line: what is left to show is that a request still without
   an answer waits on.                                                         *)
LEMMA MailTold ==
    ASSUME IInv, CleanMail, NEW st, NEW name, NEW request, NEW done \in BOOLEAN,
           Told(st, name, request, done), st.last_id = u.last_id, UNCHANGED <<whisper, sidecar>>,
           name \in AckNames => request = whisper \/ request.id < whisper.id,
           Unanswered /\ Unanswered' => Waiting' /\ (u'.seq < MaxSeq => Due')
    PROVE  CleanMail'
  <1>1. /\ whisper' = whisper /\ director' = director /\ directors' = directors
    BY DEF sidecar
  <1>2. Answered(events, whisper) => Answered(events', whisper')
    BY <1>1 DEF Answered, Told
  <1>3. Unanswered' => Unanswered
    BY <1>1, <1>2 DEF Unanswered
  <1>4. u'.last_id <= whisper'.id
    BY <1>1 DEF CleanMail, Told
  <1>5. \A i \in Acks' : events'[i].request = whisper' \/ events'[i].request.id < whisper'.id
    <2>1. ASSUME NEW i \in Acks'
          PROVE  events'[i].request = whisper \/ events'[i].request.id < whisper.id
      <3>1. i \in DOMAIN events' /\ events'[i].name \in AckNames
        BY <2>1 DEF Acks, IsAck, AckNames
      <3>2. CASE i \in DOMAIN events
        <4>1. events'[i] = events[i] /\ i \in Acks
          BY <3>1, <3>2 DEF Told, Acks, IsAck, AckNames
        <4> QED
          BY <4>1 DEF CleanMail
      <3>3. CASE i \notin DOMAIN events
        <4>1. done
          BY <3>1, <3>3 DEF Told
        <4>2. events'[i].request = request /\ events'[i].name = name
          BY <3>1, <3>3, <4>1 DEF Told
        <4> QED
          BY <3>1, <4>2
      <3> QED
        BY <3>2, <3>3
    <2> QED
      BY <1>1, <2>1
  <1> QED
    BY <1>1, <1>3, <1>4, <1>5 DEF CleanMail

(* The engine's other steps leave the log, and the mail with it. *)
LEMMA LogCleanKept ==
    ASSUME IInv, CleanLog, events' = events, u'.safe = u.safe, u'.last_id >= u.last_id,
           u'.last_id \in Nat, pc # "over"
    PROVE  CleanLog'
  <1>1. Latest(events').safe <= u'.safe /\ Latest(events').last_id <= u'.last_id
    BY Typed DEF CleanLog
  <1>2. Ordered' /\ AcksAgree' /\ Acks' = Acks
    BY DEF CleanLog, Ordered, AcksAgree, Acks
  <1> QED
    BY <1>1, <1>2 DEF CleanLog

LEMMA MailKept ==
    ASSUME IInv, CleanMail, events' = events, UNCHANGED <<whisper, sidecar>>,
           u'.last_id <= whisper.id, u'.seq = u.seq, Unanswered /\ Due => Due'
    PROVE  CleanMail'
  <1>1. /\ whisper' = whisper /\ director' = director /\ directors' = directors
    BY DEF sidecar
  <1>2. Acks' = Acks /\ (Unanswered' <=> Unanswered) /\ (Waiting' <=> Waiting)
    BY <1>1 DEF Acks, Unanswered, Waiting
  <1> QED
    BY <1>1, <1>2 DEF CleanMail

(* A run that was not clean is not clean again: what a crash forgets, the number
   of the process remembers.                                                     *)
LEMMA CleanBefore ==
    ASSUME IInv, Next, Clean'
    PROVE  Clean
  <1>1. /\ session \in Nat /\ directors \in Nat /\ (pc # "new" => session >= 1)
        /\ failed \in BOOLEAN /\ late \in BOOLEAN
    BY Constants DEF IInv, TypeOK, SessionOK
  <1>2. ~failed' /\ pc' # "off" /\ session' <= 1 /\ directors' <= 1 /\ ~late'
    BY DEF Clean
  <1>3. CASE DirectorStep
    <2>1. /\ failed' = failed /\ pc' = pc /\ session' = session
      BY <1>3 DEF DirectorStep, DirectorStarts, Mistrusts, SeesDeath, Waits, Chooses, Submit,
                  DirectorEnds, Alone, engine
    <2>2. directors' \in {directors, directors + 1}
      BY <1>3 DEF DirectorStep, DirectorStarts, Mistrusts, SeesDeath, Waits, Chooses, Submit,
                  DirectorEnds
    <2>3. late' = late \/ late' = (late \/ director.plan.at <= u.safe)
      BY <1>3 DEF DirectorStep, DirectorStarts, Mistrusts, SeesDeath, Waits, Chooses, Submit,
                  DirectorEnds
    <2>4. late => late'
      BY <2>3, Zenon
    <2>5. directors <= 1
      BY <1>1, <1>2, <2>2
    <2> QED
      BY <1>2, <2>1, <2>4, <2>5 DEF Clean
  <1>4. CASE ~DirectorStep
    <2>1. /\ Start \/ EngineStep \/ SafePoint \/ Report \/ Die \/ Save \/ Stop \/ HangUp \/ Restore
      BY <1>4 DEF Next, DirectorStep
    <2>2. late' = late /\ directors' = directors
      BY <2>1 DEF Start, EngineStep, Arrive, NoSafePoint, NothingToDo, Reject, Admit, Journal, Telegraph,
                  Show, ShowFails, Ack, SafePoint, Report, Die, Save, Stop, HangUp, Ends, Restore,
                  Unread, Unsaved, sidecar
    <2>3. ~Stop /\ ~HangUp
      BY <1>2 DEF Stop, HangUp, Ends
    <2>4. ~Restore
      <3>1. SUFFICES ASSUME Restore PROVE FALSE
        OBVIOUS
      <3>2. pc = "off" /\ session' = session + 1
        BY <3>1 DEF Restore
      <3> QED
        BY <1>1, <1>2, <3>2
    <2>5. CASE Start
      BY <1>1, <1>2, <2>2, <2>5 DEF Start, Clean, IInv, SessionOK
    <2>6. CASE Save \/ NoSafePoint \/ NothingToDo \/ Reject \/ Admit \/ Show \/ ShowFails
      <3>1. failed' = failed /\ session' = session /\ pc # "off"
        BY <2>6 DEF Save, NoSafePoint, NothingToDo, Reject, Admit, Show, ShowFails, Unread
      <3> QED
        BY <1>2, <2>2, <3>1 DEF Clean
    <2>7. CASE Journal
      <3>1. (failed' = failed \/ failed' = TRUE) /\ session' = session /\ pc # "off"
        BY <2>7 DEF Journal
      <3> QED
        BY <1>2, <2>2, <3>1 DEF Clean
    <2>8. CASE Arrive \/ Report \/ Die \/ SafePoint \/ Telegraph \/ Ack
      <3>1. session' = session /\ pc # "off"
        BY <2>8 DEF Arrive, Report, Die, SafePoint, Telegraph, Ack, Unread, Unsaved
      <3>2. \E st, name, request, done : Event(st, name, request, session, done)
        BY <2>8 DEF Arrive, Report, Die, SafePoint, Telegraph, Ack
      <3>3. failed' = failed \/ failed' = TRUE
        BY <3>2, Zenon DEF Event, WriteMade, WriteLost
      <3> QED
        BY <1>2, <2>2, <3>1, <3>3 DEF Clean
    <2> QED
      BY <2>1, <2>3, <2>4, <2>5, <2>6, <2>7, <2>8 DEF EngineStep
  <1> QED
    BY <1>3, <1>4

(* What a step of a running clean process may rely on. *)
LEMMA CleanFacts ==
    ASSUME IInv, CleanOK, Clean
    PROVE  /\ CleanLog /\ CleanHand /\ CleanMail /\ stopped # "error" /\ ~failed
           /\ Running /\ u.seq < MaxSeq => ~torn
           /\ Running => session = 1 /\ Follows(u, session)
  <1>1. Running => session = 1
    BY Constants DEF IInv, TypeOK, SessionOK, Clean, Running
  <1>2. Running => Follows(u, session)
    BY RunningFollows
  <1>3. Running /\ ~failed /\ u.seq < MaxSeq => ~torn
    BY DEF IInv, NumberOK
  <1> QED
    BY <1>1, <1>2, <1>3 DEF CleanOK, Clean

(* An event that is no answer and leaves nothing in hand. *)
LEMMA CleanAtRest ==
    ASSUME IInv, CleanOK, Clean, Clean', NEW st, NEW number, NEW name, NEW done \in BOOLEAN,
           Told(st, name, NoRequest, done), CleanLog', st.last_id = u.last_id, name \notin AckNames,
           st.seq = u.seq,
           UNCHANGED <<whisper, sidecar>>, pc' \in {"arrive", "enter", "play", "over", "read"},
           Unanswered /\ done => whisper.id > u.last_id /\ whisper.at >= st.safe,
           Unanswered /\ u.seq < MaxSeq /\ done => Due'
    PROVE  CleanOK'
  <1>1. CleanLog /\ CleanMail /\ stopped # "error"
    BY DEF CleanOK
  <1>2. CleanHand'
    BY DEF CleanHand, InHand
  <1>3. u'.seq < MaxSeq => done
    BY Constants DEF Told
  <1>4. ASSUME Unanswered, Unanswered' PROVE Waiting' /\ (u'.seq < MaxSeq => Due')
    <2>1. CASE done
      <3>1. Waiting'
        BY <1>4, <2>1 DEF Told, Waiting
      <3> QED
        BY <1>4, <2>1, <3>1 DEF Told
    <2>2. CASE ~done
      <3>1. events' = events /\ u'.seq = MaxSeq
        BY <2>2 DEF Told
      <3> QED
        BY <1>1, <1>4, <3>1, Constants DEF CleanMail, Waiting
    <2> QED
      BY <2>1, <2>2
  <1>5. CleanMail'
    BY <1>1, <1>4, MailTold
  <1>6. stopped' # "error"
    BY <1>1 DEF sidecar
  <1> QED
    BY <1>2, <1>5, <1>6 DEF CleanOK

(* Arrive, Report and Die: the request that waits is still ahead of the game. *)
LEMMA EventClean ==
    ASSUME IInv, CleanOK, Clean, Clean', NEW name \in {"other", "death"}, NEW done \in BOOLEAN,
           Event(u, name, NoRequest, session, done), Unsaved, pc \in {"arrive", "play"},
           \/ name = "other" /\ pc' \in {"enter", "play"}
           \/ name = "death" /\ pc' = "over"
    PROVE  CleanOK'
  <1>1. /\ CleanLog /\ CleanMail /\ ~failed /\ session = 1 /\ Follows(u, session)
        /\ (u.seq < MaxSeq => ~torn)
    BY CleanFacts DEF Running
  <1>2. ~failed' /\ UNCHANGED <<whisper, sidecar>>
    BY DEF Clean, Unsaved
  <1>3. /\ name \in EventNames \ {"unreadable"} /\ name # "session" /\ name \notin AckNames
        /\ (pc' # "over" => name # "death")
    BY DEF EventNames, AckNames
  <1>4. CASE u.seq < MaxSeq
    <2>1. CleanLog' /\ Told(u, name, NoRequest, done)
      <3>1. u.safe >= u.safe /\ pc # "over"
        BY Typed
      <3> QED
        BY <1>1, <1>2, <1>3, <1>4, <3>1, CleanEvent
    <2>2. Unanswered => whisper.id > u.last_id /\ whisper.at > u.safe
      BY <1>1, <1>4 DEF CleanMail, Due
    <2>3. Unanswered /\ done => Due'
      BY <1>2, <2>1, <2>2 DEF Due, Told
    <2>4. Unanswered => whisper.at >= u.safe
      BY <2>2, Typed
    <2> QED
      BY <1>2, <1>3, <2>1, <2>2, <2>3, <2>4, CleanAtRest
  <1>5. CASE ~(u.seq < MaxSeq)
    <2>1. ~CanWrite(u)
      BY <1>5 DEF CanWrite
    <2>2. ~done /\ u' = u /\ events' = events
      BY <2>1, Zenon DEF Event
    <2>3. u.seq = MaxSeq
      BY <1>5, Typed, Constants
    <2>4. CleanLog'
      BY <1>1, <2>2, LogCleanKept, Typed
    <2>5. Told(u, name, NoRequest, done)
      BY <2>2, <2>3 DEF Told
    <2> QED
      BY <1>2, <1>3, <2>2, <2>4, <2>5, CleanAtRest
  <1> QED
    BY <1>4, <1>5

LEMMA StartClean ==
    ASSUME IInv, CleanOK, Clean, Clean', Start
    PROVE  CleanOK'
  <1>1. /\ pc = "new" /\ pc' = "arrive" /\ session' = 1 /\ UNCHANGED <<whisper, sidecar>>
    BY DEF Start
  <1>2. PICK done \in BOOLEAN : Event(u, "session", NoRequest, 1, done)
    BY DEF Start
  <1>3. /\ session = 0 /\ events = <<>> /\ saved = NoRequest /\ u = NewGame /\ ~torn /\ ~failed
    BY <1>1 DEF IInv, SessionOK
  <1>4. Covers(events, u)
    BY <1>3, EmptySeq DEF Covers
  <1>5. Follows(u, 1)
    BY <1>3, <1>4, NewGameOK, Constants DEF Follows
  <1>6. CleanLog /\ CleanMail /\ ~failed'
    BY DEF CleanOK, Clean
  <1>7. "session" \in EventNames \ {"unreadable"} /\ "session" \notin AckNames
    BY DEF EventNames, AckNames
  <1>8. CleanLog' /\ Told(u, "session", NoRequest, done)
    <2>1. u.safe >= u.safe /\ pc # "over" /\ pc' # "over"
      BY <1>1, Typed
    <2> QED
      BY <1>1, <1>2, <1>3, <1>5, <1>6, <1>7, <2>1, CleanEvent
  <1>9. Unanswered /\ done => whisper.id > u.last_id /\ whisper.at > u.safe
    BY <1>1, <1>6, <1>8 DEF CleanMail, Due, Told
  <1>10. Unanswered /\ done => Due'
    BY <1>1, <1>8, <1>9 DEF Due, Told
  <1>11. Unanswered /\ done => whisper.at >= u.safe
    BY <1>9, Typed
  <1> QED
    BY <1>1, <1>7, <1>8, <1>9, <1>10, <1>11, CleanAtRest

LEMMA SafePointClean ==
    ASSUME IInv, CleanOK, Clean, Clean', SafePoint
    PROVE  CleanOK'
  <1> DEFINE st == [u EXCEPT !.safe = @ + 1]
  <1>1. /\ pc \in {"enter", "play"} /\ Running /\ u.safe < MaxSafe /\ UNCHANGED <<whisper, sidecar>>
    BY DEF SafePoint, Running, Unread
  <1>2. PICK done \in BOOLEAN : /\ Event(st, "safe_point", NoRequest, session, done)
                                /\ pc' = IF done THEN "read" ELSE "play"
    BY DEF SafePoint
  <1>3. Follows(st, session)
    BY <1>1, NextSafeFollows
  <1>4. /\ st.seq = u.seq /\ st.last_id = u.last_id /\ st.safe = u.safe + 1 /\ st.safe >= u.safe
    BY Typed DEF Saved
  <1> HIDE DEF st
  <1>5. CleanLog /\ CleanMail /\ ~failed /\ ~failed' /\ session = 1 /\ (u.seq < MaxSeq => ~torn)
    BY <1>1, CleanFacts DEF Clean
  <1>6. "safe_point" \in EventNames \ {"unreadable"} /\ "safe_point" \notin AckNames
    BY DEF EventNames, AckNames
  <1>7. CASE u.seq < MaxSeq
    <2>1. CleanLog' /\ Told(st, "safe_point", NoRequest, done)
      BY <1>1, <1>2, <1>3, <1>4, <1>5, <1>6, <1>7, CleanEvent
    <2>2. Unanswered => whisper.id > u.last_id /\ whisper.at > u.safe
      BY <1>1, <1>5, <1>7 DEF CleanMail, Due
    <2>3. Unanswered => whisper.id > u.last_id /\ whisper.at >= st.safe
      BY <1>4, <2>2, Typed
    <2>4. Unanswered /\ done => Due'
      BY <1>1, <1>2, <1>4, <2>1, <2>3 DEF Due, Told
    <2> QED
      BY <1>1, <1>2, <1>4, <1>6, <2>1, <2>3, <2>4, CleanAtRest
  <1>8. CASE ~(u.seq < MaxSeq)
    <2>1. ~CanWrite(st) /\ u.seq = MaxSeq
      BY <1>4, <1>8, Typed, Constants DEF CanWrite
    <2>2. ~done /\ u' = st /\ events' = events
      BY <1>2, <2>1, Zenon DEF Event
    <2>3. CleanLog'
      <3>1. Latest(events').safe <= u'.safe /\ Latest(events').last_id <= u'.last_id
        BY <1>4, <1>5, <2>2, Typed DEF CleanLog
      <3>2. Ordered' /\ AcksAgree' /\ Acks' = Acks
        BY <1>5, <2>2 DEF CleanLog, Ordered, AcksAgree, Acks
      <3> QED
        BY <1>1, <1>5, <2>2, <3>1, <3>2 DEF CleanLog
    <2>4. Told(st, "safe_point", NoRequest, done)
      BY <1>4, <2>1, <2>2 DEF Told
    <2> QED
      BY <1>1, <1>2, <1>4, <1>6, <2>2, <2>3, <2>4, CleanAtRest
  <1> QED
    BY <1>7, <1>8

LEMMA AckClean ==
    ASSUME IInv, CleanOK, Clean, Clean', Ack
    PROVE  CleanOK'
  <1>1. /\ pc = "ack" /\ pc' = "play" /\ Running /\ UNCHANGED <<whisper, sidecar>>
    BY DEF Ack, Running, Unread
  <1>2. PICK done \in BOOLEAN : Event(u, verdict, r, session, done)
    BY DEF Ack
  <1>3. /\ CleanLog /\ CleanHand /\ CleanMail /\ ~failed /\ ~failed' /\ session = 1
        /\ Follows(u, session) /\ (u.seq < MaxSeq => ~torn) /\ stopped # "error"
    BY <1>1, CleanFacts DEF Clean
  <1>4. /\ verdict \in AckNames /\ verdict \in EventNames \ {"unreadable"} /\ verdict # "session"
        /\ verdict # "death"
    BY DEF IInv, TypeOK, AckNames, EventNames
  <1>5. /\ r \in Request /\ r.id <= u.last_id /\ (r = whisper \/ r.id < whisper.id)
        /\ \A i \in Acks : events[i].request.id = r.id => events[i].request = r
        /\ verdict = "accepted" => Unheard(r.id)
    BY <1>1, <1>3 DEF CleanHand
  <1>6. CleanHand'
    BY <1>1 DEF CleanHand, InHand
  <1>7. stopped' # "error"
    BY <1>1, <1>3 DEF sidecar
  <1>8. CASE u.seq < MaxSeq
    <2>1. \A i \in Acks : events[i].request.id = r.id =>
                   events[i].request = r /\ ~(verdict = "accepted" /\ events[i].name = "accepted")
      BY <1>5 DEF Unheard
    <2>2. CleanLog' /\ Told(u, verdict, r, done)
      BY <1>1, <1>2, <1>3, <1>4, <1>5, <1>8, <2>1, Typed, CleanEvent
    <2>3. ASSUME Unanswered, Unanswered' PROVE Waiting' /\ (u'.seq < MaxSeq => Due')
      <3>1. CASE done
        <4>1. r # whisper
          <5>1. SUFFICES ASSUME r = whisper PROVE FALSE
            OBVIOUS
          <5>2. Len(events) + 1 \in DOMAIN events' /\ events'[Len(events) + 1].request = r
                /\ events'[Len(events) + 1].name \in AckNames
            BY <1>4, <2>2, <3>1 DEF Told
          <5>3. Answered(events', whisper')
            BY <1>1, <5>1, <5>2 DEF Answered, IsAck, AckNames
          <5> QED
            BY <2>3, <5>3 DEF Unanswered
        <4>2. whisper.id > u.last_id /\ whisper.at > u.safe
          BY <1>1, <1>3, <1>8, <2>3, <4>1 DEF CleanMail, Due
        <4>3. whisper.at >= u.safe
          BY <4>2, Typed
        <4> QED
          BY <1>1, <2>2, <3>1, <4>2, <4>3 DEF Waiting, Due, Told
      <3>2. CASE ~done
        <4>1. events' = events /\ u'.seq = MaxSeq
          BY <2>2, <3>2 DEF Told
        <4> QED
          BY <1>1, <1>3, <2>3, <4>1, Constants DEF CleanMail, Waiting
      <3> QED
        BY <3>1, <3>2
    <2>4. CleanMail'
      BY <1>1, <1>3, <1>5, <2>2, <2>3, MailTold
    <2> QED
      BY <1>6, <1>7, <2>2, <2>4 DEF CleanOK
  <1>9. CASE ~(u.seq < MaxSeq)
    <2>1. ~CanWrite(u) /\ u.seq = MaxSeq
      BY <1>9, Typed, Constants DEF CanWrite
    <2>2. u' = u /\ events' = events
      BY <1>2, <2>1, Zenon DEF Event
    <2>3. CleanLog'
      BY <1>1, <1>3, <2>2, LogCleanKept, Typed
    <2>4. Acks' = Acks /\ (Unanswered' <=> Unanswered) /\ (Waiting' <=> Waiting)
      BY <1>1, <2>2 DEF Acks, Unanswered, Waiting
    <2>5. CleanMail'
      BY <1>1, <1>3, <2>1, <2>2, <2>4, Constants DEF CleanMail, sidecar
    <2> QED
      BY <1>6, <1>7, <2>3, <2>5 DEF CleanOK
  <1> QED
    BY <1>8, <1>9

(* A request in hand has no answer yet: no plan can replace it. *)
LEMMA HandUnanswered ==
    ASSUME IInv, CleanHand, pc \in InHand
    PROVE  r = whisper /\ Unanswered
  <1>1. r \in Request /\ r = whisper /\ Unheard(r.id)
    BY DEF IInv, StepOK, CleanHand
  <1>2. r # NoRequest
    BY <1>1, Constants DEF Request, NoRequest
  <1>3. ~Answered(events, r)
    BY <1>1 DEF Unheard, Acks, Answered
  <1> QED
    BY <1>1, <1>2, <1>3 DEF Unanswered

LEMMA TelegraphClean ==
    ASSUME IInv, CleanOK, Clean, Clean', Telegraph
    PROVE  CleanOK'
  <1>1. /\ pc = "telegraph" /\ pc \in InHand /\ Running /\ UNCHANGED <<whisper, sidecar>>
    BY DEF Telegraph, Running, Unread, InHand
  <1>2. PICK done \in BOOLEAN :
           /\ Event(u, "telegraph", r, session, done)
           /\ IF done THEN pc' = "show" /\ UNCHANGED <<next, r, verdict>>
                      ELSE pc' = "play" /\ AtRest
    BY DEF Telegraph
  <1>3. /\ CleanLog /\ CleanHand /\ CleanMail /\ ~failed /\ ~failed' /\ session = 1
        /\ Follows(u, session) /\ (u.seq < MaxSeq => ~torn) /\ stopped # "error"
    BY <1>1, CleanFacts DEF Clean
  <1>4. /\ "telegraph" \in EventNames \ {"unreadable"} /\ "telegraph" \notin AckNames
        /\ r \in Request \cup {NoRequest} /\ u.safe >= u.safe
    BY Typed DEF EventNames, AckNames, IInv, TypeOK
  <1>5. r = whisper /\ Unanswered /\ u.last_id = r.id /\ r.at = u.safe
    BY <1>1, <1>3, HandUnanswered DEF CleanHand
  <1>6. stopped' # "error"
    BY <1>1, <1>3 DEF sidecar
  <1>7. CASE u.seq < MaxSeq
    <2>1. CleanLog' /\ Told(u, "telegraph", r, done)
      BY <1>1, <1>2, <1>3, <1>4, <1>7, CleanEvent
    <2>2. CASE done
      <3>1. pc' = "show" /\ next' = next /\ r' = r /\ verdict' = verdict
        BY <1>2, <2>2
      <3>2. Acks' = Acks /\ \A i \in Acks : events'[i] = events[i]
        BY <1>4, <2>1, <2>2 DEF Told, Acks, IsAck, AckNames
      <3>3. CleanHand'
        BY <1>1, <1>3, <2>1, <3>1, <3>2 DEF CleanHand, InHand, Told, Unheard
      <3>4. Waiting' /\ Due'
        BY <1>1, <1>5, <2>1, <2>2, <3>1 DEF Waiting, Due, Told
      <3>5. CleanMail'
        BY <1>1, <1>3, <1>4, <2>1, <3>4, MailTold
      <3> QED
        BY <1>6, <2>1, <3>3, <3>5 DEF CleanOK
    <2>3. CASE ~done
      <3>1. pc' = "play" /\ events' = events /\ u'.seq = MaxSeq
        BY <1>2, <2>1, <2>3 DEF Told
      <3>2. CleanHand'
        BY <3>1 DEF CleanHand, InHand
      <3>3. Waiting' /\ ~(u'.seq < MaxSeq)
        BY <1>1, <1>3, <1>5, <3>1, Constants DEF CleanMail, Waiting
      <3>4. CleanMail'
        BY <1>1, <1>3, <1>4, <2>1, <3>3, MailTold
      <3> QED
        BY <1>6, <2>1, <3>2, <3>4 DEF CleanOK
    <2> QED
      BY <2>2, <2>3
  <1>8. CASE ~(u.seq < MaxSeq)
    <2>1. ~CanWrite(u) /\ u.seq = MaxSeq
      BY <1>8, Typed, Constants DEF CanWrite
    <2>2. ~done /\ u' = u /\ events' = events
      BY <1>2, <2>1, Zenon DEF Event
    <2>3. pc' = "play"
      BY <1>2, <2>2
    <2>4. CleanLog' /\ CleanHand'
      BY <1>1, <1>3, <2>2, <2>3, LogCleanKept, Typed DEF CleanHand, InHand
    <2>5. Acks' = Acks /\ (Unanswered' <=> Unanswered) /\ (Waiting' <=> Waiting)
      BY <1>1, <2>2 DEF Acks, Unanswered, Waiting
    <2>6. CleanMail'
      BY <1>1, <1>3, <2>1, <2>2, <2>5, Constants DEF CleanMail, sidecar
    <2> QED
      BY <1>6, <2>4, <2>6 DEF CleanOK
  <1> QED
    BY <1>7, <1>8

(* NoSafePoint, NothingToDo, Save *)
LEMMA RestClean ==
    ASSUME IInv, CleanOK, Clean, pc' = "play", pc \in {"enter", "play", "read"},
           UNCHANGED <<u, events, whisper, sidecar>>,
           pc = "read" => whisper = NoRequest \/ "future" \in Judge(u, whisper)
    PROVE  CleanOK'
  <1>1. CleanLog /\ CleanMail /\ stopped # "error"
    BY DEF CleanOK
  <1>2. CleanLog'
    BY <1>1, LogCleanKept, Typed
  <1>3. CleanHand'
    BY DEF CleanHand, InHand
  <1>4. ASSUME Unanswered, Due PROVE Due'
    <2>1. CASE pc = "read"
      <3>1. "future" \in Judge(u, whisper)
        BY <1>4, <2>1 DEF Unanswered
      <3>2. whisper.id > u.last_id /\ whisper.at > u.safe
        BY <3>1, Typed DEF Judge
      <3> QED
        BY <3>2 DEF Due
    <2>2. CASE pc # "read"
      BY <1>4, <2>2 DEF Due
    <2> QED
      BY <2>1, <2>2
  <1>5. CleanMail'
    BY <1>1, <1>4, MailKept DEF CleanMail
  <1>6. stopped' # "error"
    BY <1>1 DEF sidecar
  <1> QED
    BY <1>2, <1>3, <1>5, <1>6 DEF CleanOK

LEMMA RejectClean ==
    ASSUME IInv, CleanOK, Clean, Reject
    PROVE  CleanOK'
  <1>1. /\ pc = "read" /\ whisper # NoRequest /\ pc' = "ack" /\ r' = whisper /\ verdict' = "rejected"
        /\ events' = events /\ UNCHANGED <<whisper, sidecar>>
    BY DEF Reject, Unread
  <1>2. PICK result \in {"duplicate", "schedule", "refused"} :
           result \in Judge(u, whisper) /\ u' = Consumed(u, whisper, result)
    BY DEF Reject
  <1>3. CleanLog /\ CleanMail /\ stopped # "error"
    BY DEF CleanOK
  <1>4. /\ u'.seq = u.seq /\ u'.safe = u.safe
        /\ u'.last_id = IF result = "duplicate" THEN u.last_id ELSE whisper.id
    BY <1>2, Typed DEF Consumed, Saved
  <1>5. /\ result = "duplicate" => whisper.id <= u.last_id
        /\ result # "duplicate" => whisper.id > u.last_id /\ whisper.at <= u.safe
    BY <1>2, Typed DEF Judge
  <1>6. /\ u'.last_id >= u.last_id /\ u'.last_id \in Nat /\ u'.last_id <= whisper.id
        /\ whisper.id <= u'.last_id
    BY <1>3, <1>4, <1>5, Typed DEF CleanMail
  <1>7. CleanLog'
    BY <1>1, <1>3, <1>4, <1>6, LogCleanKept
  <1>8. CleanHand'
    <2>1. whisper \in Request
      BY <1>1 DEF IInv, TypeOK
    <2>2. \A i \in Acks : events[i].request = whisper \/ events[i].request.id < whisper.id
      BY <1>3 DEF CleanMail
    <2>3. \A i \in Acks : events[i].request.id = whisper.id => events[i].request = whisper
      BY <2>2, Typed DEF Acks
    <2>4. Acks' = Acks
      BY <1>1 DEF Acks
    <2> QED
      BY <1>1, <1>6, <2>1, <2>3, <2>4 DEF CleanHand, InHand
  <1>9. ASSUME Unanswered, Due PROVE Due'
    <2>1. whisper.id > u.last_id /\ whisper.at >= u.safe
      BY <1>1, <1>9 DEF Due
    <2>2. whisper.at = u.safe
      BY <1>5, <2>1, Typed
    <2> QED
      BY <1>1, <1>4, <2>2 DEF Due
  <1>10. CleanMail'
    BY <1>1, <1>3, <1>4, <1>6, <1>9, MailKept
  <1>11. stopped' # "error"
    BY <1>1, <1>3 DEF sidecar
  <1> QED
    BY <1>7, <1>8, <1>10, <1>11 DEF CleanOK

LEMMA AdmitClean ==
    ASSUME IInv, CleanOK, Clean, Admit
    PROVE  CleanOK'
  <1> DEFINE effect == [id |-> whisper.id, at |-> whisper.at, safe |-> u.safe]
  <1>1. /\ pc = "read" /\ whisper # NoRequest /\ pc' = "journal" /\ r' = whisper
        /\ u' = Consumed(u, whisper, "ok") /\ "ok" \in Judge(u, whisper)
        /\ next' = [u' EXCEPT !.effects = Append(@, effect)]
        /\ events' = events /\ UNCHANGED <<whisper, sidecar>>
    BY DEF Admit, Unread
  <1>2. CleanLog /\ CleanMail /\ stopped # "error"
    BY DEF CleanOK
  <1> HIDE DEF effect
  <1>3. whisper.id > u.last_id /\ whisper.at = u.safe
    BY <1>1, Typed DEF Judge
  <1>4. /\ u'.seq = u.seq /\ u'.safe = u.safe /\ u'.last_id = whisper.id
        /\ next'.last_id = whisper.id /\ next'.safe = u.safe
    BY <1>1, Typed DEF Consumed, Saved
  <1>5. u'.last_id >= u.last_id /\ u'.last_id \in Nat /\ u'.last_id <= whisper.id
    BY <1>3, <1>4, Typed
  <1>6. CleanLog'
    BY <1>1, <1>2, <1>4, <1>5, LogCleanKept
  <1>7. CleanHand'
    <2>1. \A i \in Acks : events[i].request.id <= u.last_id
      <3>1. \A i \in Acks : i \in DOMAIN events /\ events[i].request.id <= events[i].last_id
                           /\ events[i].last_id <= Latest(events).last_id
        BY <1>2 DEF CleanLog, Acks
      <3>2. Latest(events).last_id <= u.last_id
        BY <1>2 DEF CleanLog
      <3>3. \A i \in Acks : events[i].request.id \in Nat /\ events[i].last_id \in Nat
        BY <3>1, Typed
      <3>4. Latest(events).last_id \in Nat /\ u.last_id \in Nat
        BY Typed
      <3> QED
        BY <3>1, <3>2, <3>3, <3>4
    <2>2. \A i \in Acks : events[i].request.id # whisper.id
      BY <1>3, <2>1, Typed DEF Acks
    <2>3. Acks' = Acks
      BY <1>1 DEF Acks
    <2> QED
      BY <1>1, <1>3, <1>4, <2>2, <2>3 DEF CleanHand, InHand, Unheard
  <1>8. Due'
    BY <1>1 DEF Due
  <1>9. CleanMail'
    BY <1>1, <1>2, <1>4, <1>5, <1>8, MailKept
  <1>10. stopped' # "error"
    BY <1>1, <1>2 DEF sidecar
  <1> QED
    BY <1>6, <1>7, <1>9, <1>10 DEF CleanOK

LEMMA JournalClean ==
    ASSUME IInv, CleanOK, Clean, Clean', Journal
    PROVE  CleanOK'
  <1>1. /\ pc = "journal" /\ pc' = "telegraph" /\ UNCHANGED <<next, r, verdict, u, events, whisper, sidecar>>
    BY DEF Journal, Clean
  <1>2. CleanLog /\ CleanHand /\ CleanMail /\ stopped # "error"
    BY DEF CleanOK
  <1>3. CleanLog'
    BY <1>1, <1>2, LogCleanKept, Typed
  <1>4. Acks' = Acks
    BY <1>1 DEF Acks
  <1>5. CleanHand'
    BY <1>1, <1>2, <1>4 DEF CleanHand, InHand, Unheard
  <1>6. Due'
    BY <1>1 DEF Due
  <1>7. CleanMail'
    BY <1>1, <1>2, <1>6, MailKept DEF CleanMail
  <1> QED
    BY <1>1, <1>2, <1>3, <1>5, <1>7 DEF CleanOK, sidecar

(* Show and ShowFails: the game has the effect or it has not; the answer is due. *)
LEMMA ShownClean ==
    ASSUME IInv, CleanOK, Clean, Show \/ ShowFails
    PROVE  CleanOK'
  <1>1. /\ pc = "show" /\ pc \in InHand /\ pc' = "ack"
        /\ UNCHANGED <<next, r, events, whisper, sidecar>> /\ u' \in {u, Commit(u, next)}
    BY DEF Show, ShowFails, Unread, InHand
  <1>2. CleanLog /\ CleanHand /\ CleanMail /\ stopped # "error"
    BY DEF CleanOK
  <1>3. /\ r = whisper /\ u.last_id = r.id /\ r.at = u.safe /\ next.last_id = r.id
        /\ next.safe = u.safe /\ Unheard(r.id) /\ r \in Request /\ next \in Saved
    BY <1>1, <1>2 DEF CleanHand, IInv, StepOK, TypeOK
  <1>4. u'.seq = u.seq /\ u'.safe = u.safe /\ u'.last_id = u.last_id
    BY <1>1, <1>3, Typed DEF Commit, Saved
  <1>5. CleanLog'
    BY <1>1, <1>2, <1>4, LogCleanKept, Typed
  <1>6. Acks' = Acks
    BY <1>1 DEF Acks
  <1>7. CleanHand'
    BY <1>1, <1>3, <1>4, <1>6, Typed DEF CleanHand, InHand, Unheard
  <1>8. Due'
    BY <1>1, <1>3, <1>4 DEF Due
  <1>9. CleanMail'
    BY <1>1, <1>2, <1>4, <1>8, MailKept DEF CleanMail
  <1> QED
    BY <1>1, <1>2, <1>5, <1>7, <1>9 DEF CleanOK, sidecar

(* What a clean log and clean mail look like to a director that polls. *)
LEMMA CleanPoll ==
    ASSUME IInv, CleanLog, CleanMail, director.up
    PROVE  Trusted(events) /\ Pending(events, whisper, director.known) # "error"
  <1>1. Trusted(events)
    <2>1. Ordered /\ AcksAgree
      BY DEF CleanLog
    <2>2. \A i \in DOMAIN events :
             /\ events[i].name # "unreadable"
             /\ i > 1 => /\ events[i].seq > events[i - 1].seq
                         /\ events[i].safe >= events[i - 1].safe
                         /\ events[i].last_id >= events[i - 1].last_id
                         /\ events[i - 1].name # "death"
                         /\ events[i].name = "session" => events[i].session > 1
      BY <2>1 DEF Ordered
    <2> QED
      BY <2>1, <2>2, Zenon DEF Trusted, AcksAgree
  <1>2. director.known \in {NoRequest, whisper}
    BY DEF CleanMail
  <1>3. Pending(events, whisper, director.known) # "error"
    <2>1. CASE Unanswered
      <3>1. director.known = whisper /\ whisper # NoRequest /\ Waiting /\ ~Answered(events, whisper)
        BY <2>1 DEF CleanMail, Unanswered
      <3>2. CASE whisper.id > Latest(events).last_id /\ whisper.at >= Latest(events).safe
        <4>1. ~(whisper.id <= Latest(events).last_id) /\ ~(whisper.at < Latest(events).safe)
          BY <3>2, Typed
        <4> QED
          BY <3>1, <4>1 DEF Pending
      <3>3. CASE /\ whisper.id = Latest(events).last_id /\ whisper.at = Latest(events).safe
                 /\ Latest(events).name = "telegraph"
        <4>1. whisper.id <= Latest(events).last_id
          BY <3>3, Typed
        <4> QED
          BY <3>1, <3>3, <4>1 DEF Pending
      <3> QED
        BY <3>1, <3>2, <3>3 DEF Waiting
    <2>2. CASE ~Unanswered
      BY <1>2, <2>2 DEF Pending, Unanswered
    <2> QED
      BY <2>1, <2>2
  <1> QED
    BY <1>1, <1>3

LEMMA OutsideClean ==
    ASSUME IInv, CleanOK, Clean, Alone, whisper' = whisper, stopped' # "error", CleanMail'
    PROVE  CleanOK'
  <1>1. /\ pc' = pc /\ u' = u /\ next' = next /\ r' = r /\ verdict' = verdict /\ events' = events
    BY DEF Alone, engine, files
  <1>2. CleanLog /\ CleanHand
    BY DEF CleanOK
  <1>3. Acks' = Acks
    BY <1>1 DEF Acks
  <1>4. CleanLog' /\ CleanHand'
    BY <1>1, <1>2, <1>3 DEF CleanLog, CleanHand, Ordered, AcksAgree, Unheard
  <1> QED
    BY <1>4 DEF CleanOK

LEMMA DirectorClean ==
    ASSUME IInv, CleanOK, Clean, Clean', DirectorStep
    PROVE  CleanOK'
  <1>1. CleanLog /\ CleanHand /\ CleanMail /\ stopped # "error"
    BY DEF CleanOK
  <1>2. Alone /\ (director.up \/ DirectorStarts)
    BY DEF DirectorStep, DirectorStarts, Mistrusts, SeesDeath, Waits, Chooses, Submit, DirectorEnds,
           Polling, Readable
  <1>3. /\ pc' = pc /\ u' = u /\ next' = next /\ r' = r /\ verdict' = verdict /\ events' = events
    BY <1>2 DEF Alone, engine, files
  <1>4. Acks' = Acks
    BY <1>3 DEF Acks
  <1>5. /\ director \in [up : BOOLEAN, read : Nat, known : Request \cup {NoRequest},
                        plan : Request \cup {NoRequest}]
        /\ directors \in Nat
    BY Constants DEF IInv, DirectorOK, TypeOK
  <1>6. CASE DirectorStarts
    <2>1. /\ ~director.up /\ director' = [Idle EXCEPT !.up = TRUE] /\ directors' = directors + 1
          /\ stopped' = "running" /\ whisper' = whisper
      BY <1>6 DEF DirectorStarts
    <2>2. directors = 0
      BY <1>5, <2>1 DEF Clean
    <2>3. whisper = NoRequest
      BY <1>1, <2>2 DEF CleanMail
    <2>4. director'.known = NoRequest /\ director'.plan = NoRequest /\ director'.up = TRUE
      BY <2>1 DEF Idle
    <2>5. ~Unanswered' /\ directors' # 0
      BY <2>1, <2>2, <2>3 DEF Unanswered
    <2>6. CleanMail'
      BY <1>1, <1>3, <1>4, <2>1, <2>4, <2>5 DEF CleanMail
    <2> QED
      BY <1>2, <2>1, <2>6, OutsideClean
  <1>7. CASE SeesDeath \/ DirectorEnds
    <2>1. /\ director' = Idle /\ stopped' # "error" /\ whisper' = whisper /\ directors' = directors
      BY <1>7 DEF SeesDeath, DirectorEnds, StopsFor
    <2>2. director'.known = NoRequest /\ director'.plan = NoRequest /\ director'.up = FALSE
      BY <2>1 DEF Idle
    <2>3. /\ (Unanswered' <=> Unanswered) /\ (Waiting' <=> Waiting) /\ (Due' <=> Due)
      BY <1>3, <2>1 DEF Unanswered, Waiting, Due
    <2>4. CleanMail'
      BY <1>1, <1>3, <1>4, <2>1, <2>2, <2>3 DEF CleanMail
    <2> QED
      BY <1>2, <2>1, <2>4, OutsideClean
  <1>8. CASE Mistrusts
    BY <1>1, <1>8, CleanPoll DEF Mistrusts, Polling
  <1>9. CASE Waits
    <2>1. /\ director.up /\ director.plan = NoRequest /\ director' = [director EXCEPT !.known = whisper]
          /\ UNCHANGED <<whisper, stopped, directors>>
      BY <1>9 DEF Waits, Readable, Polling
    <2>2. director'.known = whisper /\ director'.plan = NoRequest /\ director'.up = director.up
      BY <1>5, <2>1
    <2>3. /\ (Unanswered' <=> Unanswered) /\ (Waiting' <=> Waiting) /\ (Due' <=> Due)
      BY <1>3, <2>1 DEF Unanswered, Waiting, Due
    <2>4. CleanMail'
      BY <1>1, <1>3, <1>4, <2>1, <2>2, <2>3 DEF CleanMail
    <2> QED
      BY <1>1, <1>2, <2>1, <2>4, OutsideClean
  <1>10. CASE Chooses
    <2>1. /\ director.up /\ director.plan = NoRequest /\ UNCHANGED <<whisper, stopped, directors>>
          /\ Pending(events, whisper, director.known) = "none"
      BY <1>10 DEF Chooses, Readable, Polling
    <2>2. \/ director' = [director EXCEPT !.known = NoRequest]
          \/ \E plan \in Choices(events) :
               director' = [director EXCEPT !.known = NoRequest, !.plan = plan, !.read = Len(events)]
      BY <1>10 DEF Chooses
    <2>3. ~Unanswered /\ ~Unanswered'
      BY <1>3, <2>1 DEF Pending, Unanswered
    <2>4. whisper.id <= Latest(events).last_id
      <3>1. CASE whisper = NoRequest
        BY <3>1, Typed DEF NoRequest
      <3>2. CASE Answered(events, whisper)
        <4>1. PICK i \in Acks : events[i].request = whisper
          BY <3>2 DEF Answered, Acks
        <4>2. i \in DOMAIN events /\ whisper.id <= events[i].last_id
              /\ events[i].last_id <= Latest(events).last_id
          BY <1>1, <4>1 DEF CleanLog, Acks
        <4> QED
          BY <4>2, Typed
      <3> QED
        BY <2>3, <3>1, <3>2 DEF Unanswered
    <2>5. \A plan \in Choices(events) : plan \in Request /\ plan.id > whisper.id
      BY <2>4, Typed DEF Choices
    <2>6. /\ director'.known = NoRequest /\ director'.up = director.up
          /\ director'.plan # NoRequest => director'.plan.id > whisper.id
      BY <1>5, <2>1, <2>2, <2>5
    <2>7. CleanMail'
      BY <1>1, <1>3, <1>4, <2>1, <2>3, <2>6 DEF CleanMail
    <2> QED
      BY <1>1, <1>2, <2>1, <2>7, OutsideClean
  <1>11. CASE Submit
    <2>1. /\ director.up /\ director.plan # NoRequest /\ whisper' = director.plan
          /\ director' = [director EXCEPT !.known = director.plan, !.plan = NoRequest, !.read = 0]
          /\ late' = (late \/ director.plan.at <= u.safe) /\ UNCHANGED <<stopped, directors>>
      BY <1>11 DEF Submit
    <2> DEFINE plan == director.plan
    <2>2. /\ plan \in Request /\ plan.id \in Nat /\ plan.at \in Nat
      BY <1>5, <2>1, Constants DEF Request
    <2>3. ~(plan.at <= u.safe)
      <3>1. ~late'
        BY DEF Clean
      <3> QED
        BY <2>1, <3>1, Zenon
    <2>4. plan.id > whisper.id /\ ~Unanswered /\ directors # 0
      BY <1>1, <2>1 DEF CleanMail
    <2>5. /\ director'.known = whisper' /\ director'.plan = NoRequest /\ director'.up = director.up
      BY <1>5, <2>1
    <2>6. /\ plan.id > u.last_id /\ plan.at > u.safe
          /\ plan.id > Latest(events).last_id /\ plan.at >= Latest(events).safe
      BY <1>1, <2>2, <2>3, <2>4, Typed, SMTT(30) DEF CleanMail, CleanLog
    <2>7. pc \notin InHand
      BY <1>1, <2>4, HandUnanswered
    <2>8. CleanHand'
      <3>1. pc = "ack" => r.id < plan.id
        BY <1>1, <2>2, <2>4, Typed, SMTT(30) DEF CleanHand
      <3> QED
        BY <1>1, <1>3, <1>4, <2>1, <2>7, <3>1 DEF CleanHand, Unheard
    <2>9. CleanLog'
      BY <1>1, <1>3, <1>4 DEF CleanLog, Ordered, AcksAgree
    <2>10. Waiting'
      BY <1>3, <2>1, <2>6 DEF Waiting
    <2>11. Due'
      <3>1. pc = "ack" => r # plan
        BY <1>1, <2>2, <2>4, Typed DEF CleanHand
      <3>2. plan.at >= u.safe
        BY <2>2, <2>6, Typed
      <3> QED
        BY <1>3, <2>1, <2>6, <3>1, <3>2 DEF Due
    <2>12. \A i \in Acks' : events'[i].request = whisper' \/ events'[i].request.id < whisper'.id
      <3>1. \A i \in Acks : i \in DOMAIN events
                           /\ (events[i].request = whisper \/ events[i].request.id < whisper.id)
        BY <1>1 DEF CleanMail, Acks
      <3>2. \A i \in Acks : events[i].request.id < plan.id
        BY <2>2, <2>4, <3>1, Typed, SMTT(30)
      <3> QED
        BY <1>3, <1>4, <2>1, <3>2
    <2>13. u'.last_id <= whisper'.id
      BY <1>3, <2>1, <2>2, <2>6, Typed
    <2>14. CleanMail'
      BY <1>3, <2>1, <2>4, <2>5, <2>10, <2>11, <2>12, <2>13 DEF CleanMail
    <2> QED
      BY <1>1, <2>1, <2>8, <2>9, <2>14 DEF CleanOK
  <1> QED
    BY <1>6, <1>7, <1>8, <1>9, <1>10, <1>11 DEF DirectorStep

LEMMA NextClean ==
    ASSUME IInv, CleanOK, [Next]_vars
    PROVE  CleanOK'
  <1>1. CASE UNCHANGED vars
    <2>1. CleanOK' <=> CleanOK
      BY <1>1 DEF vars, engine, files, sidecar, CleanOK, Clean, CleanLog, CleanHand, CleanMail, Ordered,
                  AcksAgree, Acks, Unheard, Unanswered, Waiting, Due
    <2> QED
      BY <2>1
  <1>2. CASE Next
    <2>1. SUFFICES ASSUME Clean' PROVE CleanOK'
      BY DEF CleanOK
    <2>2. Clean
      BY <1>2, <2>1, CleanBefore
    <2>3. CASE Start
      BY <2>1, <2>2, <2>3, StartClean
    <2>4. CASE Arrive \/ Report \/ Die
      <3>1. PICK name \in {"other", "death"}, done \in BOOLEAN :
               /\ Event(u, name, NoRequest, session, done)
               /\ \/ name = "other" /\ pc' \in {"enter", "play"}
                  \/ name = "death" /\ pc' = "over"
        BY <2>4 DEF Arrive, Report, Die
      <3>2. Unsaved /\ pc \in {"arrive", "play"}
        BY <2>4 DEF Arrive, Report, Die
      <3> QED
        BY <2>1, <2>2, <3>1, <3>2, EventClean
    <2>5. CASE SafePoint
      BY <2>1, <2>2, <2>5, SafePointClean
    <2>6. CASE Ack
      BY <2>1, <2>2, <2>6, AckClean
    <2>7. CASE Telegraph
      BY <2>1, <2>2, <2>7, TelegraphClean
    <2>8. CASE NoSafePoint \/ NothingToDo \/ Save
      <3>1. /\ pc' = "play" /\ pc \in {"enter", "play", "read"}
            /\ UNCHANGED <<u, events, whisper, sidecar>>
            /\ pc = "read" => whisper = NoRequest \/ "future" \in Judge(u, whisper)
        BY <2>8 DEF NoSafePoint, NothingToDo, Save, Unread, files
      <3> QED
        BY <2>2, <3>1, RestClean
    <2>9. CASE Reject
      BY <2>2, <2>9, RejectClean
    <2>10. CASE Admit
      BY <2>2, <2>10, AdmitClean
    <2>11. CASE Journal
      BY <2>1, <2>2, <2>11, JournalClean
    <2>12. CASE Show \/ ShowFails
      BY <2>2, <2>12, ShownClean
    <2>13. CASE DirectorStep
      BY <2>1, <2>2, <2>13, DirectorClean
    <2>14. ~Stop /\ ~HangUp /\ ~Restore
      BY <2>1, <2>2 DEF Stop, HangUp, Ends, Restore, Clean
    <2> QED
      BY <1>2, <2>3, <2>4, <2>5, <2>6, <2>7, <2>8, <2>9, <2>10, <2>11, <2>12, <2>13, <2>14
         DEF Next, EngineStep, DirectorStep
  <1> QED
    BY <1>1, <1>2

LEMMA InitClean == Init => CleanOK
  <1>1. SUFFICES ASSUME Init PROVE CleanOK
    OBVIOUS
  <1>2. IInv
    BY <1>1, InitIInv
  <1>3. /\ pc = "new" /\ u = NewGame /\ events = <<>> /\ whisper = NoRequest /\ director = Idle
        /\ stopped = "running" /\ directors = 0
    BY <1>1 DEF Init
  <1>4. DOMAIN events = {} /\ Latest(events) = NoLine
    BY <1>3, EmptySeq DEF Latest
  <1>5. Acks = {}
    BY <1>4 DEF Acks
  <1>6. CleanLog
    BY <1>3, <1>4, <1>5 DEF CleanLog, Ordered, AcksAgree, NoLine, NewGame
  <1>7. CleanHand
    BY <1>3 DEF CleanHand, InHand
  <1>8. CleanMail
    BY <1>3, <1>5 DEF CleanMail, Unanswered, Idle, NewGame, NoRequest
  <1> QED
    BY <1>3, <1>6, <1>7, <1>8 DEF CleanOK

(* While one healthy game and one director run and no request is published late,
   Mailbox.pending and State.ingest never see damage: the director does not give
   up.                                                                           *)
THEOREM CleanRunIsTrusted == Spec => []CleanRunsAreTrusted
  <1>1. Spec => []CleanOK
    BY InitClean, NextClean, InductiveInvariant, PTL DEF Spec
  <1>2. IInv /\ CleanOK => CleanRunsAreTrusted
    <2>1. SUFFICES ASSUME IInv, CleanOK, stopped = "error", ~failed, pc # "off", ~(session > 1),
                          ~(directors > 1), ~late
                   PROVE  FALSE
      BY DEF CleanRunsAreTrusted
    <2>2. session \in Nat /\ directors \in Nat
      BY <2>1, Constants DEF IInv, TypeOK
    <2>3. Clean
      BY <2>1, <2>2 DEF Clean
    <2> QED
      BY <2>1, <2>3 DEF CleanOK
  <1> QED
    BY <1>1, <1>2, InductiveInvariant, PTL
=============================================================================
