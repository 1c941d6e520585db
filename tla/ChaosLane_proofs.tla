-------------------------- MODULE ChaosLane_proofs ---------------------------
(****************************************************************************)
(* Proofs about ChaosLane, for both surfaces and any number of directors:   *)
(* its safety invariants, and that it implements ChaosAuthored.             *)
(*                                                                          *)
(* None of the invariants is inductive.  What is, is IInv: what the record  *)
(* promises of the other files, where inside a poll the director can be,    *)
(* what a thread that is still alive may yet write, and that the engine has *)
(* read what is still there.                                                *)
(****************************************************************************)
EXTENDS ChaosLane, TLAPS

(* What the durable record says of the other files and of the requests made. *)
RecordInv ==
    /\ record.step \in {"idle", "no_model"} => requests = 0 /\ Ready = {} /\ record.outcome = "none"
    /\ record.step = "requested" => candidate = "none" /\ record.outcome = "none"
    /\ record.step = "idle" => candidate = "none"
    /\ record.step \in {"ready", "published"} =>
         /\ record.evidence \in Attempts /\ receipt[record.evidence] = "ready"
         /\ candidate \in {"none", Source[record.evidence]} /\ record.outcome = "ready"
    /\ record.step \in {"failed", "fallback"} =>
         record.outcome \in Failures /\ (record.outcome = "closed" => surface = "curio")
    /\ candidate = "hand" => surface = "hound"
    /\ record.step = "failed" /\ surface = "hound" => candidate \in {"none", "hand"}
    /\ record.step = "fallback" => candidate = "hand"
    /\ Ready # {} => requests = 1
    /\ requests \in 0..1

(* What the director's memory adds, and where inside a poll it is. *)
PollInv ==
    /\ pc \in {"off", "init", "start", "hand", "conflict"} => thread.at = "none"
    /\ ~Up => clock = Fresh
    /\ pc = "start" => record.step = "requested" /\ requests = 0 /\ Ready = {}
    /\ pc = "hand" => record.step = "no_model" /\ surface = "hound"
    /\ pc = "expire" => record.step = "requested" /\ clock.expired /\ thread.at # "none"
    /\ pc = "mark" => \/ record.step = "ready" /\ candidate = Source[record.evidence]
                      \/ record.step = "failed" /\ candidate = "hand"

(* What the thread may still do. *)
ThreadInv ==
    /\ thread.at # "none" =>
         /\ requests = 1
         /\ \/ record.step = "requested"
            \/ record.step \in {"failed", "fallback"} /\ record.outcome = "deadline"
               /\ clock.expired
    /\ Alive => Ready = {} /\ ~clock.settled
    /\ Alive => last # "ready"
    /\ requests = 0 => ~clock.settled /\ last = "lane_error"
    /\ thread.at = "asking" => thread.attempt \in Attempts
    /\ clock.expired => Ready = {} /\ ~clock.settled
    /\ thread.at = "dead" => /\ last = "ready" => thread.attempt \in Attempts
                                                  /\ receipt[thread.attempt] = "ready"
                             /\ last \notin {"ready", "lane_error"} => Ready = {}

EngineInv ==
    /\ looked # "none" => looked = candidate
    /\ looked # "none" <=> phase = "taken"

IInv == TypeOK /\ RecordInv /\ PollInv /\ ThreadInv /\ EngineInv
        /\ FailedHasNoAnswer /\ CandidateIsRecorded /\ NeverConflicts

-----------------------------------------------------------------------------
(* A part of the invariant holds on while what it speaks of is unchanged. *)

(* what is written as a record, and what a step makes of the clock *)
LEMMA WriteTyped ==
  ASSUME NEW step \in Steps, NEW outcome \in Failures \cup {"none", "ready"},
         NEW evidence \in 0..2, Write(step, outcome, evidence)
  PROVE  /\ record' \in Records
         /\ record'.step = step /\ record'.outcome = outcome /\ record'.evidence = evidence
BY DEF Write, Records

LEMMA FreshTyped == Fresh \in Clocks /\ NoThread \in Threads
BY DEF Fresh, Clocks, NoThread, Threads

LEMMA ClockTyped ==
  ASSUME NEW c \in Clocks, NEW b \in BOOLEAN
  PROVE  [c EXCEPT !.expired = b] \in Clocks /\ [c EXCEPT !.settled = b] \in Clocks
         /\ [c EXCEPT !.over = b] \in Clocks
BY DEF Clocks

(* the latest of the ready answers is one of them *)
LEMMA LatestIsReady == Ready # {} => Latest \in Ready
<1> SUFFICES ASSUME Ready # {} PROVE \E k \in Ready : \A j \in Ready : j <= k
  BY DEF Latest
<1>1. CASE 2 \in Ready BY <1>1 DEF Ready, Attempts
<1>2. CASE 2 \notin Ready BY <1>2 DEF Ready, Attempts
<1> QED BY <1>1, <1>2

(* the files and the requests made *)
LEMMA RecordKept ==
  ASSUME IInv, UNCHANGED <<disk, requests, surface>>
  PROVE  RecordInv' /\ FailedHasNoAnswer' /\ CandidateIsRecorded'
BY DEF IInv, RecordInv, FailedHasNoAnswer, CandidateIsRecorded, Ready, disk

(* the thread, and the files it answers to *)
LEMMA ThreadKept ==
  ASSUME IInv, UNCHANGED <<record, receipt, thread, last, clock, requests>>
  PROVE  ThreadInv'
BY DEF IInv, ThreadInv, Ready, Alive

(* the place inside a poll, and what it was reached with *)
LEMMA PollKept ==
  ASSUME IInv, UNCHANGED <<disk, pc, thread, clock, requests, surface>>
  PROVE  PollInv' /\ NeverConflicts'
BY DEF IInv, PollInv, NeverConflicts, Ready, Up, disk

(* the engine *)
LEMMA EngineKept ==
  ASSUME IInv, UNCHANGED <<phase, looked, candidate>>
  PROVE  EngineInv'
BY DEF IInv, EngineInv

-----------------------------------------------------------------------------
(* The initial states, and one step per action *)

LEMMA InitHolds == Init => IInv
<1> SUFFICES ASSUME Init PROVE IInv OBVIOUS
<1>1. TypeOK
  <2>1. record \in Records BY DEF Init, Records, Steps
  <2>2. receipt \in [Attempts -> Outcomes \cup {"none", "deadline"}] BY DEF Init
  <2>3. wanted \in BOOLEAN /\ backend \in BOOLEAN BY DEF Init
  <2>4. starts \in 0..MaxStarts BY LaneAssumption DEF Init
  <2> QED BY <2>1, <2>2, <2>3, <2>4, FreshTyped DEF Init, TypeOK, Sources, Outcomes
<1>2. RecordInv BY DEF Init, RecordInv, Ready
<1>3. PollInv /\ NeverConflicts BY DEF Init, PollInv, NeverConflicts, Up, NoThread
<1>4. ThreadInv BY DEF Init, ThreadInv, Alive, NoThread, Fresh
<1>5. EngineInv BY DEF Init, EngineInv
<1>6. FailedHasNoAnswer /\ CandidateIsRecorded
  BY DEF Init, FailedHasNoAnswer, CandidateIsRecorded, Source, Attempts
<1> QED BY <1>1, <1>2, <1>3, <1>4, <1>5, <1>6 DEF IInv

LEMMA StepKeeps ==
  ASSUME IInv, [Next]_vars
  PROVE  IInv'
<1>1. ASSUME Wanted PROVE IInv'
  <2>1. TypeOK' BY <1>1 DEF IInv, TypeOK, Wanted, disk, memory, history
  <2> QED
    BY <1>1, <2>1, RecordKept, ThreadKept, PollKept, EngineKept
    DEF IInv, Wanted, disk, memory, history
<1>2. ASSUME EngineReads PROVE IInv'
  <2>1. TypeOK' BY <1>2 DEF IInv, TypeOK, EngineReads, disk, memory, history
  <2>2. EngineInv' BY <1>2 DEF EngineReads, EngineInv, disk
  <2> QED
    BY <1>2, <2>1, <2>2, RecordKept, ThreadKept, PollKept
    DEF IInv, EngineReads, disk, memory, history
<1>3. ASSUME EngineCloses PROVE IInv'
  <2>1. TypeOK' BY <1>3 DEF IInv, TypeOK, EngineCloses, disk, memory, history
  <2>2. EngineInv' BY <1>3 DEF IInv, EngineCloses, EngineInv, disk
  <2> QED
    BY <1>3, <2>1, <2>2, RecordKept, ThreadKept, PollKept
    DEF IInv, EngineCloses, disk, memory, history
<1>4. ASSUME Start PROVE IInv'
  <2>1. TypeOK' BY <1>4, LaneAssumption DEF IInv, TypeOK, Start, disk, engine
  <2>2. PollInv' /\ NeverConflicts'
    BY <1>4 DEF IInv, Start, PollInv, NeverConflicts, Up
  <2> QED
    BY <1>4, <2>1, <2>2, RecordKept, ThreadKept, EngineKept DEF IInv, Start, disk, engine
<1>5. ASSUME Stop PROVE IInv'
  <2>1. TypeOK' BY <1>5, FreshTyped DEF IInv, TypeOK, Stop, Rest, disk, engine, history, Outcomes
  <2>2. ThreadInv' /\ PollInv' /\ NeverConflicts'
    BY <1>5
    DEF Stop, Rest, ThreadInv, PollInv, NeverConflicts, Alive, Up, NoThread, Fresh
  <2> QED BY <1>5, <2>1, <2>2, RecordKept, EngineKept DEF IInv, Stop, disk, engine, history
<1>6. ASSUME Note PROVE IInv'
  <2>1. TypeOK' BY <1>6 DEF IInv, TypeOK, Note, disk, engine, history
  <2> QED
    BY <1>6, <2>1, RecordKept, ThreadKept, PollKept, EngineKept
    DEF IInv, Note, disk, engine, history
<1>7. ASSUME InFlight PROVE IInv'
  <2>1. CASE Ready # {}
    <3>1. Latest \in Attempts /\ receipt[Latest] = "ready" BY <2>1, LatestIsReady DEF Ready
    <3>2. /\ record' \in Records
          /\ record'.step = "ready" /\ record'.outcome = "ready" /\ record'.evidence = Latest
      BY <1>7, <2>1, <3>1, WriteTyped DEF InFlight, Steps, Attempts
    <3> HIDE DEF Latest
    <3>3. TypeOK' BY <1>7, <3>2 DEF IInv, TypeOK, InFlight, OnlyRecord, engine, memory, history
    <3>4. RecordInv' /\ FailedHasNoAnswer' /\ CandidateIsRecorded'
      BY <1>7, <3>1, <3>2
      DEF IInv, RecordInv, FailedHasNoAnswer, CandidateIsRecorded, InFlight, OnlyRecord,
          Ready, Source, Attempts, history
    <3>5. ThreadInv' /\ PollInv' /\ NeverConflicts'
      BY <1>7, <3>2
      DEF IInv, ThreadInv, PollInv, NeverConflicts, InFlight, OnlyRecord, NoThread, Alive,
          Up, Ready, memory, history
    <3> QED BY <1>7, <3>3, <3>4, <3>5, EngineKept DEF IInv, InFlight, OnlyRecord, engine
  <2>2. CASE Ready = {}
    <3>1. /\ record' \in Records
          /\ record'.step = "failed" /\ record'.outcome = "abandoned" /\ record'.evidence = 0
      BY <1>7, <2>2, WriteTyped DEF InFlight, Steps, Failures
    <3>2. TypeOK' BY <1>7, <3>1 DEF IInv, TypeOK, InFlight, OnlyRecord, engine, memory, history
    <3>3. RecordInv' /\ FailedHasNoAnswer' /\ CandidateIsRecorded'
      BY <1>7, <2>2, <3>1
      DEF IInv, RecordInv, FailedHasNoAnswer, CandidateIsRecorded, InFlight, OnlyRecord,
          Ready, Source, Attempts, Failures, history
    <3>4. ThreadInv' /\ PollInv' /\ NeverConflicts'
      BY <1>7, <3>1
      DEF IInv, ThreadInv, PollInv, NeverConflicts, InFlight, OnlyRecord, NoThread, Alive,
          Up, Ready, memory, history
    <3> QED BY <1>7, <3>2, <3>3, <3>4, EngineKept DEF IInv, InFlight, OnlyRecord, engine
  <2> QED BY <2>1, <2>2
<1>8. ASSUME NoModel PROVE IInv'
  <2>1. /\ record' \in Records
        /\ record'.step = "no_model" /\ record'.outcome = "none" /\ record'.evidence = 0
    BY <1>8, WriteTyped DEF NoModel, Steps
  <2>2. TypeOK' BY <1>8, <2>1 DEF IInv, TypeOK, NoModel, OnlyRecord, engine, memory, history
  <2>3. RecordInv' /\ FailedHasNoAnswer' /\ CandidateIsRecorded'
    BY <1>8, <2>1
    DEF IInv, RecordInv, FailedHasNoAnswer, CandidateIsRecorded, NoModel, OnlyRecord, Ready,
        Source, Attempts, history
  <2>4. ThreadInv' /\ PollInv' /\ NeverConflicts'
    BY <1>8, <2>1
    DEF IInv, ThreadInv, PollInv, NeverConflicts, NoModel, OnlyRecord, NoThread, Alive, Up,
        Ready, memory, history
  <2> QED BY <1>8, <2>2, <2>3, <2>4, EngineKept DEF IInv, NoModel, OnlyRecord, engine
<1>9. ASSUME Begins PROVE IInv'
  <2>1. TypeOK'
    BY <1>9 DEF IInv, TypeOK, Begins, OnlyRecord, engine, memory, history
  <2>2. PollInv' /\ NeverConflicts'
    BY <1>9 DEF IInv, PollInv, NeverConflicts, Begins, OnlyRecord, memory, Up, history
  <2> QED
    BY <1>9, <2>1, <2>2, RecordKept, ThreadKept, EngineKept
    DEF IInv, Begins, OnlyRecord, disk, engine, memory, history
<1>10. ASSUME Asks PROVE IInv'
  <2>1. /\ record' \in Records
        /\ record'.step = "requested" /\ record'.outcome = "none" /\ record'.evidence = 0
    BY <1>10, WriteTyped DEF Asks, Steps
  <2>2. thread.at = "none" BY <1>10 DEF IInv, ThreadInv, Asks
  <2>3. TypeOK' BY <1>10, <2>1 DEF IInv, TypeOK, Asks, OnlyRecord, engine, memory, history
  <2>4. RecordInv' /\ FailedHasNoAnswer' /\ CandidateIsRecorded'
    BY <1>10, <2>1
    DEF IInv, RecordInv, FailedHasNoAnswer, CandidateIsRecorded, Asks, OnlyRecord, Ready,
        Source, Attempts, history
  <2>5. ThreadInv'
    BY <1>10, <2>1, <2>2 DEF IInv, ThreadInv, Asks, OnlyRecord, Alive, Ready, memory, history
  <2>6. PollInv' /\ NeverConflicts'
    BY <1>10, <2>1, <2>2
    DEF IInv, RecordInv, PollInv, NeverConflicts, Asks, OnlyRecord, Up, Ready, memory, history
  <2> QED BY <1>10, <2>3, <2>4, <2>5, <2>6, EngineKept DEF IInv, Asks, OnlyRecord, engine
<1>11. ASSUME StartsThread PROVE IInv'
  <2>1. thread' \in Threads /\ thread'.at = "loop" /\ thread'.attempt = 1
    BY <1>11 DEF StartsThread, Threads
  <2>2. TypeOK'
    BY <1>11, <2>1 DEF IInv, TypeOK, StartsThread, disk, engine
  <2>3. /\ record.step = "requested" /\ requests = 0 /\ Ready = {} /\ requests' = 1
        /\ UNCHANGED <<record, receipt, candidate, last, clock>>
    BY <1>11 DEF IInv, PollInv, StartsThread, disk
  <2>4. Ready' = {} BY <2>3 DEF Ready
  <2>5. RecordInv' /\ FailedHasNoAnswer' /\ CandidateIsRecorded'
    BY <2>3, <2>4 DEF IInv, RecordInv, FailedHasNoAnswer, CandidateIsRecorded
  <2>6. ~clock.settled /\ last = "lane_error" BY <1>11, <2>3 DEF IInv, ThreadInv, StartsThread
  <2>7. ThreadInv' BY <2>1, <2>3, <2>4, <2>6 DEF ThreadInv, Attempts, Alive
  <2>8. PollInv' /\ NeverConflicts'
    BY <1>11, <2>3 DEF StartsThread, PollInv, NeverConflicts, Up
  <2> QED BY <1>11, <2>2, <2>5, <2>7, <2>8, EngineKept DEF IInv, StartsThread, disk, engine
<1>12. ASSUME Finishes PROVE IInv'
  <2>1. CASE last = "ready"
    <3>1. thread.attempt \in Attempts /\ receipt[thread.attempt] = "ready"
      BY <1>12, <2>1 DEF IInv, ThreadInv, Finishes
    <3>2. /\ record' \in Records /\ record'.step = "ready" /\ record'.outcome = "ready"
          /\ record'.evidence = thread.attempt
      BY <1>12, <2>1, <3>1, WriteTyped DEF Finishes, Steps, Attempts
    <3>3. TypeOK' BY <1>12, <3>2, FreshTyped DEF IInv, TypeOK, Finishes, engine, history
    <3>4. RecordInv' /\ FailedHasNoAnswer' /\ CandidateIsRecorded'
      BY <1>12, <3>1, <3>2
      DEF IInv, RecordInv, FailedHasNoAnswer, CandidateIsRecorded, Finishes, Ready, Source,
          Attempts, history
    <3>5. ThreadInv' /\ PollInv' /\ NeverConflicts'
      BY <1>12, <3>2
      DEF IInv, ThreadInv, PollInv, NeverConflicts, Finishes, NoThread, Alive, Up, Ready,
          history
    <3> QED BY <1>12, <3>3, <3>4, <3>5, EngineKept DEF IInv, Finishes, engine
  <2>2. CASE last # "ready"
    <3>1. last \in Failures /\ last # "closed" /\ (last # "lane_error" => Ready = {})
      BY <1>12, <2>2 DEF IInv, TypeOK, ThreadInv, Finishes, Outcomes, Failures
    <3>2. /\ record' \in Records /\ record'.step = "failed" /\ record'.outcome = last
          /\ record'.evidence = 0
      BY <1>12, <2>2, <3>1, WriteTyped DEF Finishes, Steps
    <3>3. TypeOK' BY <1>12, <3>2, FreshTyped DEF IInv, TypeOK, Finishes, engine, history
    <3>4. RecordInv' /\ FailedHasNoAnswer' /\ CandidateIsRecorded'
      BY <1>12, <3>1, <3>2
      DEF IInv, RecordInv, FailedHasNoAnswer, CandidateIsRecorded, Finishes, Ready, Source,
          Attempts, history
    <3>5. ThreadInv' /\ PollInv' /\ NeverConflicts'
      BY <1>12, <3>2
      DEF IInv, ThreadInv, PollInv, NeverConflicts, Finishes, NoThread, Alive, Up, Ready,
          history
    <3> QED BY <1>12, <3>3, <3>4, <3>5, EngineKept DEF IInv, Finishes, engine
  <2> QED BY <2>1, <2>2
<1>13. ASSUME Expires PROVE IInv'
  <2>1. clock \in Clocks BY DEF IInv, TypeOK
  <2>2. clock' \in Clocks /\ clock'.expired /\ clock'.settled = clock.settled
    BY <1>13, <2>1, ClockTyped DEF Expires, Clocks
  <2>3. TypeOK' BY <1>13, <2>2 DEF IInv, TypeOK, Expires, disk, engine, history
  <2>4. ThreadInv'
    BY <1>13, <2>2 DEF IInv, ThreadInv, Expires, Alive, Ready, disk, history
  <2>5. PollInv' /\ NeverConflicts'
    BY <1>13, <2>2 DEF IInv, PollInv, NeverConflicts, Expires, Alive, Up, disk
  <2> QED
    BY <1>13, <2>3, <2>4, <2>5, RecordKept, EngineKept
    DEF IInv, Expires, disk, engine, history
<1>14. ASSUME RecordsExpiry PROVE IInv'
  <2>1. /\ record' \in Records
        /\ record'.step = "failed" /\ record'.outcome = "deadline" /\ record'.evidence = 0
    BY <1>14, WriteTyped DEF RecordsExpiry, Steps, Failures
  <2>2. record.step = "requested" /\ clock.expired /\ Ready = {} /\ candidate = "none"
    BY <1>14 DEF IInv, PollInv, ThreadInv, RecordInv, RecordsExpiry
  <2>3. TypeOK'
    BY <1>14, <2>1 DEF IInv, TypeOK, RecordsExpiry, OnlyRecord, engine, memory, history
  <2>4. RecordInv' /\ FailedHasNoAnswer' /\ CandidateIsRecorded'
    BY <1>14, <2>1, <2>2
    DEF IInv, RecordInv, FailedHasNoAnswer, CandidateIsRecorded, RecordsExpiry, OnlyRecord,
        Ready, Source, Attempts, Failures, history
  <2>5. ThreadInv' /\ PollInv' /\ NeverConflicts'
    BY <1>14, <2>1, <2>2
    DEF IInv, ThreadInv, PollInv, NeverConflicts, RecordsExpiry, OnlyRecord, Alive, Up,
        Ready, memory, history
  <2> QED BY <1>14, <2>3, <2>4, <2>5, EngineKept DEF IInv, RecordsExpiry, OnlyRecord, engine
<1>15. ASSUME Publishes PROVE IInv'
  <2>1. /\ record.step = "ready" /\ record.evidence \in Attempts
        /\ receipt[record.evidence] = "ready"
        /\ candidate \in {"none", Source[record.evidence]}
    BY <1>15 DEF IInv, RecordInv, Publishes
  <2>2. /\ candidate' = Source[record.evidence] /\ pc' = "mark"
        /\ UNCHANGED <<record, receipt, engine, memory, history>>
    BY <1>15, <2>1 DEF Publishes, Place
  <2>3. Source[record.evidence] \in {"first", "second"} BY <2>1 DEF Source, Attempts
  <2>4. TypeOK'
    BY <2>2, <2>3 DEF IInv, TypeOK, Sources, engine, memory, history
  <2>5. RecordInv' /\ FailedHasNoAnswer' /\ CandidateIsRecorded'
    BY <2>1, <2>2, <2>3
    DEF IInv, RecordInv, FailedHasNoAnswer, CandidateIsRecorded, Ready, Source, Attempts,
        history
  <2>6. PollInv' /\ NeverConflicts'
    BY <2>1, <2>2 DEF IInv, PollInv, NeverConflicts, Up, memory
  <2>7. EngineInv'
    BY <2>1, <2>2 DEF IInv, EngineInv, engine
  <2> QED BY <2>2, <2>4, <2>5, <2>6, <2>7, ThreadKept DEF IInv, memory, history
<1>16. ASSUME ClosedFirst PROVE IInv'
  <2>1. /\ record.step = "ready" /\ record.evidence \in Attempts /\ surface = "curio"
        /\ candidate \in {"none", Source[record.evidence]}
        /\ receipt[record.evidence] = "ready"
    BY <1>16 DEF IInv, RecordInv, ClosedFirst, Publishable
  <2>2. /\ record' \in Records /\ record'.step = "failed" /\ record'.outcome = "closed"
        /\ record'.evidence = record.evidence
    BY <1>16, <2>1, WriteTyped DEF ClosedFirst, Steps, Failures, Attempts
  <2>3. TypeOK'
    BY <1>16, <2>2 DEF IInv, TypeOK, ClosedFirst, OnlyRecord, engine, memory, history
  <2>4. RecordInv' /\ FailedHasNoAnswer' /\ CandidateIsRecorded'
    BY <1>16, <2>1, <2>2, LaneAssumption
    DEF IInv, RecordInv, FailedHasNoAnswer, CandidateIsRecorded, ClosedFirst, OnlyRecord,
        Ready, Source, Attempts, Failures, history
  <2>5. ThreadInv' /\ PollInv' /\ NeverConflicts'
    BY <1>16, <2>1, <2>2
    DEF IInv, ThreadInv, PollInv, NeverConflicts, ClosedFirst, OnlyRecord, Alive, Up, Ready,
        memory, history
  <2> QED BY <1>16, <2>3, <2>4, <2>5, EngineKept DEF IInv, ClosedFirst, OnlyRecord, engine
<1>17. ASSUME FallsBack PROVE IInv'
  <2>1. surface = "hound" /\ candidate \in {"none", "hand"}
        /\ (record.step = "failed" \/ (pc = "hand" /\ record.step = "no_model"))
    <3>1. CASE pc = "hand"
      <4>1. record.step = "no_model" /\ Ready = {} /\ surface = "hound"
        BY <3>1 DEF IInv, PollInv, RecordInv
      <4>2. candidate # Source[1] /\ candidate # Source[2]
        BY <4>1 DEF IInv, CandidateIsRecorded, Ready, Attempts
      <4> QED BY <3>1, <4>1, <4>2 DEF IInv, TypeOK, Sources, Source, Attempts
    <3>2. CASE pc = "poll" /\ record.step = "failed"
      BY <1>17, <3>2 DEF IInv, FallsBack, RecordInv
    <3> QED BY <1>17, <3>1, <3>2 DEF FallsBack
  <2>2. /\ candidate' = "hand" /\ (pc' = "mark" => record.step = "failed")
        /\ pc' \in {"mark", "poll"}
        /\ UNCHANGED <<record, receipt, engine, memory, history>>
    BY <1>17, <2>1 DEF FallsBack, Place
  <2>3. TypeOK' BY <2>2 DEF IInv, TypeOK, Sources, engine, memory, history
  <2>4. RecordInv' /\ FailedHasNoAnswer' /\ CandidateIsRecorded'
    BY <2>1, <2>2
    DEF IInv, RecordInv, FailedHasNoAnswer, CandidateIsRecorded, Ready, Source, Attempts,
        history
  <2>5. PollInv' /\ NeverConflicts'
    BY <2>1, <2>2 DEF IInv, PollInv, NeverConflicts, Up, memory
  <2>6. EngineInv' BY <2>1, <2>2 DEF IInv, EngineInv, engine
  <2> QED BY <2>2, <2>3, <2>4, <2>5, <2>6, ThreadKept DEF IInv, memory, history
<1>18. ASSUME Marks PROVE IInv'
  <2>1. CASE record.step = "ready"
    <3>1. /\ record.evidence \in Attempts /\ receipt[record.evidence] = "ready"
          /\ candidate = Source[record.evidence] /\ thread.at = "none"
      BY <1>18, <2>1 DEF IInv, RecordInv, PollInv, ThreadInv, Marks
    <3>2. /\ record' \in Records /\ record'.step = "published" /\ record'.outcome = "ready"
          /\ record'.evidence = record.evidence
      BY <1>18, <2>1, <3>1, WriteTyped DEF Marks, Steps, Attempts
    <3>3. TypeOK' BY <1>18, <3>2 DEF IInv, TypeOK, Marks, OnlyRecord, engine, memory, history
    <3>4. RecordInv' /\ FailedHasNoAnswer' /\ CandidateIsRecorded'
      BY <1>18, <2>1, <3>1, <3>2
      DEF IInv, RecordInv, FailedHasNoAnswer, CandidateIsRecorded, Marks, OnlyRecord, Ready,
          Source, Attempts, history
    <3>5. ThreadInv' /\ PollInv' /\ NeverConflicts'
      BY <1>18, <3>1, <3>2
      DEF IInv, ThreadInv, PollInv, NeverConflicts, Marks, OnlyRecord, Alive, Up, Ready,
          memory, history
    <3> QED BY <1>18, <3>3, <3>4, <3>5, EngineKept DEF IInv, Marks, OnlyRecord, engine
  <2>2. CASE record.step # "ready"
    <3>1. /\ record.step = "failed" /\ candidate = "hand" /\ surface = "hound"
          /\ record.outcome \in Failures
      BY <1>18, <2>2 DEF IInv, RecordInv, PollInv, Marks
    <3>2. /\ record' \in Records /\ record'.step = "fallback"
          /\ record'.outcome = record.outcome /\ record'.evidence = 0
      BY <1>18, <2>2, <3>1, WriteTyped DEF Marks, Steps
    <3>3. TypeOK' BY <1>18, <3>2 DEF IInv, TypeOK, Marks, OnlyRecord, engine, memory, history
    <3>4. RecordInv' /\ FailedHasNoAnswer' /\ CandidateIsRecorded'
      BY <1>18, <3>1, <3>2
      DEF IInv, RecordInv, FailedHasNoAnswer, CandidateIsRecorded, Marks, OnlyRecord, Ready,
          Source, Attempts, Failures, history
    <3>5. ThreadInv' /\ PollInv' /\ NeverConflicts'
      BY <1>18, <3>1, <3>2
      DEF IInv, ThreadInv, PollInv, NeverConflicts, Marks, OnlyRecord, Alive, Up, Ready,
          memory, history
    <3> QED BY <1>18, <3>3, <3>4, <3>5, EngineKept DEF IInv, Marks, OnlyRecord, engine
  <2> QED BY <2>1, <2>2
<1>19. ASSUME TimePasses PROVE IInv'
  <2>1. clock \in Clocks BY DEF IInv, TypeOK
  <2>2. /\ clock' \in Clocks /\ clock'.expired = clock.expired
        /\ clock'.settled = clock.settled
    BY <1>19, <2>1, ClockTyped DEF TimePasses, Clocks
  <2>3. TypeOK' BY <1>19, <2>2 DEF IInv, TypeOK, TimePasses, disk, engine, history
  <2>4. ThreadInv'
    BY <1>19, <2>2 DEF IInv, ThreadInv, TimePasses, Alive, Ready, disk, history
  <2>5. PollInv' /\ NeverConflicts'
    BY <1>19, <2>2 DEF IInv, PollInv, NeverConflicts, TimePasses, Alive, Up, disk, history, Ready
  <2> QED
    BY <1>19, <2>3, <2>4, <2>5, RecordKept, EngineKept
    DEF IInv, TimePasses, disk, engine, history
<1>20. ASSUME Loops PROVE IInv'
  <2>1. /\ thread' \in Threads /\ thread'.attempt = thread.attempt
        /\ thread'.at \in {"asking", "dead"}
        /\ (thread'.at = "asking" => thread.attempt \in Attempts)
    BY <1>20 DEF IInv, TypeOK, Loops, Threads, MayAsk
  <2>2. thread.at = "loop" /\ Ready = {} BY <1>20 DEF IInv, ThreadInv, Alive, Loops
  <2>3. TypeOK' BY <1>20, <2>1 DEF IInv, TypeOK, Loops, disk, engine, history
  <2>4. last # "ready" BY <1>20, <2>2 DEF IInv, ThreadInv, Alive
  <2>5. ThreadInv'
    BY <1>20, <2>1, <2>2, <2>4 DEF IInv, ThreadInv, Loops, Alive, Ready, disk, history
  <2>6. PollInv' /\ NeverConflicts'
    BY <1>20, <2>1, <2>2 DEF IInv, PollInv, NeverConflicts, Loops, Up, disk, history
  <2> QED
    BY <1>20, <2>3, <2>5, <2>6, RecordKept, EngineKept
    DEF IInv, Loops, disk, engine, history
<1>21. ASSUME Raises PROVE IInv'
  <2>1. /\ thread' \in Threads /\ thread'.at = "dead" /\ thread.at = "asking"
        /\ last' = "lane_error" /\ UNCHANGED <<disk, engine, pc, noted, backend, clock, history>>
    BY <1>21 DEF IInv, TypeOK, Raises, Threads
  <2>2. TypeOK' BY <2>1 DEF IInv, TypeOK, disk, engine, history
  <2>3. ThreadInv' BY <2>1 DEF IInv, ThreadInv, Alive, Ready, disk, history
  <2>4. PollInv' /\ NeverConflicts'
    BY <2>1 DEF IInv, PollInv, NeverConflicts, Up, Ready, disk, history
  <2> QED BY <2>1, <2>2, <2>3, <2>4, RecordKept, EngineKept DEF IInv, disk, engine, history
<1>22. ASSUME Gate PROVE IInv'
  <2>1. PICK outcome \in Outcomes, written \in BOOLEAN, reported \in BOOLEAN :
          LET said == IF Stands(outcome) THEN outcome ELSE "deadline"
              again == reported /\ said = "again"
          IN  /\ reported => written
              /\ receipt' = IF written THEN [receipt EXCEPT ![thread.attempt] = said] ELSE receipt
              /\ clock' = IF Stands(outcome) THEN [clock EXCEPT !.settled = @ \/ outcome = "ready"]
                          ELSE [clock EXCEPT !.expired = TRUE]
              /\ last' = IF reported THEN said ELSE "lane_error"
              /\ thread' = IF again THEN [at |-> "loop", attempt |-> thread.attempt + 1]
                           ELSE [thread EXCEPT !.at = "dead"]
    BY <1>22 DEF Gate
  <2> DEFINE k == thread.attempt
             said == IF Stands(outcome) THEN outcome ELSE "deadline"
  <2>2. /\ thread.at = "asking" /\ k \in Attempts /\ Ready = {} /\ ~clock.settled
        /\ requests = 1 /\ clock \in Clocks /\ thread \in Threads
        /\ UNCHANGED <<record, candidate, engine, pc, noted, backend, history>>
    BY <1>22 DEF IInv, TypeOK, ThreadInv, Alive, Gate
  <2>3. said \in Outcomes \cup {"deadline"} /\ (said = "ready" => ~clock.expired)
        /\ (said = "ready" => Stands(outcome) /\ outcome = "ready")
    BY DEF Stands, Outcomes
  <2>4. /\ thread' \in Threads /\ thread'.at \in {"loop", "dead"}
        /\ thread'.attempt \in {k, k + 1}
        /\ (thread'.at = "dead" => thread'.attempt = k)
        /\ (thread'.at = "loop" => said = "again" /\ reported)
    BY <2>1, <2>2 DEF Threads, Attempts
  <2>5. /\ clock' \in Clocks
        /\ clock'.settled => said = "ready"
        /\ clock'.expired => clock.expired \/ ~Stands(outcome)
        /\ clock.expired => clock'.expired
    <3>1. CASE Stands(outcome) BY <2>1, <2>2, <3>1 DEF Clocks
    <3>2. CASE ~Stands(outcome) BY <2>1, <2>2, <3>2 DEF Clocks
    <3> QED BY <3>1, <3>2
  <2>6. /\ last' = IF reported THEN said ELSE "lane_error"
        /\ (reported => written)
    BY <2>1
  <2>7. receipt' = IF written THEN [receipt EXCEPT ![k] = said] ELSE receipt
    BY <2>1
  <2>8. receipt \in [Attempts -> Outcomes \cup {"none", "deadline"}] BY DEF IInv, TypeOK
  <2> HIDE DEF k, said
  <2>9. /\ receipt' \in [Attempts -> Outcomes \cup {"none", "deadline"}]
        /\ Ready' = IF written /\ said = "ready" THEN {k} ELSE {}
        /\ written => receipt'[k] = said
    <3>1. CASE written BY <2>2, <2>3, <2>7, <2>8, <3>1 DEF Ready
    <3>2. CASE ~written BY <2>2, <2>7, <2>8, <3>2 DEF Ready
    <3> QED BY <3>1, <3>2
  <2>10. /\ record.step = "requested" \/ (record.step \in {"failed", "fallback"}
                                           /\ record.outcome = "deadline" /\ clock.expired)
         /\ said = "ready" => record.step = "requested"
    BY <2>2, <2>3 DEF IInv, ThreadInv
  <2>11. TypeOK'
    BY <2>2, <2>3, <2>4, <2>5, <2>6, <2>9 DEF IInv, TypeOK, engine, history
  <2>12. \A j \in Attempts : candidate # Source[j]
    BY <2>2 DEF IInv, CandidateIsRecorded, Ready
  <2>13. RecordInv' /\ FailedHasNoAnswer' /\ CandidateIsRecorded'
    <3>1. RecordInv'
      BY <2>2, <2>9, <2>10 DEF IInv, RecordInv, history
    <3>2. FailedHasNoAnswer' BY <2>2, <2>9, <2>10 DEF FailedHasNoAnswer
    <3>3. CandidateIsRecorded'
      BY <2>2, <2>12 DEF IInv, CandidateIsRecorded
    <3> QED BY <3>1, <3>2, <3>3
  <2>14. ThreadInv'
    <3>1. CASE said = "ready"
      <4>1. ~clock'.expired /\ thread'.at = "dead" /\ thread'.attempt = k
        BY <2>3, <2>4, <2>5, <3>1
      <4> QED BY <2>2, <2>6, <2>9, <2>10, <3>1, <4>1 DEF ThreadInv, Alive, history
    <3>2. CASE said # "ready"
      <4>1. Ready' = {} /\ ~clock'.settled /\ last' # "ready" BY <2>5, <2>6, <2>9, <3>2
      <4> QED BY <2>2, <2>4, <2>5, <2>10, <4>1 DEF ThreadInv, Alive, history
    <3> QED BY <3>1, <3>2
  <2>15. PollInv' /\ NeverConflicts'
    BY <2>2, <2>4, <2>5 DEF IInv, PollInv, NeverConflicts, Up
  <2> QED BY <2>2, <2>11, <2>13, <2>14, <2>15, EngineKept DEF IInv, engine
<1>23. CASE UNCHANGED vars
  <2>1. TypeOK' BY <1>23 DEF IInv, TypeOK, vars, disk, engine, memory, history
  <2> QED
    BY <1>23, <2>1, RecordKept, ThreadKept, PollKept, EngineKept
    DEF IInv, vars, disk, engine, memory, history
<1> QED
  BY <1>1, <1>2, <1>3, <1>4, <1>5, <1>6, <1>7, <1>8, <1>9, <1>10, <1>11, <1>12, <1>13, <1>14,
     <1>15, <1>16, <1>17, <1>18, <1>19, <1>20, <1>21, <1>22, <1>23 DEF Next, Poll

-----------------------------------------------------------------------------
(* The invariant, and the properties it carries *)

(* IInv holds in every state of the lane (chaos/lane.py). *)
THEOREM InductiveInvariant == Spec => []IInv
<1>1. Init => IInv BY InitHolds
<1>2. IInv /\ [Next]_vars => IInv' BY StepKeeps
<1> QED BY <1>1, <1>2, PTL DEF Spec

(* Every variable keeps its type, whatever stops the director. *)
THEOREM TypeCorrect == Spec => []TypeOK
<1>1. IInv => TypeOK BY DEF IInv
<1> QED BY <1>1, InductiveInvariant, PTL

(* _gate and _check_deadline: a request that was given up leaves no ready answer. *)
THEOREM LateAnswersAreFailures == Spec => []FailedHasNoAnswer
<1>1. IInv => FailedHasNoAnswer BY DEF IInv
<1> QED BY <1>1, InductiveInvariant, PTL

(* publish_source: what lies under the candidate's name is the recorded answer. *)
THEOREM CandidateIsTheAnswer == Spec => []CandidateIsRecorded
<1>1. IInv => CandidateIsRecorded BY DEF IInv
<1> QED BY <1>1, InductiveInvariant, PTL

(* publish_source: a restart only ever meets its own publication. *)
THEOREM NoConflict == Spec => []NeverConflicts
<1>1. IInv => NeverConflicts BY DEF IInv
<1> QED BY <1>1, InductiveInvariant, PTL

-----------------------------------------------------------------------------
(* ChaosLane implements ChaosAuthored *)

LEMMA InitRefines == Init => Authored!Init
BY DEF Init, Authored!Init, Content

(* Every step is one of the abstract specification, or is not seen there. *)
LEMMA StepRefines ==
  ASSUME IInv, [Next]_vars
  PROVE  [Authored!Next]_(Authored!vars)
<1>1. CASE StartsThread
  BY <1>1 DEF IInv, PollInv, StartsThread, disk, engine, history, Authored!Next, Authored!Ask
<1>2. CASE EngineReads
  <2>1. looked = "none" /\ candidate # "none" /\ looked' = candidate
        /\ UNCHANGED <<surface, requests, candidate>>
    BY <1>2 DEF IInv, EngineInv, EngineReads, disk, history
  <2>2. Content(candidate) # "none" /\ Content(looked) = "none" BY <2>1 DEF Content
  <2> QED BY <2>1, <2>2 DEF Authored!Next, Authored!Read, Content
<1>3. CASE Publishes
  <2>1. /\ candidate \in {"none", Source[record.evidence]}
        /\ candidate' = Source[record.evidence]
        /\ Source[record.evidence] \in {"first", "second"} /\ requests = 1
        /\ UNCHANGED <<surface, requests, looked>>
    <3>1. /\ record.evidence \in Attempts /\ receipt[record.evidence] = "ready"
          /\ candidate \in {"none", Source[record.evidence]}
      BY <1>3 DEF IInv, RecordInv, Publishes
    <3>2. requests = 1 BY <3>1 DEF IInv, RecordInv, Ready
    <3> QED BY <1>3, <3>1, <3>2 DEF Publishes, Place, Source, Attempts, engine, history
  <2>2. CASE candidate = candidate' BY <2>1, <2>2 DEF Authored!vars
  <2>3. CASE candidate = "none"
    <3>1. Content(candidate) = "none" /\ Content(candidate') = "model"
      BY <2>1, <2>3 DEF Content
    <3> QED BY <2>1, <3>1 DEF Authored!Next, Authored!Offer, Content
  <2> QED BY <2>1, <2>2, <2>3
<1>4. CASE FallsBack
  <2>1. /\ surface = "hound" /\ (candidate \in {"none", "hand"} \/ candidate' = candidate)
        /\ UNCHANGED <<surface, requests, looked>>
        /\ candidate' \in {"hand", candidate}
    BY <1>4 DEF FallsBack, Place, engine, history
  <2>2. CASE candidate = candidate' BY <2>1, <2>2 DEF Authored!vars
  <2>3. CASE candidate = "none" /\ candidate' = "hand" /\ surface = "hound"
    <3>1. Content(candidate) = "none" /\ Content(candidate') = "hand" BY <2>3 DEF Content
    <3> QED BY <2>1, <2>3, <3>1 DEF Authored!Next, Authored!Offer, Content
  <2> QED BY <2>1, <2>2, <2>3
<1>5. CASE UNCHANGED <<surface, requests, candidate, looked>> BY <1>5 DEF Authored!vars
<1>6. [Next]_vars => \/ StartsThread \/ EngineReads \/ Publishes \/ FallsBack
                     \/ UNCHANGED <<surface, requests, candidate, looked>>
  <2>1. Wanted \/ EngineCloses \/ Start \/ Stop \/ Note =>
          UNCHANGED <<surface, requests, candidate, looked>>
    BY DEF Wanted, EngineCloses, Start, Stop, Note, disk, engine, history
  <2>2. InFlight \/ NoModel \/ Begins \/ Asks \/ ClosedFirst \/ RecordsExpiry \/ Marks =>
          UNCHANGED <<surface, requests, candidate, looked>>
    BY DEF InFlight, NoModel, Begins, Asks, ClosedFirst, RecordsExpiry, Marks, OnlyRecord,
           engine, history
  <2>3. Finishes \/ Expires \/ TimePasses \/ Loops \/ Raises \/ Gate =>
          UNCHANGED <<surface, requests, candidate, looked>>
    BY DEF Finishes, Expires, TimePasses, Loops, Raises, Gate, disk, engine, history
  <2>4. UNCHANGED vars => UNCHANGED <<surface, requests, candidate, looked>>
    BY DEF vars, disk, engine, history
  <2> QED BY <2>1, <2>2, <2>3, <2>4 DEF Next, Poll
<1> QED BY <1>1, <1>2, <1>3, <1>4, <1>5, <1>6

(* A game asks once, offers at most one candidate, and the engine reads it once. *)
THEOREM ImplementsAuthored == Spec => AsksOnceOffersOnce
<1>1. Init => Authored!Init BY InitRefines
<1>2. IInv /\ [Next]_vars =>
        [Authored!Next]_(Authored!vars)
  BY StepRefines
<1> QED BY <1>1, <1>2, InductiveInvariant, PTL DEF Spec, AsksOnceOffersOnce, Authored!Spec
====
