# A TLA+ development of the Crawling Chaos

NyarlatHack is a NetHack variant in which a separate process, the *director*
(`chaos/*.py`), may send bounded requests to the game engine (`src/chaos_*.c`)
while it is played. The engine stays authoritative: it owns a saved account of
what may still be spent, reads requests only at its safe points, and records
everything in append-only files of a private run directory. What is hard about
it is not any single function but the combinations: four features spending one
account, two processes sharing three files, writes that fail between two steps,
saves taken from a signal handler, a model whose answer comes late or never.
This directory models those parts in TLA+, checks them with TLC on small
instances and proves the most important results with TLAPS for every value of
the constants.

Paths below are those of the repository: `src/chaos_io.c` is the engine's file,
`chaos/lane.py` the director's.

    tlc -workers 4 -config LedgerSpenders.cfg MCChaosLedger     # a run
    tlapm ChaosLedger_proofs.tla                                # the proofs

## 1. Inventory of the system

| Component | State it keeps | Operations | Talks to |
|---|---|---|---|
| **Whisper account** `chaos_protocol.c` | `u.chaos` in the save: spent, reserved, last id, event and safe counters, one effect per rule, cosmetic mask, pacing, next-use counters | budget, charge, commit, pacing level and credit, non-effect spend, expire, admit, rule | called by every spender; checked whole by restore |
| **Spenders** `chaos_io.c`, `chaos_curio.c`, `chaos_haunt.c`, `chaos_next_use_*.c` | each its own phase (`u.curio`, `u.haunt`, next-use counters) | try to admit at a safe point or a turn, deliver, end | stage a copy of the account and publish it by a rule of their own |
| **Mailbox and event log** `chaos_io.c` | `events.jsonl`, `whispers.jsonl`, whether a write has failed | `chaos_io_safe`, `event`, `append`, `ack` | reads `whisper.json`, which only the director renames into place |
| **Whisper director** `director.py`, `protocol.py` | what it read, the request it has out | read, ingest, pending, choose, submit | reads `events.jsonl`, renames `whisper.json` |
| **Observations and origins** `chaos_engine.c` (and `pline.c`) | the current action's root, fact, token; the origins of the current level | begin, arm, take, deliver, blocked, end, finish | rows of the event log; `next_use-schedule.jsonl` for the director |
| **Authoring lanes** `lane.py`, `curio_director.py`, `hound_director.py` | lane record, evidence directories, candidate file; a thread, a lock, a deadline | init/restore, poll, author, gate, publish, fall back | the model service (thread), the engine (a file it looks for) |
| **Next-use programs** `chaos_next_use*.c`, `next_use_*.py` | slots and opportunities, value journal, schedule, envelope | admit, run at the next use, deliver, journal, resume, reveal | observations (origins), the account, the Lua sandbox |
| **Curio and hound in play** `chaos_curio.c`, `chaos_haunt.c` | phase, source text, charges; the hound's steps | place, use, expire; step, end | sandbox, shadow trial, account |
| **Sandbox and shadow trial** `chaos_lua.c`, `chaos_shadow.c` | nothing that outlives a call; a forked child | run a program; try it in a fork with a deadline | curio, hound, next use |
| **Presentation** `chaos_presentation.c` | one outstanding request and its owner | begin, delivered, cancel | next-use runtime, the message window |
| **Launcher** `launcher.py` | the run's lock, child processes | start, fork the director, supervise, stop | everything, by files |
| **History, chronicle, reveal** `history*.py`, `episodes.py`, `chronicle.py`, `chaos_reveal*.c` | none: projections of the logs | read, choose, render | the logs |
| **Authors and services** `*_author.py`, `oauth.py`, `xai.py`, `model.py`, `curio_*.py` | ledgers of model calls, evidence files | compose, send with retry, validate, store | lanes |
| **Base game** `allmain.c`, `do.c`, `save.c`, ... | the roguelike | turns, levels, saves, deaths | calls the hooks above |

Which behaviours are hard, and what would make each component correct:

- **Account.** A record that no restore refuses; no point spent over the ceiling,
  over the level's cap or twice; credit only for a delivery; an effect that runs
  exactly its term; an id that acts once. The danger is in the staging: a handler
  copies the record, emits events (which advance the original), prints, and then
  publishes, one by assigning the whole record and others by copying the charge.
- **Mailbox and director.** Five separate steps for one whisper, each of which may
  fail or be the last before a crash; a save may be taken at any of them; after a
  restore the log is longer than the game's memory. An acknowledgement must stay a
  proof, an effect must not come twice, and a director must not believe in what a
  rollback took away, nor give up on a healthy game.
- **Observations.** Actions nest, and the message that turns into a *notice* is
  delivered by the window system after other code ran. A notice must belong to the
  action that armed it, and an origin must be backed by the rows it names.
- **Lanes.** A thread that may hang, race the deadline or answer in the middle of a
  crash. One request, one candidate, never changed; a late answer void; the hound
  still happens.
- **Next use.** A program acts once per action. Of a game's programs one runs at a
  time, each about a later use than the one before, and its journal is resumed, never
  repeated or rewritten, after a restore to whatever older state. **Presentation**: one owner. **Shadow trial**: a report
  is trusted only whole. **Launcher**: one writer.

`PROJECT.json` lists every component with what is modelled of it, and every hazard
at the line where it bites.

## 2. Plan

Order of writing; the most important behaviour first.

1. `ChaosProtocol`, `ChaosLedger`: the account and all its users. *Done, proved.*
2. `ChaosWhisper`: engine and whisper director over the files. *Done, proved.*
3. `ChaosObservation`: roots, notices, origins. *Done, proved.*
4. `ChaosAuthored`, `ChaosLane`: the authoring lanes and what they promise. *Done,
   checked, proved, refinement proved.*
5. `ChaosNextUse`: the runtime of one admitted program. *Done, proved.*
6. `ChaosAttempts`, `ChaosNextUseGame`: the programs of a whole game, with their
   journals, envelopes, receipts and the scheduling director, and what they promise.
   *Done, checked, proved, refinement proved.*
7. `ChaosHaunt`: the hound, its candidate, its trial in a forked child and its hunt.
   *Done, checked, proved.*
8. `ChaosPresentation` (one owner), `ChaosCurio` (placement, charges), `ChaosLauncher`
   (lock, fork, ready byte).
9. Abstract specifications: an *account* (a balance that only falls) implemented
   by `ChaosLedger`, and a *mailbox* (each request judged once) implemented by
   `ChaosWhisper`.
10. Theorems: every invariant, every action property and both refinements that the runs
   check are proved (section 5). What is left are the refinements of 9, and liveness,
   which is out of the prover's reach.

## 3. The modules

### ChaosProtocol: the account's operations

The record `struct chaos_state` and each function of `chaos_protocol.c` as an
operator on it: `Budget`, `Charge`, `CommitCharge`, `PacingLevel`, `PacingCredit`,
`SpendNonEffect`, `Expire`, `Admit`, `RuleApplies`, and `StateValid`, the predicate
restore applies to a save. The policy numbers (ceiling, step, caps, spacing) are
constants, constrained by `PolicyAssumption`; the table of mutations is the
generated one of `include/chaos_protocol.h`. Left out: the JSON parser, whose result
is a request or a rejection.

### ChaosLedger: one account, four spenders

The engine is one thread; its handlers interleave only where one calls the next, so
`phase` is the place inside `chaos_safe` (whisper, then curio, then next use) or
`chaos_observe` (then the haunt). One action per way a handler can end:
`WhisperSkipped`, `WhisperIdle`, `WhisperDropped`, `WhisperApplied`, `CurioWaits`,
`CurioAttempt`, `CurioPlaced`, `CurioUsed`, `CurioExpires`, `NextUseWaits`,
`NextUseRejected`, `NextUseAdmitted`, `ProgramDelivers`, `ProgramEnds`, `HauntWaits`,
`HauntRefused`, `HauntAdmitted`, `HoundStep`, `HoundEnds`; and the game around them:
`Tick`, `SanityChanges`, `Descend`, `GameSafePoint`, `Observe`. Whether a write or a
spawn succeeds is a choice, as is what the mailbox holds. `told` and `delivered` are
history. `MCChaosLedger` holds the request menus of its runs.

### ChaosWhisper: the mailbox between two processes

The engine's `pc` names the steps of `chaos_io_safe`: count the point and log it,
read and judge, journal, telegraph, show, commit, acknowledge. `events`, `journal`
and `whisper` are the files, `saved` the save file. Every append may fail
(`io.failed` then silences the process), a crash may tear the last line, `HangUp`
saves from the signal handler at any `pc`, `Restore` begins a new process from the
last save with the files as they are. The director polls: it reads, stops if what it
read is not to be trusted (`Mistrusts`), waits, chooses, and only later renames
(`Submit`), so that the engine can move between the choice and the rename. A request
is its id and its index; whether the account can afford it is a choice here.

### ChaosObservation: roots, notices and origins

`obs` is `chaos_engine.c`'s static record of the action in progress; `callers` is the
stack of actions, because a message may start another action and an older action's
message may be rendered, or suppressed, while a newer one runs. `rows` is the part of
the event log that concerns observations, `origin` and `schedule` the published
origins. Appends may fail or be refused at the last event number.

### ChaosNextUse: one program, from its installation to its end

`rt` is `struct runtime_state` without its digests, roots and hashes; each function of
`chaos_next_use_runtime.c` is a function on it, with its early returns (`Boundary`,
`Expire`, `EndW`, `OnAction`, `Capture`, `FountainResult`, `Witness`, ...), and
`SaveStatus`, `RestoreAccepts` and `Import` are what `dosave0` and `restgamestate` ask of
it. An action is what the game does between two of them: `Observe` (the boundary at the
top of `moveloop`), `Tick`, `CompanionMoves` and `Finalize` (the armed companion's move in
`dog_move`), `CarriedOff` (a monster moves the hero to another level), `MonstersDone`,
then one command: `Whistle` with `WhistleBinds` or `WhistleRings`, `Drink` with
`DrinkEnds`, `OtherCommand`, `Save`; and `Restore`. `MarkIdentityUnsafe` is `next_ident`.
What the Lua callback answers is a choice (`Intents`). An admitted program is any that
`schema_envelope` accepts (`Declarable`); all times count from its admission. Rows are
counted, not kept: `next_seq` is the number of the next one. Left out: the eviction of an
origin and a changed run token, because every caller in the game passes the stored
values back; the captured replay records; the program's four-valued state.

### ChaosNextUseGame and ChaosAttempts: the programs of one game

`ChaosAttempts` is the promise: at most `Cap` attempts, decided one after the other, each
refused, running, closed or lost (its record is not whole); none follows a running or a
lost one; none is undone except by going back to what was saved. `ChaosNextUseGame` is how
five pieces of code in two processes keep it:

- `game` is what a save carries: the counters of `u.chaos` that concern programs, the
  program that lives or has ended (`live_runtime`), and the closed ones
  (`program_history`). Of a program it keeps whether it lives, its journal's state, the
  rows it was acknowledged (`tip`, which stands for size, digest and cursor) and the
  origin it was bound to. `saved` is the save file or the latest checkpoint, `proc` what
  dies with the process: the transport's failure (`mute`), the schedule's, a failed resume,
  the ready origins (`next_use_origin`) and the engine's evidence (`origin_evidence`).
- `envelope`, `journal` and `told` are the files. `told` is what the director reads: the
  event log, the numbers published as origins, the lifecycle rows. A line whose number is
  not its place (a return to an older save, or a write that failed but landed) spoils the
  log for every reader, and nothing is read of it any more.
- `UseEnds` and `UseBreaksOff` are a use that was noticed (`ChaosObservation` has its rows
  one by one); `SafePoint` is `chaos_safe` with the whole of `chaos_next_use_on_safe`:
  `Evidence`, `Open`, `Due`, `Settled`, `OriginHolds` (the origin of the envelope is the
  engine's own, or is rebound to a later one), `Installed`, `JournalBegin`, or a refusal
  and its `Receipt`, or a hangup at the telegraph. `Step` is one captured transition and
  its row, or its failure; `Checkpoint`, `Save`, `Crash` and `Restore` are the game's,
  `Resumes` the verification of every journal the restored game knows.
- `Poll`, `Publish` and `GivesUp` are the director: it takes the lifecycle in order
  (`Readable`), looks for an origin of the latest session that is later than the last
  termination (`Candidates`), and publishes one envelope for the next ordinal, between
  which steps the engine goes on. The second reading before it publishes belongs to
  `Poll`, because a line that came in between makes it fail.

Here the engine and the director interact with the fault model of the files: any write
may fail with nothing, a part or all of it done.

### ChaosLane and ChaosAuthored: asking a model, once

`ChaosAuthored` is the promise: at most one request, at most one candidate which
never changes, at most one look by the engine. `ChaosLane` is `lane.py` with the two
surfaces that subclass it (`surface` is `"curio"` or `"hound"`): the durable record
(`record`), the receipts of the two evidence directories, the candidate file, the
polling director (`pc` tells which of its durable writes comes next), the thread, and
the lane's clock. `Stop` is a crash at any point and `Start` another director, which
reads back the record. `Gate` and `Expires` are the two critical sections of the
lane's lock; the thread's reading of `_expired` outside it (`Loops`) is a step of its
own. A gate may fail to write its receipt, and an author may raise after it wrote.

### ChaosHaunt: the hound, tried before it comes

`game` is what a save carries of the hound (`u.haunt`, `u.chaos.seq`, the debit and the
turn), `proc` what dies with the process: where the engine is, whether a write has failed
(`mute`), the window in which an empty look was made (`empty_turn`, `empty_seq`) and
`budget_logged`. `candidate` and `due` are `haunting.lua` and `haunting-due`, `used` and
`receipt` the evidence. `chaos_haunt_tick` is `TickBegins` and then one of its ends:
`TickPasses`, `BudgetRefuses`, `FindsNothing`, `RejectsSource`, `NoEvidence`, `CannotTry`,
or `Tries`, which forks. From then on there are two processes: the child (`ChildSetsUp`,
`ChildReports`, `ChildExits`, `ChildDies`, the last at any point, by its alarm, its limits
or the parent's `SIGKILL`) and the parent (`ParentPolls`, which reads a whole report or
kills, then, when the child is gone, `ShadowFails`, `NoReceipt`, `Rejects` or `PreAdmits`,
and `Spawns` behind the message). `Passes`, `Elsewhere`, `HoundDies`, `Checkpoint`,
`Hangup`, `Crash`, `Restore` and `Publish` are the game, its saves and the lane. A handler
is a function on the engine's part of the state (`Now`, `Becomes`), because each event in
it may be counted, lost, or land in the log although its write failed (`Said`). `look` and
`log` are history: the latest look and whether it was the first in its window, and what
the log tells a replay. What the trial computes is a choice of its report; an orphaned
child is forgotten, since it has nothing left to write to.

## 4. What the runs check

| Run | Module, configuration | What it asks |
|---|---|---|
| `ledger_spenders` | `MCChaosLedger`, `LedgerSpenders.cfg` | All four spenders and three credits over three levels of a paced game: `LevelAllowance`, `CreditIsDelivery`, `NoOverdraftNoRefund` |
| `ledger_whispers` | `MCChaosLedger`, `LedgerWhispers.cfg` | Two rules and two messages admitted, dropped, expiring and admitted again, paced and not, with turns beyond the largest a message may carry: `SaveIsAccepted`, `CosmeticsArePaced`, `EffectRunsItsTerm`, `FreshIdPerEffect` |
| `ledger_three_effects` | `MCChaosLedger`, `LedgerThreeEffects.cfg` | *Violated*: the documented limit of two active effects (section 7) |
| `whisper_lossy` | `ChaosWhisper`, `WhisperLossy.cfg` | Failing and torn writes, crashes, hangups, one restore: `TypeOK`, `AckIsProof`, `AppliedOnceOnTime`, `EventsNumbered`, `BelievedIsInstalled` |
| `whisper_healthy` | `ChaosWhisper`, `WhisperHealthy.cfg` | A healthy game with two directors in turn, a refused or late request consuming its id: `CleanRunsAreTrusted`, `NeverOverwritesUnanswered`; under fairness, a request published in time is answered: `PublishedIsAnswered` |
| `observations` | `ChaosObservation`, `Observations.cfg` | Fountain, door and whistle together and inside one another, both channels, failing writes, a turn passing: `TypeOK`, `OriginsAreWitnessed`, `RootsAreTold`, `NoticeIsOwn` |
| `next_use_runtime` | `MCChaosNextUse`, `NextUseRuntime.cfg` | Every kind of program over two levels, with saves and hangups: `TypeOK`, `AtRestSavable`, `SeenSaveRestores`, `GivesWhatWasDeclared`, `WitnessInWindow`, `TerminatedIsFinal`; under fairness `ProgramEnds` |
| `next_use_own_save` | `MCChaosNextUse`, `NextUseOwnSave.cfg` | *Violated*: no save the game wrote is refused (section 7) |
| `next_use_game` | `MCChaosNextUseGame`, `NextUseGame.cfg` | Two programs of a game, failing writes, a save or checkpoint, crashes and restores to it: `JournalsAreHistories`, `OriginsInOrder`, `LifecycleIsReadable`, and the refinement `ProgramsInTurn` |
| `haunt` | `MCChaosHaunt`, `Haunt.cfg` | The hound over two turns and two processes, with a candidate that is there, comes later or is bound to a window, and failing writes: `TypeOK`, `HoundWasTried`, `WindowNamesTheLook`; under fairness `TrialReturns` |
| `lanes` | `ChaosLane`, `Lanes.cfg` | Three directors on either lane: `FailedHasNoAnswer`, `CandidateIsRecorded`, `NeverConflicts`, and the refinement `AsksOnceOffersOnce`; under fairness, with a thread that may hang: `RequestSettles`, `HoundStillHappens` |
| `lane_closed` | `ChaosLane`, `LaneClosed.cfg` | *Violated*: what "closed before publish" is said to mean (section 7) |

Where a type invariant is proved for all constants and a run's other properties are
deeper (`ledger_spenders`, `next_use_game`, `lanes`), the run leaves it to the proof.

Every property of a passing run is paired in `PROJECT.json` with a plausible bug of
the modelled code (an operator whose comment begins "Wrong:") under which TLC finds
that property violated: a deepest level that is reset on a revisit, a judgement that
ignores the index, an origin that forgets which root it came from, a gate that lets a
late ready answer stand.

### Bounds, and why they suffice

- *Ledger.* The policy numbers are the game's, except the cosmetic spacing (2 turns
  instead of 50, so that a game of four turns holds allowed and forbidden repeats) and
  the counters' maximum (2 or 3, so that it is reached). `MaxReached` 3 lets a descent
  reset the allowance twice, which is what `LevelAllowance` needs to go wrong; the run
  of whispers stays on one level, where `MaxId` 3 gives each rule an id, or one of them
  two, and terms of two turns within `MaxTurn` 4 let an effect expire while another runs
  and be admitted again; a turn passing with an expired effect still in the record is
  there too, so that `EffectRunsItsTerm` sees both an effect felt a turn too long and
  one never cleared. One request in the run with all spenders is enough, since the other
  spenders are what interferes with it.
- *Whisper.* Two ids, two or three safe points and two engine processes: one request
  to be replayed, late or early, and another to be confused with it; a restore. The
  lossy run reaches the last event number. In the healthy run `MaxSeq` 12 is more than
  the events its three safe points can produce, so no write is refused. `MaxDirectors`
  2 is a director that finds its predecessor's request.
- *Observation.* Depth 2 is one action inside another, the only relation the code
  saves; `MaxSeq` 6 fits two whole roots and one refusal. `Explored` names the facts:
  one of each kind of family, blocking, exclusive and plain. A turn passes once
  (`MaxMoves`), at a time when a root has been written, and the boundary events are
  explored in the same state.
- *Next use.* The window is the second of two moves (5 to 10 in the game), a delay one
  move, a lifetime four and the callbacks of a broad program three, so that within
  `MaxTime` 4 a window can be opened, witnessed, closed and opened again, and the bound
  on callbacks, the declared effects and the program's end can each come first.
  Deadlines 2 and 9 are before and after that end. Two levels allow leaving and coming
  back. `PrivateMax` is 14: two rows of admission, three for each callback, one for
  the witness of each effect, one termination, which is the most a program of these
  bounds can write, and is reached. By the same count a program of the game writes at
  most 29 rows (eight callbacks), within its carrier of 40. That the carrier has this
  room is assumed of `PrivateMax` (`NextUseAssumption`, from
  `src/src/chaos_next_use_runtime.c:19-22`, which counts 35 and declares 40);
  `AtRestSavable` is proved from it.
- *Programs of a game.* Two programs (`Cap`; three in the game) are one and its
  successor, and two safe points decide both; the cap itself is not met, the
  director of the model stops at it. `MaxSeq` 6 event numbers are a session, a use, a safe
  point, a use, a safe point and one more, so that a second program may follow a restore
  or a torn log. At the last number no line is written, and a return to an older save
  would go unseen: the bound is an end of the exploration and not the code's
  `CHAOS_MAX_COUNTER`. One save (`MaxSaves`), restored any number of times; two saves
  with five numbers pass as well, as do two transitions for a journal (`MaxRecords`). At
  the limit of rows the writer fails, as in the code at 4096. Uses are explored while
  the game may still get a program, and an origin is broken off only where there is one.
  The families are symmetric.
- *Hound.* Two turns and three event numbers give six windows, of which a look can be in
  four: in the same one twice, in another of the same turn, in one of the next turn. Two
  processes are one restore, from a checkpoint, a hangup at any place where the engine
  waits, or a save that a crash goes back to. The bindings are a window of either turn. A
  hunt lasts one turn of the two, and can end by time, by death or by a change of level.
- *Lane.* Three directors allow two crashes, of which the second may hit the recovery
  from the first. The clock is a single flag, whether the deadline has passed: the code
  compares it with nothing else. Its invariants are proved for any number of
  directors.

Deadlock checking is off where the system really stops: the hero dies, the last
allowed process has ended, the lane is done, the last event number is written. It is on for the ledger, where the game
goes on.

### Fairness

`whisper_healthy` (its `FairSpec`) assumes the process runs its handler to the end
(`WF(Start \/ EngineStep)`: one thread, no waiting), and that safe points go on being
reached (`WF(SafePoint)`). The second is an assumption about the player: nothing in
the code forces one. It is why the property excepts a game that stops. No fairness is
given to the director.

`next_use_runtime` (its `FairSpec`) assumes that the main loop goes round (strong fairness
of `Observe` and `Tick`, because a player may save and come back between any two steps;
weak fairness of the rest of a turn), that an action in flight returns, and that the
player comes back to a saved game. A program needs no use by the player to end:
`Whistle`, `Drink` and `OtherCommand` share one assumption, that some command is given.

`haunt` (its `FairSpec`) assumes that the parent goes on from a wait that has an end (`poll`
with its timeout, `waitpid` once the child is gone), and that a child that was killed, or
has set its alarm and limits, dies if it does not leave by itself (`Doomed`): both are the
kernel's. Nothing is assumed of a child before its alarm is set, so a parent that only
polls (`PollsOnly`) waits for ever.

`lanes` (its `FairSpec`) assumes `WF(Poll)`: `_offline_loop` (`chaos/launcher.py:713-786`)
goes round, sleeping `args.poll`, as long as `lanes_active()`, which both lanes are
while a request is out; and `WF(TimePasses)`: the monotonic clock reaches the
deadline. Nothing is assumed of the thread, of the engine or of a restart, and the
properties except a director that is down. With a wait for the thread instead of the
clock (`ExpiresIfTold`) `RequestSettles` fails.

## 5. What is proved

Every invariant and every action property that a passing run checks, and both
refinements, are theorems of the specification, for every value of the constants that
its assumption admits. The bounds of section 4 (numbers of events, saves, processes,
turns) are constants too, so no theorem depends on how far a run explores. The list is
in `PROJECT.json` under "theorems".

The proof modules follow the same argument: a strengthening `IInv` that implies the
properties; `Init => IInv`; `IInv` preserved by each action, one step per action, in a
lemma; and a last temporal step. An action property is proved of each action from `IInv`.
Where a second property needs more than `IInv`, it has an invariant of its own, proved
beside it (`CleanOK`, `TaleOK`, `NamedInv`, `LifeInv`).

**`ChaosLedger_proofs`** (from `PolicyAssumption` and `ExplorationAssumption`).
`SaveIsAccepted` is not inductive by itself: whether an admission leaves a valid
record depends on what the level and the ceiling still allow. `IInv` says the record
is *sound*, that is typed, valid and within its allowance, that its last cosmetic turn
is not in the future and that what is credited is what was delivered. The account is
only changed by the operators of `ChaosProtocol`, so there are two layers: each
operator keeps a record sound (with the arithmetic of integer division and of the
levels' caps), and each action applies operators to the current record. Results:
`TypeCorrect`, `SaveAccepted`, `AllowanceKept`, `CreditEarned`, for every policy,
menu, bound and length of game.

The action properties have the same two layers. What may be said of a step is a relation
between a record and the next one (`Honest`: a debit fits the capacity it is made
against and none is given back, an effect is installed only by the request that asks for
it, for the duration asked, and changed only when its turn has come, a fresh effect
takes a fresh id), each operator is in it, and it composes (`HonestTwice`), because one
handler applies several: `chaos_admit` expires before it installs. Results:
`NothingIsRefunded`, `EffectsRunTheirTerm`, `IdsAreFresh`. The second has two halves.
What the hero feels is what `chaos_rule` says, so an effect is felt from its admission
for exactly its duration (`TermStep`: the clock moves by one, so the felt effect ends at
its turn and not past it). What the record holds may outlast that while nobody looks: it
is cleared by `chaos_expire`, which every counted safe point and every `chaos_observe`
runs (`ExpireClears`, `ClearStep`); a safe point that finds the transport closed is not
counted, clears nothing, and leaves the record to the next one that does.
`MessagesArePaced` is an invariant of the whole tale, which the saved mask and the saved
last turn alone do not give: `TaleOK` ties that turn to every message told before.

**`ChaosWhisper_proofs`** (from `WhisperAssumption`). That an accepted line proves its
whisper depends on what the handler holds between its five steps, and that a director
does not believe what a rollback took away depends on how the numbers of the restored
game lie to the log, which nothing says of a log by itself. `IInv` joins: `SessionOK`
(whose lines there are), `StepOK` (what is in hand at each step is journalled, announced,
installed), `GamesOK` (the game, its staged copy and its save are each in order),
`NumberOK` (a running process goes on from the last line; once the last number is used
nothing can be written any more), and `CoversOK`: a log that a director would trust, and
that no later number follows, tells of no effect a game does not have, of the running
*and* of the saved game. A rolled back game writes a number that is in the log already, so
its first line is what makes the log one that is not trusted. Results: `TypeCorrect`, `AcknowledgedIsProved`,
`AppliedOnTime`, `LinesAreNumbered`, `BelievedIsTrue`, and the action property
`UnansweredIsKept`, for any number of processes, directors, requests and safe points.

`CleanRunIsTrusted` has an invariant of its own, `CleanOK`, for the runs in which nothing
has failed, the process and the director have not come back, and nothing was published
late: the log rises and its answers agree (`CleanLog`), what is in hand is the mailbox's
request (`CleanHand`), and a request without an answer is still ahead of the game, in such
a way that the log cannot look as if it had been missed (`CleanMail` with `Waiting` and
`Due`). It is the one place where the two processes are reasoned about together: `Due`
is broken neither by the engine between two readings nor by the director between its
choice and its rename, unless that rename is late.

**`ChaosObservation_proofs`** (from `ObservationAssumption`). What the properties say is
about rows that are written; the danger is in the record the engine still holds while
another action runs. `IInv` ties the one to the other: a standing root is a started row
that nothing has ended, and that no row names unless its notice is in (`RootStands`); what
is armed is a fact of its family (`ArmedFits`); a root of this turn is that of the action
that runs (`TopHolds`); tokens are of the action's own root (`TokensAreOwn`); a pending
origin has its notice in the log, or cannot be published (`PendingIsNoticed`). Results:
`TypeCorrect`, `EveryRootIsTold`, `EveryOriginIsWitnessed`, and the action property
`NoticesAreOwn`, for any depth of actions inside one another. `Noticed` has a third
alternative, the last event number, which is the disagreement of section 7.

**`ChaosNextUse_proofs`** (from `NextUseAssumption`). `chaos_next_use_snapshot_validate`
asks of a save a dozen relations between slots, window, callbacks and rows, and none
holds in the middle of a use. A record is therefore `Sound` with a *busy* family, the one
in flight: what the declaration fixes (`KindOK`), the window and its companion
(`WindowOK`), the callbacks (`CallsOK`), and the rows that a program of either kind can
still write (`RowsOK`), which is what bounds the carrier. There are three layers: each
ending of the code (`EndW`, `Expire`, a termination) keeps a record sound and only ends
it; each handler is built of endings; each action applies a handler and adds to the
tallies `asked` and `felt` (`Tally`). `PlaceOK` says what the main loop's place adds: in
particular that a manifestation is always inside its window. Results: `TypeCorrect`,
`AtRestItSaves`, `SeenSavesRestore`, `GivesNoMore`, and the action properties
`WitnessOnTime` and `TerminatedStays`, for every program, clock and carrier.

**`ChaosLane_proofs`** (from `LaneAssumption`). None of the lane's properties is
inductive either: that a restart never conflicts depends on the record naming the
answer whose source lies there, which depends on what the crashed director had
written, which depends on where in its poll it was. `IInv` joins four parts:
`RecordInv` (what the durable record promises of the other files and of the requests
made), `PollInv` (where inside a poll the director can be, and with what),
`ThreadInv` (what a live thread may yet write: while it lives there is no ready
answer, and it outlives its request only when the deadline was recorded), `EngineInv`
(what was read is still there). Results: `TypeCorrect`, `LateAnswersAreFailures`,
`CandidateIsTheAnswer`, `NoConflict`, and `ImplementsAuthored`, that every behaviour of
the lane is one of `ChaosAuthored` under the mapping that forgets which of the two
answers was published: `StartsThread` is the abstract `Ask`, `Publishes` and
`FallsBack` are `Offer` (or a stutter, when the file is there already), `EngineReads`
is `Read`, and every other step stutters.

**`ChaosNextUseGame_proofs`** (from `NextUseGameAssumption`). That a restore of an older
game takes up a journal that is longer than its save, or rightly refuses it, depends on
what the file holds against what *both* the played and the saved game were acknowledged.
`IInv` therefore joins, to the types: `GameOK` of the game and of the saved game (the
attempts before the last are refused or closed, their origins rise, and the end of the
last is a fence after all of them); `FilesOK` (each file is a history, both games hold a
prefix of it, and an open journal of a running process is exactly the rows acknowledged);
and `KnownOK` (the process and the director know only origins that were logged). A `Crash`
makes the saved game the game, which is why everything is said of both. `SafePoint` is
proved through its parts: an attempt settled with its receipt, an installation, the
retirement of the program before. Results: `TypeCorrect`, `JournalsKept`,
`OriginsOrdered`, and `ImplementsAttempts`, that every behaviour is one of `ChaosAttempts`
when a game is mapped to the fates of its attempts: a safe point that settles an attempt
is the abstract `Decide`, a journal's last row or its failure `Finish`, a restore whose
journal does not verify `Disown`, a save or checkpoint `Keep`, a crash `GoBack`, and every
other step stutters. TLC shows these for two programs; the theorems hold for any number of
programs, rows, events and restores.

**`ChaosLifecycle_proofs`** (on the invariant above). A game that was gone back to decides
an attempt again, or ends a program again, whose receipt is in the lifecycle file already;
what keeps it from being told twice is that such a game has first to write a line of the
event log out of its place, after which nothing is read any more. `LifeInv` makes this an
invariant: every save is of an earlier event number, and of an earlier decision unless the
number is the same (`Older`); and as long as nothing is spoilt (`TalesOK`), a game whose
number is the log's knows of every attempt that was told and of every journal, receipts
are of attempts whose journal is closed or was never made (`Over`), no later than what
comes next (`Fenced`), and the director never writes an envelope before the last receipt.
That a torn line is no line yet is why a game may be behind the log only when it is mute.
Result: `LifecycleStaysReadable`.

**`ChaosHaunt_proofs`** (from `HauntAssumption`). That a hound was tried, and only once, is
not inductive: a save may be taken and gone back to while the trial runs, and `checked` is
part of the save, so it does not bound the trials. What does is the evidence file, which
outlives every process: `OneTrial` says that there is no trial without it; `Pending`, that
while the engine waits it is there and nothing has been received yet; `Announced` and
`Grounded`, of the played and of the saved game, that what is said of a hound rests on a
child that is gone, clean, in its sandbox, with its report, receipt and event. Each handler
is taken piece by piece: an event, a look, a flag keeps what matters (`Keeps`, `Milder`).
Results: `TypeCorrect` and `TriedFirst` (`HoundWasTried`), for any number of turns, events,
processes and bindings.

`FirstEventNamesTheLook` (`WindowNamesTheLook`) needs an invariant about looks that no
event has named yet (`NamedInv`): no look is ahead of the log (`NotAhead`); a look in the
present window was an empty one that the process remembers, or it ended the search, or
nothing can be said any more (`Once`); and while the trial goes on the present window is
still that of the look (`Sighted`), since neither the turn nor the number moves before the
first event is said. A restore forgets the empty look, but its first line moves the window,
or it can write none; and a play that went back to another window is not one that can be
recorded (`straight`).

## 6. What is only model-checked

- Liveness under fairness (`PublishedIsAnswered`, `ProgramEnds`, `RequestSettles`,
  `HoundStillHappens`, `TrialReturns`): the proof system has no rules for fairness and
  `ENABLED` here.
- The three disagreements of section 7, which are counterexamples.
- What a recursive definition computes for all inputs would be out of reach; no
  module declares one.

## 7. Where the code and its documents disagree

- **Two active effects.** `docs/chaos-protocol.md` says at most two effects are active
  at once; `chaos_admit` only refuses a second effect of the same kind, and with three
  kinds since the door was added, three can be active (`ledger_three_effects`).
- **Closed before publish.** A comment in `CurioLane._publish` says that then nothing
  is published and the player sees nothing. If a director stopped between renaming
  `curio.lua` into place and recording it, the engine may admit that curio, and the next
  director takes the engine's phase for another admission and records
  `closed_before_publish` of a curio the player holds (`lane_closed`). Nothing is
  published twice and nothing conflicts; the record is wrong.
- **The level a saved program is bound to.** A test says that a live program saved on
  another level than its own, or an open window of another level, is "not reachable in
  play: foreign state" (`tests/chaos/next_use_broad.c:318`, and 332), and
  `restore_level_bound_ok` refuses such a save, with it the whole game. The boundary that
  would end the program runs only at the top of `moveloop`; a monster that teleports the
  hero between levels acts later in the same iteration, and the player's next command
  may be the save (`next_use_own_save`). A save taken after the next boundary is always
  accepted (`SeenSaveRestores`).
- Not a run of its own, but stated in `OriginsAreWitnessed`: at the very last event
  number the end of a root is refused without failing the transport, and
  `chaos_observation_end` still publishes the origin, naming a row that is not there.

## 8. What is not modelled, and why

- Text: JSON parsing and canonical form, quoting, prompts, envelopes, digests,
  rendering (`chaos_next_use.c`, `protocol.py`'s parsers, `curio*.py`, `chronicle.py`,
  `chaos_reveal*.c`). They are functions of bytes without state; a request here is
  already a record.
- The network: model services, retries, their ledgers (`oauth.py`, `xai.py`,
  `model.py`). The lane sees an answer, a refusal, an exception or nothing.
- The map and the dice: where a hound may stand, what a program computes. They are
  choices.
- Tampering: files in the run directory written by anyone but the engine and the
  director, evidence that fails its digests. The directory is private by construction.
- Loss of data the operating system had accepted and synchronised. A line whose
  `fsync` failed may be there or not.
- A game restored from a save *older* than what a lane or an engine read: a lane's
  engine reads a candidate once in `ChaosLane`, as the saved phase says.
- The tearing of a structure assignment by a signal in the middle of it: a hangup
  falls between two steps, never inside one.
- The base game, its other ports and its data.
- Of the programs of a game: the text of a refusal (any due envelope may be refused),
  the director's preference for a family that was felt (any ready origin may be chosen
  from the second program on), ids, the size limit of the lifecycle file, an envelope that
  does not parse, a directory that another game used or that is replaced, and a hangup
  inside the settlement or the installation at another place than the telegraph. A
  director that has failed, abstained or been killed is one that does not move, until it
  is started again. A torn line is none, until the next line makes it unreadable.
- Of the hound: the trial's criteria and its geometry (its report is a choice), the
  system calls its sandbox refuses, a candidate that is there but cannot be opened (the
  tick ends and a later one looks again), a candidate that is replaced or taken away
  again, and a hangup in the middle of a tick at another place than the child's wait or
  the message.
- Until the plan reaches them: presentation; placement and charges of the curio; the
  launcher's lock.
