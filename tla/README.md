# DialogG2 in TLA+

DialogG2 is the controller of an emergency-lighting cabinet: an engine process
(`dialog_engine`) reads dry contacts, switches relays over Modbus RTU, meters
the lines, runs self-tests by schedule or on command, and publishes a state; a
Qt panel, a web page and a Modbus TCP server show it and send commands.

This directory holds TLA+ models of the engine, the TLC configurations that
check them on small instances, and proofs for TLAPS. Paths such as
`src/engine/TestController.cpp` are relative to the repository's root; the
exact lines behind each definition are in `PROJECT.json` under `map`.

## 1. The system

Everything in the engine runs on one thread, in a Qt event loop. A handler
(timer, IPC message, Modbus TCP write, serial reply) runs to its end before the
next begins. What is hard is therefore the *order* of handlers, state that one
handler leaves for another, and the devices, files and clock outside.

| Component | State | Operations | Talks to | Correct when |
|---|---|---|---|---|
| `TestController` | running test, journal | `evaluate` (per tick), `recoverInterruptedDurationTest` | called by the tick | one test at a time, one record each, more urgent wins, a completion is earned |
| `EngineRuntime` tick | command flags, last snapshot, relay bytes, files' bookkeeping | `tick` every 500 ms | all of the engine | mode, test, lines and coils agree; commands are used once |
| `EngineRuntime` commands | the same flags, the lines, the schedule, the clock | `processIpcMessage`, the web routes, TCP signals | panel, web page, TCP master | no command acts later than its tick, no edit leaves a dangling line |
| `EngineRuntime` persistence | journal in memory, marker bookkeeping; two files | `persistTestResults`, `writeRuntimeTiming`, `start` | disk | a duration test cut by power loss is recorded once |
| `StateEngine` | none | `resolveMode`, `faultLampRequired` | tick | one mode, by priority |
| `ManualEmergencyController` | active | `evaluate` | tick | start latches, stop wins |
| `LineManager` | configured lines, their last results; a file | `evaluate`, add, update, remove, `applyTestResults`, load, save | tick, commands, disk | output follows mode, input, test; unique points; no failure is lost |
| `ModbusController`, `ModbusBusMonitor` | request on the wire, three queues, failures in a row | `enqueue`, `pump`, replies, `pollTick`, connect | tick, Qt's serial client | newest write wins, writes first, relays follow |
| `MeteringBusController` | one queue, request on the wire, failures, ages | poll, reply, timeout, gap, port | tick, serial port | no value outlives its device; replies match requests |
| `TestScheduleManager` | entries, last instant asked for of each; a file | `evaluate`, edits, load, save | tick, commands, disk | each planned instant once, none skipped |
| `LineOperationalMonitor` | since when each line is on | `evaluate` | tick | a fault only after warm-up |
| `MaintenanceChecker` | none (daily cache in `EngineRuntime`) | `evaluate` | tick | overdue or failed tests are seen, passed ones are not |
| `StateChangeTracker`, `StateFileStore` | last state / a file | per tick | tick | logging and publication |
| Codecs, configuration, logger | none | decode, parse, write | | frames decoded as specified |
| Panel, web page, update script | user interface | commands | IPC, HTTP | |

How they interact in one tick (`EngineRuntime::tick`): the inputs of the
WaveShare modules are sampled; the lines are evaluated with the *previous*
snapshot's test; the manual emergency is evaluated; the schedule and the command
flags become at most three requests; `TestController::evaluate` runs; ended
tests are persisted, then the heartbeat; flags are consumed; the snapshot is
assembled, its mode resolved and its lines forced for the *new* test; the snapshot
is published; `driveRelays` evaluates the lines once more and queues relay bytes.

Hard behaviours, each listed under `hazards` in `PROJECT.json` with the line
where it bites:

- several ends and a start in one call of `evaluate`; a wall clock that jumps;
- commands of several masters between two ticks, and tests that block each other;
- three evaluations of the lines in one tick with different tests;
- power loss between the writes of two files, and writes that fail;
- queues against silent modules, a port that closes, and a byte remembered as
  written outside the queue that may have dropped it;
- late replies that fit the next request, and values that outlive their device;
- planned instants missed or repeated when the clock, the schedule or the engine is
  disturbed, and dates a month does not have;
- a cache of the maintenance check that edits, tests and the clock make stale;
- lines and points that are freed and used again, and files that cannot be read.

## 2. Modules

| Module | Models | Status |
|---|---|---|
| `TestLifecycle` | what the cabinet promises about tests (abstract) | checked, proved |
| `TestController` | `TestController::evaluate` | checked, proved |
| `EngineRuntime` | tick, commands, mode, lines, coils, `LineOperationalMonitor`; instantiates `TestController` | checked, proved |
| `TestSchedule` | `TestScheduleManager`: planned instants, memory, edits, file, clock | checked, proved |
| `MeteringBus` | `MeteringBusController` and the values the engine keeps of it | checked, proved |
| `LineConfiguration` | points and files of the lines, results of tests, `MaintenanceChecker` and its cache | checked, proved |
| `DurationRecovery` | journal file, recovery marker, start; instantiates `TestController` | checked, proved |
| `RelayBus` | relay queues, bus monitor, the engine's remembered bytes | checked, proved |
| `Queues` | part of a queue in its order: what erasing leaves of a relay queue, which metering polls are due | used by both buses |
| `Induction` | induction and what folds and selections return | proved |
| `*Proofs` | the theorems about the module of that name | |
| `MC*` | instances for TLC | |

How they fit together: `EngineRuntime` holds the tick, with the schedule's
answer, the journal and the maintenance as its boundary. The schedule's answer is any
request there; `TestSchedule` says which instants are asked for at all. `DurationRecovery`
is the same tick seen from its files, `RelayBus` takes up the relay bytes where
the tick leaves them, `LineConfiguration` the results of a test where
`TestController` leaves them, `MeteringBus` ends with the values the monitor reads.
They are separate because they share little state and their product is
far larger than any question needs.

Modules that are proved about declare their constants with named assumptions, have
one action per handler, and no `RECURSIVE` operator.

What is left of the plan: the composition of `TestSchedule` with the requests that
a more urgent test swallows.

## 3. How the models correspond to the code

**`TestController`.** `activeTest` and `journal` are `m_activeTest` and
`m_journal`; `started` is a history of all tests begun. The only action is
`Evaluate(in)`, one call. `CutShort`, `Starts` and `Due` are its three blocks in
order, each written over the result of the one before (`Running` is the test
after the first two). Requests are a set with at most one per slot, as in
`TestControllerInputs`, and the slots' rule that a schedule names one test.
A power reading is reduced to what the measurement tells apart: line disabled,
within the line's tolerance, only within the duration test's, outside both.
`now` is an input and may go back; `MaxTests` bounds the tests of one behaviour.

**`EngineRuntime`.** One action `Ticks` for the whole `tick`, one per command
handler, `AdvanceClock` and `SetSystemTime` for the clock. The fields of
`commands` are the `m_*Requested` members. `LinesOn(forced, field)` is
`LineManager::evaluate`; `Shown` and `CoilsAfter` are its second and third use.
The fault lamp and the lines hang on normally closed contacts, so an energised
coil is a lamp or a line that is *off*; `coils` keeps the coils, not the
lamps. `setupLine` is the line whose card is open on the panel. Journal and
files are left to `DurationRecovery` and `LineConfiguration`; they feed back only into
the health. Of the health the lines' faults come from the monitor, all other
faults are one free Boolean of the tick. `monitor` is `LineOperationalMonitor`: since
when each line is on and whether a test was running, as of the last tick; the tick
hands it the outputs computed at its *head*. `powered` and `hasty` are histories
that measure the same from the coils. No command is served before the tick that ends
`start()`. `fresh` remembers which commands arrived since the last tick.

**`DurationRecovery`.** The same tick seen from its files: the ended tests are
appended to `storedJournal` and written, then the marker is written if
`TimingDue`. How a test ended does not matter to the files, so an entry says only
whether the controller or recovery wrote it, and the lost voltage stands for every
input that cuts a test short. Each write may fail; `Crash` is a power loss between two ticks,
`CrashInTick` one between the two writes of a tick, `StayOff` the time that
passes without power. (The files are replaced
atomically by `QSaveFile`, so no torn file exists.) `Start` is the constructor
and `start()`: read the journal, recover, write the first heartbeat. The
heartbeat is stored in whole seconds, so `Heartbeat` rounds down, and recovery
clamps it to the test's start. The clock counts ticks, and a restart takes
one. `SetSystemTime` is the operator's setting of the clock while the engine runs,
forwards or back: set back it silences the heartbeats, since `TimingChanged` compares
with a last write that now lies in the future. Instants of the code have milliseconds, so
a clock set back is taken never to show an earlier duration test's start again when
another begins (`StartIsNew`). `steady` and `begun` are histories of both.

**`RelayBus`.** `bus` is the request on the wire and the three priority queues.
`Enqueue` is `enqueue` with its two ways of coalescing and its call of `pump`;
`EnqueueAll` calls it for one request after the other.
`DriveRelays` is the loop of `driveRelays` over a hash, in any order, with the
comparison against `m_lastRelayBytes.value(module, 0xFF)`. `Answer`, `Timeout` and
`ConnectionLost` end the request on the wire; a write that ends in a timeout may
or may not have reached the relays. `Connect`
and `ConnectFails` are the reconnection timer. Failures in a row are counted up to
the threshold, above which nothing distinguishes them. Poll tasks of one
interval were started at one instant, so all modules' tasks fall due together.

**`TestSchedule`.** `Evaluate` is one call of `evaluate`: entries in their order, each
with its window and its memory, and a return at the first that is due. A call that
asks for nothing changes nothing and is no action. `Candidate` is
`buildCandidatePlanned`, one operator per kind of period; `AddMonths` is
`QDate::addMonths`. Time is a number of steps, the calendar a constant, so that the
last days of months come up in a small one. `asked` and `forgotten` are histories: what
was asked for since an entry has its memory, and what had been asked for when adding or
removing *any* entry, or a restart, emptied it (`Forgets`). An edit, a change of the clock, a power
loss and a start are one action each; the memory is not in the file. A step of
the clock is longer than a tick, hence `AdvanceClock` waits for `Evaluate`.

**`MeteringBus`.** A value is represented by the request whose registers it really is:
`shown[r]` is what the engine holds under `r`. `Shape` is what `frameMatches`
compares: address, function and length, so the branch meter's three blocks have
one shape. `Pump`, `Enqueue`, `Finish`, `Succeed`, `Fail` are the functions of
these names; `PollTick`, `GapEnds`, `Arrive`, `Timeout` and the port's four actions are
the handlers. External are the devices, which answer each request they hear at most once, in
order, correctly, with a refusal or damaged, in time or later, and the line, which may lose an answer.

**`LineConfiguration`.** `lines` and `linesFile` are the configuration in memory
and on disk, of each line its two points, whether it is enabled, and its last result;
`journal` and `journalFile` are the entries, of each the result of a completed duration
test or that it holds none. `LatestDurationTest` finds the one that counts for the maintenance;
both `Persist` and a start trim to the newest entries (`Trimmed`).
A tick is `Tick` or `TestEnds`, with `Persist` for `persistTestResults` and `Check` for
`maintenanceSnapshot` in the order of the code. The edits are those of panel and web
page, each with a write that may fail. `Restart` is the constructor and `start()`: it
reads both files, trims the journal and writes it if that was needed, and may append the failed
duration test that a power loss interrupted (`RecoverJournal`); when it does so is
`DurationRecovery`'s to say, so any such test is allowed. `failed` and `excused` are histories.

## 4. What is checked

Passing runs:

| Run | Question | Bounds |
|---|---|---|
| `test_controller` | every sequence of calls: `RecordedInOrder`, `CompletedRanInFull`, refinement of `TestLifecycle` | 1 line, lengths 0 and 1, clock 0..3, 2 tests requested |
| `engine_commands` | commands in every order around ticks: `ModeAgreesWithTest`, `ManualStartIsFresh`, `StopLeavesNothing`, `NoLessUrgentRuns`, `TestEnds` | no lines, requests up to second 1, clock 0..3, set back once |
| `engine_outputs` | a line added, edited, removed, set up around tests and fires: `TestPowersLines`, `ShownOffIsOff`, `SetupLineExists`, `FaultNeedsWarmup` | 1 line, scheduled tests, warm-up 1, clock 0..2, not set back |
| `duration_recovery` | power loss at any instant, failed writes, a clock set: `RecordedOnce`, `NothingForgotten`, `RecoveredLengthIsConfirmed`, `RecoveredUnlessWritesFail` | ticks 0..5, heartbeat every 2, journal of 3, clock set once to 1 or 3, 2 power losses, 1 failed write |
| `relay_bus` | queues under silence, loss and reopening: `QueuesStayShort`, `QueuedWriteIsLatest`, `WrittenIsApplied`, `OnlineIsEarned`, `WritesGoFirst`, `RelaysFollow` | 2 modules, bytes 0 and 1, threshold 2 |
| `test_schedule` | entries of any period under edits, power losses, failing files, a clock set to other instants: `CandidateIsPlanned`, `RequestsMoveForward`, `DueIsAsked` | 2 entries of 6 kinds, 6 days of 6 steps, 3 clock settings, 2 disturbances, 1 file error |
| `metering_bus` | answers late, damaged or lost, a port that fails: `InLineOnce`, `ShownComesFromDevice`, `PowersAreRecent`, `EveryPollIsServed`, `SilenceIsShown` | 3 requests to 2 devices, threshold 2, grace 2, 2 answers to come at once |
| `line_configuration` | edits, tests, restarts, a journal that is trimmed, failing files, a clock set back: `PointsDistinct`, `MaintenanceIsCurrent`, `FailureStaysVisible` | 2 lines, half-day steps 0..3, journal of 2 (found with 3), 2 tests, 2 edits or restarts, 1 file error, 1 set-back |

Each module's `TypeOK` is an invariant of one of its runs as well.

Why these bounds are enough to be interesting:

- Two tests give every pair of running and requested test, so every
  preemption, and an end and a start in the same call. The proofs cover the rest.
- With the functional test's wait of 1 and the duration test's of 2, a test begun at
  the last second for requests still ends inside the clock's bound, so `TestEnds`
  is not cut off. Setting the clock back once postpones every due time.
- Commands and lines do not share state but through the test, hence two runs;
  one line shows every combination of its mode, request input, set-up, test.
- Five ticks hold a test, a power loss, the restart that recovers it and a second loss, and a
  clock set back to 1 prolongs that, so that starts, heartbeats and losses fall on either side of
  the setting; a heartbeat period of two ticks is passed inside the default length of 3.
  `recovery_after_failure` has seven: it needs a failed write, a later test and its loss.
  The journal's limit of 3 is reached and entries are trimmed. `NothingForgotten` and
  `RecoveredUnlessWritesFail` speak of a journal that is not full yet: a full one drops
  old entries on purpose. Trimming a marked test's entry is a hazard without a property.
- Two modules make queues longer than one and let one module's failures stand
  in the way of the other; the bytes leave out 0xFF, whose special case has
  a run of its own.
- The schedule's calendar has months of two, one, two and one days: an entry on a
  month's last day meets months without such a day, forwards and when the search
  counts back. A window of 2 steps and a distance of 4 keep the code's proportion
  (90 s and 180 s, and a day is longer than both); one entry's window reaches past midnight. Two entries compete for a
  tick; two disturbances set the clock forth and back, or edit and restart. The run
  may stop (`CHECK_DEADLOCK FALSE`) because the clock ends with the calendar.
- `CandidateIsPlanned` and `DueIsAsked` (also when they are proved) except an entry by months whose window
  reaches past midnight (`WindowMayBeCut`): the search counts a period back from
  the day it *found*, which at the end of a short month is an earlier day than
  the plan's, and the seconds after midnight are lost. Only start times in the last
  90 s of a day are concerned.
- On the metering bus two requests share a device and a shape and the third has
  another, so a late answer can be taken rightly, wrongly and not at all. Two
  answers to come at once are one late and one for the request that is out. A
  step of time is longer than the poll interval and the whole queue, so ages
  are counted in polls.
- Half-day steps show a check in the middle of a day and the day's end, and limits of 0
  days make a test of the day before overdue. The journal found has an entry more
  than it keeps, the oldest of them a duration test: a start trims it away, or a test
  that ends does. Two lines
  on two free points make the points run out and be used again; the file
  found has a line whose input and output are on points of different numbers,
  as a file may. A restart counts as an edit, and one that cannot read the file goes on
  with the default lines.

Runs that are meant to fail, each a disagreement between the code and what the
repository says of it (`findings` in `PROJECT.json`):

| Run | Violated | What it shows |
|---|---|---|
| `recovery_after_failure` | `InterruptedIsRecovered` | after one failed journal write `m_preserveRuntimeTiming` stays set for the life of the process: later duration tests get no marker and a power loss makes them disappear |
| `stale_relay_write` | `QueuedWriteIsLatest` | a write queued while the port is closed survives its reopening although the tick has since computed 0xFF, which counts as already written |
| `schedule_blocked` | `DueIsAlwaysAsked` | an entry that fired while the clock was ahead is silent after the correction until the clock has passed that instant; `docs/test-controller.md` excepts only the same planned instant |
| `metering_late` | `ShownComesFromRequest` | powers that come after their timeout are taken for voltages of the same meter; `docs/modbus.md` says frames of another request are dropped |

Further disagreements are plain from reading and need no run of their own. The models follow
the code in all of them.

- The repository's `README.md` (line 46) ranks fire over lost voltage,
  `StateEngine::resolveMode` does the reverse.
- `docs/line-manager.md` (line 72) and `docs/test-controller.md` (line 169) say lines are not
  forced on in a test, `LineManager::evaluate` forces them.
- `docs/test-controller.md` (line 157) says of the schedule "Один и тот же planned-момент не
  запускается дважды" (one planned instant is not started twice). Adding or removing any entry
  (`TestScheduleManager.cpp`, lines 139 and 200) empties the memory of all entries, as a
  restart does, so an instant whose window of 90 s is still open is asked for again.
  `RequestsMoveForward` states what remains: that one instant, and none before it.
- The repository's `README.md` (line 66) says that a meter's readings are reset on a timeout
  or an error. `handleRequestFailure` keeps them until the failures reach a threshold, and the branch
  powers for 20 s, as `tests/telemetry_tests.cpp` expects; `PowersAreRecent` and
  `SilenceIsShown` state that weaker promise.
- The entry that recovery writes says that the test ran "не менее" (not less than) so many
  minutes (`TestController.cpp`, line 39). That is true unless the clock was set while the
  test ran: set forwards it counts time that did not pass. Set back it stops the heartbeats
  (`EngineRuntime.cpp`, lines 1616-1619), and the entry may end after the power loss.
  `RecoveredLengthIsConfirmed` is stated with this exception.

Each passing property has a mutant in `PROJECT.json`: a plausible mistake in one
definition (kept next to it under a comment that starts with "Faulty") that makes
the run find the property violated.

### Fairness

- `EngineRuntime`: `WF(Ticks)`, because the tick is a 500 ms timer and nothing in
  the event loop blocks it. `SF(AdvanceClock)`, because time passes: a pending
  command delays the clock's step only to the next tick (a tick is twice as
  frequent as the second), so the step is enabled again and again even if
  commands arrive in every tick. Nothing is assumed of the commands, the schedule or the field.
- `RelayBus`: `WF` of the engine's tick and of the input polls (two timers), and of
  "the request on the wire ends", because Qt's client answers every request or
  reports its timeout. Nothing is assumed of the port: `RelaysFollow` speaks of
  behaviours in which it stays open from some point on and the module's
  last write did not fail.
- `MeteringBus`: `WF` of each poll task (a timer of its own), of the gap's and the
  answer's timers and of the passing of time. Nothing is assumed of the devices or the port:
  `EveryPollIsServed` holds because a port that is lost empties the queue, and
  `SilenceIsShown` speaks of behaviours in which a request is answered only finitely often.

## 5. What is proved

Every theorem holds for every value of the constants that the named assumptions
allow; these are checked by TLC in the runs.

**`TestControllerProofs`**, for every set of lines, every set of requested
lengths and every bound, under `ConfigAssumption` alone (lengths are naturals,
the two configured waiting times positive):

- `TypeCorrect`, `EveryTestIsRecorded`, `CompletionIsEarned`: the three
  invariants of the run;
- `ImplementationOfLifecycle`: `TestController` implements `TestLifecycle`.

The invariant `Inv == TypeOK /\ RecordedInOrder /\ CompletedRanInFull` is
inductive. Its parts need each other: what a completed entry ran for is read
from the due time of the running test, which `RecordedInOrder` identifies with the last
element of `started`; that the entry goes to the right place in the journal needs
the lengths to agree, and `TypeOK` gives both their arithmetic. `JournalStep`
and `StartedStep` say what a call appends to either sequence; `InvStep` splits
on whether the running test is cut and whether one starts.
The positive waiting times are what makes a test begun in a call not due in
the same call, so a call never appends more than a cut and a completion.

For the refinement, `PriorityIsRank` shows that the code's sums
order tests as the documented list does, and `LifecycleStep` maps each call to
`Begin`, `End`, `Supersede` or a stutter. The abstract step depends on a
property of the code that is not obvious: no call both cuts a test, starts
another and completes that one, which would need two abstract steps.

**`EngineRuntimeProofs`**, under `LengthsAssumption` (lengths are naturals, the waiting
times and the warm-up positive) and `BoundsAssumption`: `TypeCorrect` and eight
properties, all the safety properties of the two runs. Three invariants carry them.
`OutputsInv` needs no history: a tick makes mode, coils and snapshot agree whatever was
before (`TickMakesOutputs`), a command touches none of them. `CommandsAreFresh` says
that a flag that waits was set since the last tick; the action properties about starts and
stops follow from it, and `NothingLessUrgentRuns` from `TestAfter` and `HighestRequested`, which
say which test one call of `evaluate` leaves running. `WarmUpIsPowered`
says that a line whose warm-up the monitor keeps has been powered for at least as long.
It is not obvious because the monitor sees the outputs computed for the test of
the previous tick: in the tick that begins or ends a test it may see a line on that the coils do
not power. What saves the property is that the monitor starts all
warm-ups anew when `testActive` changes, one tick later.

**`DurationRecoveryProofs`**, under `LengthsAssumption` and `BoundsAssumption`: the type
invariant and all four properties of the run, for any size of the journal and any number
of power losses and failed writes. `OneCall` condenses `evaluate` to what the files
see of it: a call ends at most the running test, and a test that begins does so now. The
invariants build on each other. `RecordInv`: every test that has an
entry or a marker began in the past, and the running one has no entry, so neither its end
nor its recovery can be a second one. `KeepInv`: what is on disk is also in
memory until the journal is full (`Covers`), and a marker about to be overwritten is that of a test
whose entry is written; the flag `m_preserveRuntimeTiming` is what the proof needs in the
one case where it is not. `LengthInv`, while no write fails: the marker names the running
test, and as long as the clock was not set since that test began it is as recent as
`m_lastRuntimeTimingWrite` says. This hypothesis (`steady`) is where a set clock enters; that
an entry does not end before it began needs no hypothesis about the clock. `RecoverInv`: between a
power loss and the next start the marker names the test that was cut.

**`TestScheduleProofs`**, under `CalendarAssumption` (months that are not empty),
`WindowAssumption`, `OfferedEntriesAssumption` and `BoundsAssumption`: the type
invariant and all three properties of the run. The invariant adds that the memory is the
last instant asked for and that each entry's requests ascend. The step that matters is `EligibleIsLater`: the memory is at
least `DedupeTime` old, the planned instant at most `Window`, and the window is shorter;
this is the only place where the code's 90 s and 180 s are related, and while an entry has
its memory `RequestsGoForward` needs nothing more than `Window < DedupeTime`. About what
was forgotten it needs `PastIsBehind`: what an emptied memory had asked for and is not ahead
of the clock are instants of the plan. Two of a plan are further apart than a window
(`PlannedApart`), so the one whose window is open is the latest of them or a later one. Hence its exceptions: an
instant that lies ahead after the clock was set back comes again, and entries with
`WindowMayBeCut` have no such plan. Type
correctness needs that the search for an instant never leaves the calendar:
`MonthOfDay`, `AddMonthsShape` and `MonthsIsNumber` show that counting a period back
from the day found is only done when a whole period lies behind it. `PlannedIsFound`
says that the search is right: `SearchFindsPlanned` and `FoundIsPlanned` show for each
kind of period that while the window of a planned instant is open the search returns
that instant, and that what it returns inside its window was planned. The plan is stated
independently of the search (`PlannedInstants`: the n-th repetition, counted from the
first day). A window is shorter than a day, so the planned day is the clock's or the one
before (`DayOfWindow`), where the search looks. `WhatIsDueIsAsked` rests on it and on
`MemoryIsPlanned`: the memory is itself an instant of the plan, so an earlier one is a
day older (`PlannedApart`) and does not suppress this one as long as `DedupeTime <=
DayLength`. Nothing done to the schedule or the clock inside the window need be
excepted, only that the entry asked for a later instant.

**`RelayBusProofs`**, for any set of modules and bytes and any threshold, under
`BusAssumption`: the type invariant and all five safety properties of the run. `BusInv`
says of each queue that it holds requests of its own kind, no two of one module, and
that nothing is out on a closed port. A call of `enqueue` keeps it; a tick makes one for
each module whose byte changed, so what a whole loop does (`Written`, `Advance`) is an
induction over the requests. `FollowedInv` strengthens `WrittenIsApplied`: what waits
for a module or is out for it is the byte remembered, and if nothing is, the relays have
it. It needs that a later write takes the place of an earlier one in the queue but may
find another one of the same module on the wire, whose answer then must not count as the
last. `WaitingWritesAreLatest` proves `QueuedWriteIsLatest` if the tick never computes
255 (0xFF): this hypothesis is what `stale_relay_write` violates, and the theorem shows
that it is all that is wrong there.

**`Induction`** has what these proofs rest on. The library's induction theorems take an
operator, so `InductionUpTo` states induction for a set of numbers and is derived from
the library's well-foundedness of the naturals. `SelectShape` says what erasing requests
leaves of a queue; `WithoutLargest` what the community fold, which runs over a set of
indexes, leaves at each step.

**`MeteringBusProofs`**, under `MeteringAssumption`: the type invariant and all three
safety properties of the run. `LineHoldsEachOnce` follows the requests of one poll tick
through `Enqueue` by induction; the number of requests in line is bounded by the list of
polls however long the devices are silent. For `ValuesComeFromTheirDevice` and
`PowersStayRecent` the invariant relates the age of the powers shown to
`m_lastAmcPowerResponse`: they are equal while powers are shown, and an age that has
reached the grace has not been tried since, so that the next request either renews or
forgets the value; and nothing is on the wire of a closed port, so an old answer cannot
be the first after reopening.

**`LineConfigurationProofs`**, under `LinesAssumption`, `FilesAssumption` (the files
found at first have lines with distinct points) and `JournalsAssumption` (the journal found
may hold any results and any number of them): `TypeCorrect`, whose step of interest
is that a new line gets an index and points that exist (`addLine` looks for the least
that is free); `PointsStayDistinct`, from the injectivity of the default points and from
the same for the file, which a restart brings back; `FailuresStayVisible`, from an
invariant that memory, file and cache all have each failure as long as no file failed;
`MaintenanceStaysCurrent`, from `CacheIsTrue` (the cache is the check of *these* lines and
of *this* journal at most a day ago) and the monotonicity of being overdue in time. It holds
for any size of the journal, whatever a trim drops and whatever test a start recovers:
`JournalStep` gives the journal its type after either, and every change of the journal, and
only such a change, comes with a check anew or an excuse.

## 6. What is not proved, not checked, not modelled

- Liveness (`TestEnds`, `RelaysFollow`, `EveryPollIsServed`, `SilenceIsShown`) is
  model-checked only; TLAPS has no reasoning about fairness and `ENABLED` here.
- Every other property of the passing runs, invariant or action property, is proved.
  `QueuedWriteIsLatest` is proved without the byte 0xFF, for which it is false.
- The parts of the proofs that concern data (folds, selections, the least free index) use
  induction over sets of numbers, see `Induction`; no recursive operator is used.
- Left out of the tick: publication of the snapshot, the state file
  (`StateFileStore`) and the change log (`StateChangeTracker`): nothing in the
  engine reads them back.
- Left out of the commands: journal queries, passwords, sessions, demo mode, the JSON
  of requests and replies. The web routes set the same flags and call the same
  functions as the panel's messages and are not told apart.
- `requiredModuleCount` is read once at start-up; that a line enabled later on a further
  module is not served (`writeWaveShareRelayByte` drops the byte) is among the hazards.
- The schedule's calendar has no daylight saving; the code's times are local times.
- `DurationRecovery` has no journal and no marker that cannot be read at start (lines 192 and
  1591-1598 of `EngineRuntime.cpp`: an empty journal, no recovery); an unreadable journal is in
  `LineConfiguration`. The clock is set only while the engine runs, never while the cabinet is off.
- In `MeteringBus` answers arrive in the order of their requests, so one of a device never overtakes
  another's, and an error the port raises inside `write()` itself is not modelled. Ages
  count steps: in real time a power may exceed the 20 s of its grace by the one polling round that
  notices it.
- Not modelled: frame codecs and `CabinetSnapshot` (conversions), `AppConfig` and `Logger`
  (parsing and log files), the TCP server's frames, connections and input registers
  (a projection of the snapshot), the panel, the web page, the entry points and
  the update script. None of them decides anything about the cabinet.

Hazards without a property are listed with their reason in `PROJECT.json`: nearly all
are behaviours about which no text of the repository promises anything.

## 7. Running

    tlc -config MCTestController.cfg MCTestController
    tlc -config MCEngineRuntimeCommands.cfg MCEngineRuntime
    tlapm TestControllerProofs.tla

The largest runs (`duration_recovery`, `line_configuration`, `metering_bus` and `relay_bus`)
take one to three minutes with two workers, as does `test_schedule`, the others less than one
and a half; each proof module takes up to a few minutes from nothing.
