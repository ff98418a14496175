-------------------------- MODULE DurationRecovery --------------------------
(***************************************************************************)
(* The files that keep a duration test from being forgotten when the       *)
(* cabinet loses power (persistTestResults, writeRuntimeTiming and start   *)
(* in src/src/EngineRuntime.cpp, recoverInterruptedDurationTest in         *)
(* src/src/engine/TestController.cpp).                                     *)
(*                                                                         *)
(* Each tick writes the ended tests to state/test_journal.json and then    *)
(* the heartbeat, with the running duration test as a marker, to           *)
(* state/runtime_timing.json.  Both files are replaced atomically, a write *)
(* may fail, and the power may go between any two writes.  The next start  *)
(* turns a marker without a journal entry into a failed test.              *)
(*                                                                         *)
(* This is the tick of EngineRuntime seen from its files: which test runs  *)
(* is decided by TestController from inputs that are free here.  The clock *)
(* counts ticks; the operator may set it while a test runs.                *)
(***************************************************************************)
EXTENDS Integers, Sequences

CONSTANTS
  RequestedSeconds, FunctionalWarmupSeconds, DefaultDurationSeconds,  \* all in ticks
  TicksPerSecond,              \* the heartbeat is written in whole seconds
  HeartbeatPeriod,             \* ticks between two writes of an unchanged marker
  MaxStoredTestJournalEntries,
  MaxTime,                     \* bound: the last tick
  ClockSettings,               \* instants the operator may set the clock to
  MaxClockChanges,             \* bound: settings of the clock in one behaviour
  MaxCrashes,                  \* bound: power losses in one behaviour
  MaxFailures                  \* bound: failed writes in one behaviour

ASSUME LengthsAssumption ==
  /\ RequestedSeconds \subseteq Nat
  /\ FunctionalWarmupSeconds \in Nat \ {0}
  /\ DefaultDurationSeconds \in Nat \ {0}

ASSUME BoundsAssumption ==
  /\ TicksPerSecond \in Nat \ {0}
  /\ HeartbeatPeriod \in Nat \ {0}
  /\ MaxStoredTestJournalEntries \in Nat \ {0}
  /\ MaxTime \in Nat
  /\ ClockSettings \subseteq 0..MaxTime
  /\ MaxClockChanges \in Nat
  /\ MaxCrashes \in Nat
  /\ MaxFailures \in Nat

VARIABLES
  clock,
  up,             \* is the process running (not in the code)
  activeTest,     \* m_lastSnapshot.activeTest, the controller's m_activeTest
  storedJournal,  \* m_storedJournal
  journalFile,    \* state/test_journal.json
  timingFile,     \* state/runtime_timing.json: [heartbeat, test], or NoTiming
  preserve,       \* m_preserveRuntimeTiming
  persistedStart, \* m_persistedDurationStartedAt, or Never
  lastWrite,      \* m_lastRuntimeTimingWrite, or Never
  confirmed,      \* duration tests whose marker was ever written (not in the code)
  undisturbed,    \* no write has failed since the running test began (not in the code)
  steady,         \* the clock was not set while the running duration test ran (not in the code)
  begun,          \* the instants at which duration tests began (not in the code)
  interrupted,    \* duration tests the power cut short: [startedAt, at, steady] (not in the code)
  clockChanges,   \* settings of the clock so far (not in the code)
  crashes,        \* power losses so far (not in the code)
  failures        \* failed writes so far (not in the code)

memory  == <<activeTest, storedJournal, preserve, persistedStart, lastWrite>>
files   == <<journalFile, timingFile>>
history == <<confirmed, undisturbed, steady, begun, interrupted, clockChanges, crashes, failures>>
vars    == <<clock, up, memory, files, history>>

Tests == INSTANCE TestController
  WITH Lines <- {}, MaxTests <- 0, journal <- <<>>, started <- <<>>

Times    == 0..MaxTime
Never    == -1
NoTiming == [heartbeat |-> Never, test |-> Tests!NoTest]
-----------------------------------------------------------------------------
(* Journal entries.                                                        *)

\* The files do not depend on how a test ended, only on who recorded it:
\* "Ended" is any status of the controller, "PowerLoss" the failure that
\* recovery writes.
StoredEntry == [kind : Tests!Kinds, startedAt : Nat, finishedAt : Nat,
                status : {"Ended", "PowerLoss"}]

Stored(e) == [kind |-> e.kind, startedAt |-> e.startedAt, finishedAt |-> e.finishedAt,
              status |-> "Ended"]

\* trimTestJournal.
Trimmed(entries) ==
  IF Len(entries) <= MaxStoredTestJournalEntries THEN entries
  ELSE SubSeq(entries, Len(entries) - MaxStoredTestJournalEntries + 1, Len(entries))

Recorded(entries) ==
  {entries[i].startedAt : i \in {j \in DOMAIN entries : entries[j].kind = "Duration"}}

IsDuration(test) == test.kind = "Duration"

\* Faulty: recovery does not look for the test in the journal.
NeedsRecoveryUnchecked(timing, entries) == IsDuration(timing.test)

NeedsRecovery(timing, entries) ==
  IsDuration(timing.test) /\ timing.test.startedAt \notin Recorded(entries)

\* Faulty: the interrupted test counts as run until the restart.
RecoveredUntilNow(timing) ==
  [kind |-> "Duration", startedAt |-> timing.test.startedAt, finishedAt |-> clock,
   status |-> "PowerLoss"]

\* The heartbeat has lost its fraction of a second and may lie before the start.
RecoveredEntry(timing) ==
  [kind |-> "Duration", startedAt |-> timing.test.startedAt,
   finishedAt |-> IF timing.heartbeat >= timing.test.startedAt THEN timing.heartbeat
                  ELSE timing.test.startedAt,
   status |-> "PowerLoss"]
-----------------------------------------------------------------------------
(* writeRuntimeTiming.                                                     *)

StartOf(test) == IF IsDuration(test) THEN test.startedAt ELSE Never

TimingChanged(force, test) ==
  \/ force
  \/ StartOf(test) # persistedStart
  \/ lastWrite = Never
  \/ clock - lastWrite >= HeartbeatPeriod

\* Faulty: the marker is not preserved.
TimingDueAlways(force, test, keep) == TimingChanged(force, test)

TimingDue(force, test, keep) == ~keep /\ TimingChanged(force, test)

\* Faulty: rounded down by a whole second.
HeartbeatBefore == clock - TicksPerSecond

Heartbeat == clock - (clock % TicksPerSecond)

\* Faulty: the marker is left out.
TimingWithoutTest(test) ==
  [heartbeat |-> Heartbeat, test |-> Tests!NoTest]

Timing(test) ==
  [heartbeat |-> Heartbeat,
   test |-> IF IsDuration(test) THEN test ELSE Tests!NoTest]

WriteRuntimeTiming(force, test, keep, writable) ==
  LET written == TimingDue(force, test, keep) /\ writable
  IN  /\ timingFile' = IF written THEN Timing(test) ELSE timingFile
      /\ lastWrite' = IF written THEN clock ELSE lastWrite
      /\ persistedStart' = IF written THEN StartOf(test) ELSE persistedStart
      /\ confirmed' = IF written /\ IsDuration(test)
                      THEN confirmed \cup {test.startedAt} ELSE confirmed
-----------------------------------------------------------------------------
(* The tick.                                                               *)

Ended(in) == LET new == Tests!NewEntries(in) IN [i \in DOMAIN new |-> Stored(new[i])]

JournalAfter(in) ==
  LET ended == Ended(in)
  IN  IF ended = <<>> THEN storedJournal ELSE Trimmed(storedJournal \o ended)

\* Faulty: only the entry that could not be written is lost, nothing is kept.
KeepNever(in, writable) == preserve

\* A duration test whose end could not be written keeps its marker; the flag
\* is not reset while the process runs.
KeepMarker(in, writable) ==
  preserve \/ (Ended(in) # <<>> /\ ~writable /\ IsDuration(activeTest))

\* A fire and the operator's stop end a test, and keep one from starting, as
\* the lost voltage does; of several requests only the highest counts.
TestInputs ==
  {[now |-> clock, voltageControlOk |-> voltageOk, fireInputActive |-> FALSE,
    stopRequested |-> FALSE, requests |-> requests, readings |-> <<>>] :
     voltageOk \in BOOLEAN, requests \in {{}} \cup {{r} : r \in Tests!Request}}

Failures(journalNeeded, journalOk, timingNeeded, timingOk) ==
  (IF journalNeeded /\ ~journalOk THEN 1 ELSE 0) + (IF timingNeeded /\ ~timingOk THEN 1 ELSE 0)

CountFailures(n) ==
  /\ failures + n <= MaxFailures
  /\ failures' = failures + n

StartsDuration(in) == Tests!Starts(in) /\ IsDuration(Tests!ActiveAfter(in))

\* Instants have milliseconds: a clock that was set back does not show an earlier
\* duration test's start to the millisecond when another one begins.
StartIsNew(in) == StartsDuration(in) => clock \notin begun

Tick(in, journalOk, timingOk) ==
  LET test == Tests!ActiveAfter(in)
      keep == KeepMarker(in, journalOk)
      ended == Ended(in) # <<>>
      journal == JournalAfter(in)
      failed == Failures(ended, journalOk, TimingDue(FALSE, test, keep), timingOk)
  IN  /\ up /\ clock < MaxTime
      /\ StartIsNew(in)
      /\ clock' = clock + 1
      /\ activeTest' = test
      /\ storedJournal' = journal
      /\ journalFile' = IF ended /\ journalOk THEN journal ELSE journalFile
      /\ preserve' = keep
      /\ WriteRuntimeTiming(FALSE, test, keep, timingOk)
      /\ CountFailures(failed)
      /\ undisturbed' = (failed = 0 /\ (undisturbed \/ Tests!Starts(in)))
      /\ steady' = (steady \/ test # activeTest)
      /\ begun' = IF StartsDuration(in) THEN begun \cup {clock} ELSE begun
      /\ UNCHANGED <<up, interrupted, clockChanges, crashes>>

\* setSystemTimeFromHmi, between two ticks.  A clock set back stops the
\* heartbeats until it has caught up: TimingChanged.
SetSystemTime(now) ==
  /\ up /\ now # clock
  /\ clockChanges < MaxClockChanges
  /\ clockChanges' = clockChanges + 1
  /\ clock' = now
  /\ steady' = (steady /\ ~IsDuration(activeTest))
  /\ UNCHANGED <<up, memory, files, confirmed, undisturbed, begun, interrupted, crashes, failures>>
-----------------------------------------------------------------------------
(* Power loss and restart.                                                 *)

LoseMemory ==
  /\ crashes < MaxCrashes
  /\ crashes' = crashes + 1
  /\ up' = FALSE
  /\ interrupted' = IF IsDuration(activeTest) /\ undisturbed
                    THEN interrupted \cup
                           {[startedAt |-> activeTest.startedAt, at |-> clock, steady |-> steady]}
                    ELSE interrupted
  /\ activeTest' = Tests!NoTest
  /\ storedJournal' = <<>>
  /\ preserve' = FALSE
  /\ persistedStart' = Never
  /\ lastWrite' = Never
  /\ undisturbed' = TRUE
  /\ steady' = TRUE

\* Between two ticks.
Crash ==
  /\ up
  /\ LoseMemory
  /\ UNCHANGED <<clock, files, confirmed, begun, clockChanges, failures>>

\* In a tick, when the journal is written and the marker is not yet.
CrashInTick(in) ==
  /\ up
  /\ Ended(in) # <<>>
  /\ journalFile' = JournalAfter(in)
  /\ LoseMemory
  /\ UNCHANGED <<clock, timingFile, confirmed, begun, clockChanges, failures>>

\* The cabinet stays without power for a while.
StayOff ==
  /\ ~up /\ clock < MaxTime
  /\ clock' = clock + 1
  /\ UNCHANGED <<up, memory, files, history>>

\* The constructor reads the journal, start() recovers the interrupted test
\* and writes the first heartbeat.
Start(journalOk, timingOk) ==
  LET recovers == NeedsRecovery(timingFile, journalFile)
      recovered == Trimmed(Append(journalFile, RecoveredEntry(timingFile)))
      keep == recovers /\ ~journalOk
  IN  /\ ~up /\ clock < MaxTime
      /\ up' = TRUE
      /\ clock' = clock + 1
      /\ storedJournal' = IF recovers /\ journalOk THEN recovered ELSE journalFile
      /\ journalFile' = IF recovers /\ journalOk THEN recovered ELSE journalFile
      /\ preserve' = keep
      /\ WriteRuntimeTiming(TRUE, Tests!NoTest, keep, timingOk)
      /\ CountFailures(Failures(recovers, journalOk, ~keep, timingOk))
      /\ UNCHANGED <<activeTest, undisturbed, steady, begun, interrupted, clockChanges, crashes>>
-----------------------------------------------------------------------------
Init ==
  /\ clock = 0
  /\ up = FALSE
  /\ activeTest = Tests!NoTest
  /\ storedJournal = <<>>
  /\ journalFile = <<>>
  /\ timingFile = NoTiming
  /\ preserve = FALSE
  /\ persistedStart = Never
  /\ lastWrite = Never
  /\ confirmed = {}
  /\ undisturbed = TRUE
  /\ steady = TRUE
  /\ begun = {}
  /\ interrupted = {}
  /\ clockChanges = 0
  /\ crashes = 0
  /\ failures = 0

Next ==
  \/ \E in \in TestInputs, journalOk, timingOk \in BOOLEAN : Tick(in, journalOk, timingOk)
  \/ \E now \in ClockSettings : SetSystemTime(now)
  \/ \E in \in TestInputs : CrashInTick(in)
  \/ Crash
  \/ StayOff
  \/ \E journalOk, timingOk \in BOOLEAN : Start(journalOk, timingOk)

Spec == Init /\ [][Next]_vars
-----------------------------------------------------------------------------
(* Properties.                                                             *)

\* Every variable has its type.
TypeOK ==
  /\ clock \in Times
  /\ up \in BOOLEAN
  /\ activeTest \in Tests!Test \cup {Tests!NoTest}
  /\ storedJournal \in Seq(StoredEntry)
  /\ journalFile \in Seq(StoredEntry)
  /\ timingFile \in [heartbeat : Times, test : Tests!Test \cup {Tests!NoTest}] \cup {NoTiming}
  /\ preserve \in BOOLEAN
  /\ persistedStart \in Times \cup {Never}
  /\ lastWrite \in Times \cup {Never}
  /\ confirmed \subseteq Times
  /\ undisturbed \in BOOLEAN
  /\ steady \in BOOLEAN
  /\ begun \subseteq Times
  /\ interrupted \subseteq [startedAt : Times, at : Times, steady : BOOLEAN]
  /\ clockChanges \in 0..MaxClockChanges
  /\ crashes \in 0..MaxCrashes
  /\ failures \in 0..MaxFailures

\* No test is recorded twice: a power loss between the journal's write and the
\* marker's, or a marker kept after a failed write, does not make the next
\* start add a second, failed, entry for a test that has one.
RecordedOnce ==
  \A i, j \in DOMAIN journalFile :
    journalFile[i].kind = "Duration" /\ journalFile[j].kind = "Duration"
      /\ journalFile[i].startedAt = journalFile[j].startedAt => i = j

\* From then on the journal drops its oldest entry for each new one.
JournalIsFull == Len(journalFile) >= MaxStoredTestJournalEntries

\* A duration test whose marker was once on disk is not forgotten whatever
\* writes fail and whenever the power goes, until the journal is full: the journal
\* on disk has it or the marker on disk still names it.
NothingForgotten ==
  ~JournalIsFull => confirmed \subseteq Recorded(journalFile) \cup {StartOf(timingFile.test)}

\* As long as no write fails, and the clock is not set while the test runs, the
\* length recovery reports is one the test really ran: it ends no later than the
\* power loss and no earlier than a heartbeat period before it.  A clock that was
\* set leaves only that it does not end before it began.
RecoveredLengthIsConfirmed ==
  failures = 0 =>
    \A i \in DOMAIN journalFile : \A c \in interrupted :
      journalFile[i].status = "PowerLoss" /\ journalFile[i].startedAt = c.startedAt =>
        /\ journalFile[i].finishedAt >= journalFile[i].startedAt
        /\ c.steady => /\ journalFile[i].finishedAt <= c.at
                       /\ c.at - journalFile[i].finishedAt < HeartbeatPeriod + TicksPerSecond

\* tests/test_controller_tests.cpp: an unfinished duration test is failed on
\* the next start, if no write failed while it ran nor in that start.
InterruptedIsRecovered ==
  up /\ ~preserve => {c.startedAt : c \in interrupted} \subseteq Recorded(journalFile)

\* As long as no write fails, every duration test that a power loss cut short,
\* at any instant of any tick, is in the journal after the next start.
RecoveredUnlessWritesFail == failures = 0 /\ ~JournalIsFull => InterruptedIsRecovered
=============================================================================
