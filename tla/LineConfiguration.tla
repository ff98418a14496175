------------------------- MODULE LineConfiguration -------------------------
(***************************************************************************)
(* The configured lines and what is said of their maintenance: the edits   *)
(* of the lines (LineManager.cpp and the commands of EngineRuntime.cpp),   *)
(* the results of tests that a tick writes to them, the journal and the    *)
(* files, and the maintenance check (MaintenanceChecker.cpp) that the tick *)
(* computes once a day and otherwise takes from its cache.                 *)
(*                                                                         *)
(* Of a line the points and the last functional test are kept, of an entry *)
(* of the journal what the check reads: the result of a completed duration *)
(* test, or that it holds none.  A tick's test ends with any verdicts:     *)
(* TestController is the module that says which, and DurationRecovery says *)
(* when a start finds an interrupted duration test.                        *)
(***************************************************************************)
EXTENDS Integers, FiniteSets, Sequences

CONSTANTS
  MaxLines,            \* lines of a cabinet, 25
  FirstModulePoints,   \* points of the first module that are for lines, 4
  ModulePoints,        \* channels of a module, 8
  DefaultCount,        \* lines of the default configuration, 3
  DayLength,           \* a day, in steps of the clock
  LineLimitDays, LongTestLimitDays,
  MaxStoredTestJournalEntries,  \* entries the journal keeps, 1000
  FirstFiles,          \* the lines files the engine may find at first
  FirstJournals,       \* the journals it may find at first
  MaxTime,             \* bound: the last instant
  MaxTests, MaxEdits, MaxFileErrors, MaxClockChanges  \* bounds: their numbers

ASSUME LinesAssumption ==
  /\ FirstModulePoints \in 1..ModulePoints
  /\ DefaultCount \in 1..MaxLines
  /\ MaxLines \in Nat
  /\ ModulePoints \in Nat \ {0}
  /\ DayLength \in Nat \ {0}
  /\ MaxTime \in Nat
  /\ LineLimitDays \in Nat /\ LongTestLimitDays \in Nat
  /\ MaxStoredTestJournalEntries \in Nat \ {0}

VARIABLES
  clock,
  lines,        \* m_lines
  linesFile,    \* the lines file
  journal,      \* m_storedJournal
  journalFile,  \* the journal's file
  maintenance,  \* m_cachedMaintenance
  nextCheck,    \* m_nextMaintenanceCheckAt; Dirty stands for m_maintenanceDirty too
  failed,       \* lines whose last functional test in the journal failed (not in the code)
  excused,      \* did a failed write or the clock come between check and now (not in the code)
  counts        \* tests, edits, file errors, clock changes so far (not in the code)

vars == <<clock, lines, linesFile, journal, journalFile, maintenance, nextCheck,
          failed, excused, counts>>

files == <<linesFile, journalFile>>
-----------------------------------------------------------------------------
(* Lines and points.                                                       *)

Indexes == 1..MaxLines

NoPoint == <<0, 0>>

\* The first module keeps its first channels for the cabinet.
DefaultPoint(i) ==
  LET offset == i - FirstModulePoints - 1
  IN  IF i <= FirstModulePoints THEN <<1, ModulePoints - FirstModulePoints + i>>
      ELSE <<2 + offset \div ModulePoints, (offset % ModulePoints) + 1>>

Points == {DefaultPoint(i) : i \in Indexes}

Never == -1

Result == [at : 0..MaxTime, status : {"Passed", "Failed"}] \cup [at : {Never}, status : {"None"}]

NoResult == [at |-> Never, status |-> "None"]

Line == [enabled : BOOLEAN, input : Points, output : Points, tested : Result]

\* Configurations whose lines share no relay and no input.
Distinct(config) ==
  \A k, l \in DOMAIN config :
    k # l => config[k].input # config[l].input /\ config[k].output # config[l].output

\* The code reads whatever a file says; only sound files are assumed.
ASSUME FilesAssumption ==
  \A file \in FirstFiles :
    /\ \E L \in SUBSET Indexes : file \in [L -> Line]
    /\ Distinct(file)

ASSUME JournalsAssumption == FirstJournals \subseteq Seq(Result)

NewLine(point) == [enabled |-> TRUE, input |-> point, output |-> point, tested |-> NoResult]

DefaultLines == [i \in 1..DefaultCount |-> NewLine(DefaultPoint(i))]

Smallest(S) == CHOOSE i \in S : \A j \in S : i <= j

\* Faulty: only the inputs of the lines are looked at.
InputIsUsed(point) == \E l \in DOMAIN lines : lines[l].input = point

PointIsUsed(point) == \E l \in DOMAIN lines : point \in {lines[l].input, lines[l].output}

\* makeNextLine: index and point are chosen apart.
NextIndex == Smallest(Indexes \ DOMAIN lines)

\* Faulty: without an unused default point the line gets none.
NextPointOrNone ==
  LET unused == {i \in Indexes : ~PointIsUsed(DefaultPoint(i))}
  IN  IF unused = {} THEN NoPoint ELSE DefaultPoint(Smallest(unused))

\* nextDefaultLinePoint; without one, addLine takes the index's default point.
NextPoint ==
  LET unused == {i \in Indexes : ~PointIsUsed(DefaultPoint(i))}
  IN  IF unused = {} THEN DefaultPoint(NextIndex) ELSE DefaultPoint(Smallest(unused))
-----------------------------------------------------------------------------
(* The maintenance check.                                                  *)

Dirty == -1

DaysTo(from, to) == to \div DayLength - from \div DayLength

IsOverdue(result, limit, now) == result.at = Never \/ DaysTo(result.at, now) > limit

EnabledLines(ls) == {l \in DOMAIN ls : ls[l].enabled}

Overdue(ls, now) == {l \in EnabledLines(ls) : IsOverdue(ls[l].tested, LineLimitDays, now)}

FailedLines(ls) == {l \in EnabledLines(ls) : ls[l].tested.status = "Failed"}

\* MaintenanceChecker::evaluate.
Maintenance(ls, long, now) ==
  [overdue |-> Overdue(ls, now),
   failed |-> FailedLines(ls),
   longOverdue |-> IsOverdue(long, LongTestLimitDays, now),
   longFailed |-> long.status = "Failed"]

NoMaintenance == [overdue |-> {}, failed |-> {}, longOverdue |-> FALSE, longFailed |-> FALSE]

\* latestCompletedDurationTest: the latest by its time, the first of those that
\* finished together.  Other tests have no result here.
LatestDurationTest(entries) ==
  LET latest == {k \in DOMAIN entries : \A j \in DOMAIN entries : entries[j].at <= entries[k].at}
  IN  IF latest = {} THEN NoResult ELSE entries[Smallest(latest)]

\* trimTestJournal: the newest entries stay.
Trimmed(entries) ==
  IF Len(entries) <= MaxStoredTestJournalEntries THEN entries
  ELSE SubSeq(entries, Len(entries) - MaxStoredTestJournalEntries + 1, Len(entries))
-----------------------------------------------------------------------------
(* Bounds.                                                                 *)

Count(what) ==
  counts' = [counts EXCEPT ![what] = @ + 1]

\* What happens once, and fails to write a file if not ok.
CountWrite(what, ok) ==
  /\ counts' = IF ok THEN [counts EXCEPT ![what] = @ + 1]
               ELSE [counts EXCEPT ![what] = @ + 1, !.fileErrors = @ + 1]
  /\ counts'.fileErrors <= MaxFileErrors

Edit(ok) ==
  /\ counts.edits < MaxEdits
  /\ CountWrite("edits", ok)
  /\ UNCHANGED <<clock, journal, journalFile, maintenance>>

\* markMaintenanceDirty.
MarkDirty == nextCheck' = Dirty /\ excused' = excused

\* saveConfig replaces the file as a whole, or leaves it as it was.
LinesSaved(ok) == IF ok THEN lines' ELSE linesFile

\* A change that is kept in memory while the file could not be written is told
\* to be none, and the check is not repeated.
SavedOrUnnoticed(ok) ==
  /\ linesFile' = LinesSaved(ok)
  /\ IF ok THEN MarkDirty ELSE nextCheck' = nextCheck /\ excused' = TRUE
-----------------------------------------------------------------------------
(* Edits by the panel and the web page.                                    *)

AddLine(ok) ==
  /\ Cardinality(DOMAIN lines) < MaxLines
  /\ ~PointIsUsed(NextPoint)
  /\ lines' = [l \in DOMAIN lines \cup {NextIndex} |->
                 IF l = NextIndex THEN NewLine(NextPoint) ELSE lines[l]]
  /\ failed' = failed \ {NextIndex}
  /\ SavedOrUnnoticed(ok)
  /\ Edit(ok)

\* Faulty: the check is not repeated.
RemovedUnnoticed(ok) ==
  /\ linesFile' = LinesSaved(ok)
  /\ nextCheck' = nextCheck
  /\ excused' = (excused \/ ~ok)

RemovedAndSaved(ok) == SavedOrUnnoticed(ok)

RemoveLine(l, ok) ==
  /\ l \in DOMAIN lines
  /\ lines' = [k \in DOMAIN lines \ {l} |-> lines[k]]
  /\ failed' = failed \ {l}
  /\ RemovedAndSaved(ok)
  /\ Edit(ok)

\* updateLine: of what an operator changes, only the mode Off matters here; the
\* points stay, so they cannot collide.
Changed(l, enabled) ==
  /\ l \in DOMAIN lines
  /\ lines' = [lines EXCEPT ![l].enabled = enabled]
  /\ failed' = failed
  /\ MarkDirty

\* The panel changes a line in memory and saves all lines with a command of its
\* own, the web page does both at once.
UpdateLine(l, enabled) ==
  /\ Changed(l, enabled)
  /\ linesFile' = linesFile
  /\ Edit(TRUE)

UpdateAndSaveLine(l, enabled, ok) ==
  /\ Changed(l, enabled)
  /\ linesFile' = LinesSaved(ok)
  /\ Edit(ok)

SaveLines(ok) ==
  /\ UNCHANGED lines
  /\ linesFile' = LinesSaved(ok)
  /\ Edit(ok)
  /\ UNCHANGED <<nextCheck, failed, excused>>

Edits == \E ok \in BOOLEAN :
  \/ AddLine(ok)
  \/ SaveLines(ok)
  \/ \E l \in Indexes :
       \/ RemoveLine(l, ok)
       \/ \E enabled \in BOOLEAN : UpdateLine(l, enabled) \/ UpdateAndSaveLine(l, enabled, ok)
-----------------------------------------------------------------------------
(* One tick.                                                               *)

NoTest  == [kind |-> "None", failed |-> {}]
CutTest == [kind |-> "Cut", failed |-> {}]

EndedTests ==
  {CutTest} \cup [kind : {"Functional", "Duration"}, failed : SUBSET EnabledLines(lines)]

Verdict(l, test) == [at |-> clock, status |-> IF l \in test.failed THEN "Failed" ELSE "Passed"]

\* The lines with the results of the test, for the snapshot of this tick and,
\* by applyTestResults, for good.
Tested(test) ==
  IF test.kind # "Functional" THEN lines
  ELSE [l \in DOMAIN lines |->
          IF lines[l].enabled THEN [lines[l] EXCEPT !.tested = Verdict(l, test)] ELSE lines[l]]

DurationResult(test) ==
  IF test.kind # "Duration" THEN NoResult
  ELSE [at |-> clock, status |-> IF test.failed = {} THEN "Passed" ELSE "Failed"]

\* Faulty: the results are in the lines, the file is left to the next edit.
ResultsUnsaved(saveOk) == linesFile

ResultsSaved(saveOk) == LinesSaved(saveOk)

\* persistTestResults: the results reach the lines only if the journal could be
\* written; the journal in memory has them in any case.
Persist(test, journalOk, saveOk) ==
  /\ journal' = Trimmed(Append(journal, DurationResult(test)))
  /\ IF journalOk
     THEN /\ journalFile' = journal'
          /\ lines' = Tested(test)
          /\ linesFile' = ResultsSaved(saveOk)
          /\ failed' = IF test.kind = "Functional"
                       THEN (failed \ EnabledLines(lines)) \cup test.failed ELSE failed
     ELSE UNCHANGED <<lines, files, failed>>
  /\ counts.tests < MaxTests
  /\ CountWrite("tests", journalOk /\ saveOk)

CheckIsDue(dirty) == dirty \/ nextCheck = Dirty \/ clock >= nextCheck

\* maintenanceSnapshot: the cache holds for a day unless it is dirty.  It is
\* computed from the lines of the snapshot, which have the test's results even
\* if the journal could not be written.
Check(test, dirty, results) ==
  LET recompute == CheckIsDue(dirty)
      found     == Maintenance(Tested(test), LatestDurationTest(journal'), clock)
  IN  /\ maintenance' = IF recompute THEN found ELSE maintenance
      /\ nextCheck' = IF recompute THEN clock + DayLength ELSE nextCheck
      /\ excused' = ((excused /\ ~recompute) \/ (results /\ ~dirty))

Tick ==
  /\ UNCHANGED <<clock, lines, files, journal, failed, counts>>
  /\ Check(NoTest, FALSE, FALSE)

TestEnds(test, journalOk, saveOk) ==
  /\ journalOk \/ saveOk
  /\ Persist(test, journalOk, saveOk)
  /\ Check(test, journalOk, TRUE)
  /\ clock' = clock

Ticks ==
  \/ Tick
  \/ \E test \in EndedTests, journalOk, saveOk \in BOOLEAN : TestEnds(test, journalOk, saveOk)
-----------------------------------------------------------------------------
(* Restart, clock.                                                         *)

\* What the constructor takes over of the journal's file: an unreadable journal is
\* taken for empty, a long one is trimmed.
JournalRead(readable) == IF readable THEN Trimmed(journalFile) ELSE <<>>

\* It writes the file only if it trimmed it.
FileRead(readable, trimOk) ==
  IF readable /\ trimOk THEN JournalRead(readable) ELSE journalFile

\* The duration tests that start() may find interrupted: they failed at their last
\* heartbeat.
InterruptedTests ==
  {r \in [at : 0..MaxTime, status : {"Failed"}] : r.at <= clock \/ counts.clockChanges > 0}

\* recoverInterruptedDurationTest appends one, in memory only if the file could be
\* written.
Recovered(test, ok, entries) == IF ok THEN Trimmed(Append(entries, test)) ELSE entries

RecoverJournal(readable, trimOk, recoverOk) ==
  \/ /\ journal' = JournalRead(readable)
     /\ journalFile' = FileRead(readable, trimOk)
     /\ recoverOk
  \/ \E test \in InterruptedTests :
       /\ journal' = Recovered(test, recoverOk, JournalRead(readable))
       /\ journalFile' = IF recoverOk THEN journal' ELSE FileRead(readable, trimOk)

Loaded(file) == IF DOMAIN file = {} THEN DefaultLines ELSE file

\* The constructor and start().  A lines file that cannot be read is replaced by
\* the default one, one without lines leaves the default lines in memory.
Restart(linesReadable, journalReadable, trimOk, recoverOk) ==
  /\ lines' = IF linesReadable THEN Loaded(linesFile) ELSE DefaultLines
  /\ linesFile' = IF linesReadable THEN linesFile ELSE DefaultLines
  /\ RecoverJournal(journalReadable, trimOk, recoverOk)
  /\ maintenance' = NoMaintenance
  /\ nextCheck' = Dirty
  /\ excused' = FALSE
  /\ failed' = failed \cap DOMAIN lines'
  /\ counts.edits < MaxEdits
  /\ CountWrite("edits", linesReadable /\ journalReadable /\ trimOk /\ recoverOk)
  /\ UNCHANGED clock

AdvanceClock ==
  /\ clock < MaxTime
  /\ clock' = clock + 1
  /\ UNCHANGED <<lines, files, journal, maintenance, nextCheck, failed, excused, counts>>

\* The operator sets the clock back; the next check stays where it was.
SetSystemTime(t) ==
  /\ t < clock
  /\ counts.clockChanges < MaxClockChanges
  /\ clock' = t
  /\ excused' = TRUE
  /\ Count("clockChanges")
  /\ UNCHANGED <<lines, files, journal, maintenance, nextCheck, failed>>

\* A first start that has taken over what it found; a journal that was too long is
\* still so in its file, the write that trims it having failed.
Init ==
  /\ clock = 0
  /\ linesFile \in FirstFiles
  /\ lines = Loaded(linesFile)
  /\ journalFile \in FirstJournals
  /\ journal = Trimmed(journalFile)
  /\ maintenance = NoMaintenance
  /\ nextCheck = Dirty
  /\ failed = {}
  /\ excused = FALSE
  /\ counts = [tests |-> 0, edits |-> 0, fileErrors |-> 0, clockChanges |-> 0]

Next ==
  \/ Ticks
  \/ Edits
  \/ \E linesReadable, journalReadable, trimOk, recoverOk \in BOOLEAN :
       Restart(linesReadable, journalReadable, trimOk, recoverOk)
  \/ AdvanceClock
  \/ \E t \in 0..MaxTime : SetSystemTime(t)

Spec == Init /\ [][Next]_vars
-----------------------------------------------------------------------------
(* Properties.                                                             *)

Checks == [overdue : SUBSET Indexes, failed : SUBSET Indexes, longOverdue : BOOLEAN, longFailed : BOOLEAN]

\* Every variable has its type.
TypeOK ==
  /\ clock \in 0..MaxTime
  /\ \A config \in {lines, linesFile} :
       DOMAIN config \subseteq Indexes /\ \A l \in DOMAIN config : config[l] \in Line
  /\ {journal, journalFile} \subseteq Seq(Result)
  /\ Len(journal) <= MaxStoredTestJournalEntries
  /\ maintenance \in Checks
  /\ nextCheck \in 0..(MaxTime + DayLength) \cup {Dirty}
  /\ failed \subseteq DOMAIN lines
  /\ excused \in BOOLEAN

\* No two lines share a relay or an input, whatever is added and removed, from
\* any file whose lines share none.
PointsDistinct == Distinct(lines)

MaintenanceAt(time) == Maintenance(lines, LatestDurationTest(journal), time)

\* What a tick shows that ends no test.
Shown == IF CheckIsDue(FALSE) THEN MaintenanceAt(clock) ELSE maintenance

\* What a tick shows of the maintenance, mostly from its cache, is true of the
\* lines and the journal it goes with; that a line or the long test is overdue
\* is seen a day late at most.  A write that failed and a clock set back excuse
\* it until the next check.
MaintenanceIsCurrent ==
  LET now       == MaintenanceAt(clock)
      yesterday == MaintenanceAt(clock - DayLength)
  IN  ~excused =>
        /\ Shown.failed = now.failed
        /\ Shown.longFailed = now.longFailed
        /\ yesterday.overdue \subseteq Shown.overdue
        /\ Shown.overdue \subseteq now.overdue
        /\ yesterday.longOverdue => Shown.longOverdue
        /\ Shown.longOverdue => now.longOverdue

\* As long as no file failed, every tick shows the failure of a line that is
\* enabled until the line passes a test or is removed: through restarts, edits
\* that are not saved, tests that are cut short and changes of the clock.
FailureStaysVisible ==
  counts.fileErrors = 0 => failed \cap EnabledLines(lines) \subseteq Shown.failed
=============================================================================
