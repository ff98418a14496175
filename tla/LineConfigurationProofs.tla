----------------------- MODULE LineConfigurationProofs -----------------------
(***************************************************************************)
(* The points of the lines, the failures of their tests and what is said   *)
(* of their maintenance, for every size of the cabinet and of the journal, *)
(* every sound file and every bound.                                       *)
(***************************************************************************)
EXTENDS LineConfiguration, Induction, FiniteSetTheorems, SequenceTheorems, TLAPS

-----------------------------------------------------------------------------
(* Points.                                                                 *)

\* Quotient and remainder determine a number.
LEMMA DivMod ==
  ASSUME NEW x \in Nat, NEW y \in Nat, NEW m \in Nat \ {0}, x \div m = y \div m, x % m = y % m
  PROVE  x = y
<1>1. x = m * (x \div m) + (x % m)
  OBVIOUS
<1>2. y = m * (y \div m) + (y % m)
  OBVIOUS
<1> QED BY <1>1, <1>2

\* No two lines have the same default point.
LEMMA DefaultPointsDiffer ==
  ASSUME NEW i \in Indexes, NEW j \in Indexes, DefaultPoint(i) = DefaultPoint(j)
  PROVE  i = j
<1> DEFINE offset(k) == k - FirstModulePoints - 1
<1>1. i \in Nat /\ j \in Nat /\ FirstModulePoints \in Nat /\ ModulePoints \in Nat \ {0}
  BY LinesAssumption DEF Indexes
<1>2. \A k \in {i, j} : k > FirstModulePoints =>
        /\ offset(k) \in Nat
        /\ offset(k) \div ModulePoints \in Nat
        /\ DefaultPoint(k) = <<2 + offset(k) \div ModulePoints, (offset(k) % ModulePoints) + 1>>
        /\ offset(k) % ModulePoints \in Nat
  BY <1>1 DEF DefaultPoint
<1>3. \A k \in {i, j} : k <= FirstModulePoints =>
        DefaultPoint(k) = <<1, ModulePoints - FirstModulePoints + k>>
  BY <1>1 DEF DefaultPoint
<1>4. CASE i > FirstModulePoints /\ j > FirstModulePoints
  <2>1. offset(i) \div ModulePoints = offset(j) \div ModulePoints
    BY <1>2, <1>4
  <2>2. offset(i) % ModulePoints = offset(j) % ModulePoints
    BY <1>2, <1>4
  <2>3. offset(i) = offset(j)
    BY <1>1, <1>2, <1>4, <2>1, <2>2, DivMod
  <2> QED BY <1>1, <2>3
<1>5. CASE i <= FirstModulePoints /\ j <= FirstModulePoints
  BY <1>1, <1>3, <1>5
<1>6. CASE i > FirstModulePoints /\ j <= FirstModulePoints
  BY <1>1, <1>2, <1>3, <1>6
<1>7. CASE i <= FirstModulePoints /\ j > FirstModulePoints
  BY <1>1, <1>2, <1>3, <1>7
<1> QED BY <1>1, <1>4, <1>5, <1>6, <1>7

\* Records with the fields of a line.
HasFields(r) ==
  r = [enabled |-> r.enabled, input |-> r.input, output |-> r.output, tested |-> r.tested]

\* A sound configuration.
Sound(config) ==
  /\ config = [l \in DOMAIN config |-> config[l]]
  /\ \A l \in DOMAIN config : HasFields(config[l])
  /\ Distinct(config)

LEMMA DefaultLinesAreSound == Sound(DefaultLines)
<1>1. \A i \in DOMAIN DefaultLines : i \in Indexes /\ DefaultLines[i] = NewLine(DefaultPoint(i))
  BY LinesAssumption DEF DefaultLines, Indexes
<1>2. Distinct(DefaultLines)
  BY <1>1, DefaultPointsDiffer DEF Distinct, NewLine
<1>3. \A i \in DOMAIN DefaultLines : HasFields(DefaultLines[i])
  BY <1>1 DEF NewLine, HasFields
<1> QED BY <1>2, <1>3 DEF Sound, DefaultLines

LEMMA LoadedIsSound ==
  ASSUME NEW file, Sound(file)
  PROVE  Sound(Loaded(file))
  BY DefaultLinesAreSound DEF Loaded

\* A new line has a point that no line uses.
LEMMA AddedIsSound ==
  ASSUME Sound(lines), NEW ok, AddLine(ok)
  PROVE  Sound(lines')
<1> DEFINE new == NextIndex
           point == NextPoint
<1>1. /\ ~PointIsUsed(point)
      /\ lines' = [l \in DOMAIN lines \cup {new} |-> IF l = new THEN NewLine(point) ELSE lines[l]]
  BY DEF AddLine
<1> HIDE DEF new, point
<1>2. \A l \in DOMAIN lines' : HasFields(lines'[l])
  BY <1>1 DEF Sound, HasFields, NewLine
<1>3. \A l \in DOMAIN lines : lines[l].input # point /\ lines[l].output # point
  BY <1>1 DEF PointIsUsed
<1>4. Distinct(lines')
  BY <1>1, <1>3 DEF Sound, Distinct, NewLine
<1> QED BY <1>1, <1>2, <1>4 DEF Sound

LEMMA ChangedIsSound ==
  ASSUME Sound(lines), NEW l, NEW enabled, Changed(l, enabled)
  PROVE  Sound(lines')
<1>1. /\ l \in DOMAIN lines
      /\ lines' = [lines EXCEPT ![l] = [lines[l] EXCEPT !.enabled = enabled]]
  BY DEF Changed
<1>2. [lines[l] EXCEPT !.enabled = enabled] =
        [enabled |-> enabled, input |-> lines[l].input, output |-> lines[l].output, tested |-> lines[l].tested]
  BY <1>1 DEF Sound, HasFields
<1>3. \A k \in DOMAIN lines' : HasFields(lines'[k])
  BY <1>1, <1>2 DEF Sound, HasFields
<1>4. \A k \in DOMAIN lines : lines'[k].input = lines[k].input /\ lines'[k].output = lines[k].output
  BY <1>1, <1>2
<1>5. DOMAIN lines' = DOMAIN lines /\ lines' = [k \in DOMAIN lines' |-> lines'[k]]
  BY <1>1
<1>6. Distinct(lines')
  BY <1>4, <1>5 DEF Sound, Distinct
<1> QED BY <1>3, <1>5, <1>6 DEF Sound

LEMMA TestedIsSound ==
  ASSUME Sound(lines), NEW test
  PROVE  Sound(Tested(test))
<1>1. \A l \in DOMAIN lines : \A v :
        [lines[l] EXCEPT !.tested = v] =
          [enabled |-> lines[l].enabled, input |-> lines[l].input, output |-> lines[l].output, tested |-> v]
  BY DEF Sound, HasFields
<1>2. CASE test.kind # "Functional"
  BY <1>2 DEF Tested
<1>3. CASE test.kind = "Functional"
  <2>1. Tested(test) = [l \in DOMAIN lines |->
          IF lines[l].enabled THEN [lines[l] EXCEPT !.tested = Verdict(l, test)] ELSE lines[l]]
    BY <1>3 DEF Tested
  <2>2. \A l \in DOMAIN lines : /\ HasFields(Tested(test)[l])
                                /\ Tested(test)[l].input = lines[l].input
                                /\ Tested(test)[l].output = lines[l].output
    BY <1>1, <2>1 DEF Sound, HasFields
  <2> QED BY <2>1, <2>2 DEF Sound, Distinct
<1> QED BY <1>2, <1>3

SoundInv == Sound(lines) /\ Sound(linesFile)

LEMMA SoundInit == Init => SoundInv
<1> SUFFICES ASSUME Init PROVE SoundInv
  OBVIOUS
<1>1. Sound(linesFile)
  <2>1. PICK L \in SUBSET Indexes : linesFile \in [L -> Line]
    BY FilesAssumption DEF Init
  <2>2. \A l \in DOMAIN linesFile : HasFields(linesFile[l])
    BY <2>1 DEF Line, HasFields
  <2> QED BY <2>1, <2>2, FilesAssumption DEF Init, Sound
<1> QED BY <1>1, LoadedIsSound DEF Init, SoundInv

LEMMA SoundStep ==
  ASSUME SoundInv, [Next]_vars
  PROVE  SoundInv'
<1> USE DEF SoundInv
<1>1. ASSUME NEW ok \in BOOLEAN, AddLine(ok) PROVE SoundInv'
  BY <1>1, AddedIsSound DEF AddLine, SavedOrUnnoticed, LinesSaved
<1>2. ASSUME NEW ok \in BOOLEAN, SaveLines(ok) PROVE SoundInv'
  BY <1>2 DEF SaveLines, LinesSaved
<1>3. ASSUME NEW l \in Indexes, NEW ok \in BOOLEAN, RemoveLine(l, ok) PROVE SoundInv'
  <2>1. Sound(lines')
    BY <1>3 DEF RemoveLine, Sound, Distinct
  <2> QED BY <1>3, <2>1 DEF RemoveLine, RemovedAndSaved, SavedOrUnnoticed, LinesSaved
<1>4. ASSUME NEW l \in Indexes, NEW enabled \in BOOLEAN, UpdateLine(l, enabled) PROVE SoundInv'
  BY <1>4, ChangedIsSound DEF UpdateLine
<1>5. ASSUME NEW l \in Indexes, NEW enabled \in BOOLEAN, NEW ok \in BOOLEAN, UpdateAndSaveLine(l, enabled, ok)
      PROVE  SoundInv'
  BY <1>5, ChangedIsSound DEF UpdateAndSaveLine, LinesSaved
<1>6. CASE Edits
  BY <1>1, <1>2, <1>3, <1>4, <1>5, <1>6 DEF Edits
<1>7. CASE Ticks
  <2>1. CASE Tick
    BY <2>1 DEF Tick, files
  <2>2. ASSUME NEW test \in EndedTests, NEW journalOk \in BOOLEAN, NEW saveOk \in BOOLEAN,
               TestEnds(test, journalOk, saveOk)
        PROVE  SoundInv'
    BY <2>2, TestedIsSound DEF TestEnds, Persist, ResultsSaved, LinesSaved, files
  <2> QED BY <1>7, <2>1, <2>2 DEF Ticks
<1>8. ASSUME NEW linesReadable \in BOOLEAN, NEW journalReadable \in BOOLEAN, NEW trimOk \in BOOLEAN,
             NEW recoverOk \in BOOLEAN, Restart(linesReadable, journalReadable, trimOk, recoverOk)
      PROVE  SoundInv'
  BY <1>8, LoadedIsSound, DefaultLinesAreSound DEF Restart
<1>9. CASE AdvanceClock \/ (\E t \in 0..MaxTime : SetSystemTime(t)) \/ UNCHANGED vars
  BY <1>9 DEF AdvanceClock, SetSystemTime, vars, files
<1> QED BY <1>6, <1>7, <1>8, <1>9 DEF Next

\* No two lines ever share a relay or an input.
THEOREM PointsStayDistinct == Spec => []PointsDistinct
<1>1. SoundInv => PointsDistinct
  BY DEF SoundInv, Sound, PointsDistinct
<1> QED BY <1>1, SoundInit, SoundStep, PTL DEF Spec
-----------------------------------------------------------------------------
(* The failures of tests.                                                  *)

CountsShape ==
  /\ counts = [tests |-> counts.tests, edits |-> counts.edits, fileErrors |-> counts.fileErrors,
               clockChanges |-> counts.clockChanges]
  /\ counts.fileErrors \in Nat

\* As long as no file failed, the memory and the file have each failure, and so
\* has the cache unless it is dirty.
FailuresAreKept ==
  /\ \A l \in failed : l \in DOMAIN lines /\ lines[l].tested.status = "Failed"
  /\ \A l \in failed : l \in DOMAIN linesFile /\ linesFile[l].tested.status = "Failed"
  /\ nextCheck # Dirty => maintenance.failed = FailedLines(lines)

FailureInv == CountsShape /\ (counts.fileErrors = 0 => FailuresAreKept)

\* What is counted as once without a file's error had none.
LEMMA CountWriteStep ==
  ASSUME CountsShape, NEW what \in {"tests", "edits"}, NEW ok \in BOOLEAN, CountWrite(what, ok)
  PROVE  CountsShape' /\ (counts'.fileErrors = 0 => ok /\ counts.fileErrors = 0)
<1>1. CASE ok
  BY <1>1 DEF CountWrite, CountsShape
<1>2. CASE ~ok
  <2>1. counts' = [counts EXCEPT ![what] = @ + 1, !.fileErrors = @ + 1]
    BY <1>2 DEF CountWrite
  <2>2. counts'.fileErrors = counts.fileErrors + 1
    BY <2>1 DEF CountsShape
  <2>3. counts' = [tests |-> counts'.tests, edits |-> counts'.edits, fileErrors |-> counts'.fileErrors,
                   clockChanges |-> counts'.clockChanges]
    BY <2>1 DEF CountsShape
  <2> QED BY <2>2, <2>3 DEF CountsShape
<1> QED BY <1>1, <1>2

\* An edit that is saved and marked leaves only the lines to be looked at.
LEMMA SavedStep ==
  ASSUME linesFile' = lines', nextCheck' = Dirty,
         \A l \in failed' : l \in DOMAIN lines' /\ lines'[l].tested.status = "Failed"
  PROVE  FailuresAreKept'
  BY DEF FailuresAreKept

LEMMA EditStep ==
  ASSUME SoundInv, FailureInv, Edits
  PROVE  FailureInv'
<1> USE DEF FailureInv
<1>1. ASSUME NEW ok \in BOOLEAN, AddLine(ok) PROVE FailureInv'
  <2>1. CountsShape' /\ (counts'.fileErrors = 0 => ok /\ counts.fileErrors = 0)
    BY <1>1, CountWriteStep DEF AddLine, Edit
  <2>2. ASSUME ok, FailuresAreKept PROVE FailuresAreKept'
    <3>1. linesFile' = lines' /\ nextCheck' = Dirty
      BY <1>1, <2>2 DEF AddLine, SavedOrUnnoticed, LinesSaved, MarkDirty
    <3>2. \A l \in failed' : l \in failed /\ l \in DOMAIN lines' /\ lines'[l] = lines[l]
      BY <1>1, <2>2 DEF AddLine, FailuresAreKept
    <3> QED BY <2>2, <3>1, <3>2, SavedStep DEF FailuresAreKept
  <2> QED BY <2>1, <2>2
<1>2. ASSUME NEW ok \in BOOLEAN, SaveLines(ok) PROVE FailureInv'
  <2>1. CountsShape' /\ (counts'.fileErrors = 0 => ok /\ counts.fileErrors = 0)
    BY <1>2, CountWriteStep DEF SaveLines, Edit
  <2>2. ASSUME ok, FailuresAreKept PROVE FailuresAreKept'
    BY <1>2, <2>2 DEF SaveLines, Edit, LinesSaved, FailuresAreKept, FailedLines, EnabledLines
  <2> QED BY <2>1, <2>2
<1>3. ASSUME NEW l \in Indexes, NEW ok \in BOOLEAN, RemoveLine(l, ok) PROVE FailureInv'
  <2>1. CountsShape' /\ (counts'.fileErrors = 0 => ok /\ counts.fileErrors = 0)
    BY <1>3, CountWriteStep DEF RemoveLine, Edit
  <2>2. ASSUME ok, FailuresAreKept PROVE FailuresAreKept'
    <3>1. linesFile' = lines' /\ nextCheck' = Dirty
      BY <1>3, <2>2 DEF RemoveLine, RemovedAndSaved, SavedOrUnnoticed, LinesSaved, MarkDirty
    <3>2. \A k \in failed' : k \in failed /\ k \in DOMAIN lines' /\ lines'[k] = lines[k]
      BY <1>3, <2>2 DEF RemoveLine, FailuresAreKept
    <3> QED BY <2>2, <3>1, <3>2, SavedStep DEF FailuresAreKept
  <2> QED BY <2>1, <2>2
<1>4. ASSUME NEW l \in Indexes, NEW enabled \in BOOLEAN, Changed(l, enabled), FailuresAreKept
      PROVE  /\ nextCheck' = Dirty /\ failed' = failed
             /\ \A k \in failed' : k \in DOMAIN lines' /\ lines'[k].tested.status = "Failed"
  <2>1. [lines[l] EXCEPT !.enabled = enabled].tested = lines[l].tested
    BY <1>4 DEF Changed, SoundInv, Sound, HasFields
  <2>2. lines' = [lines EXCEPT ![l] = [lines[l] EXCEPT !.enabled = enabled]]
    BY <1>4 DEF Changed
  <2> QED BY <1>4, <2>1, <2>2 DEF Changed, MarkDirty, FailuresAreKept
<1>5. ASSUME NEW l \in Indexes, NEW enabled \in BOOLEAN, UpdateLine(l, enabled) PROVE FailureInv'
  <2>1. CountsShape' /\ (counts'.fileErrors = 0 => counts.fileErrors = 0)
    BY <1>5, CountWriteStep DEF UpdateLine, Edit
  <2>2. ASSUME FailuresAreKept PROVE FailuresAreKept'
    <3>1. linesFile' = linesFile
      BY <1>5 DEF UpdateLine
    <3> QED BY <1>4, <1>5, <2>2, <3>1 DEF UpdateLine, FailuresAreKept
  <2> QED BY <2>1, <2>2
<1>6. ASSUME NEW l \in Indexes, NEW enabled \in BOOLEAN, NEW ok \in BOOLEAN, UpdateAndSaveLine(l, enabled, ok)
      PROVE  FailureInv'
  <2>1. CountsShape' /\ (counts'.fileErrors = 0 => ok /\ counts.fileErrors = 0)
    BY <1>6, CountWriteStep DEF UpdateAndSaveLine, Edit
  <2>2. ASSUME ok, FailuresAreKept PROVE FailuresAreKept'
    <3>1. linesFile' = lines'
      BY <1>6, <2>2 DEF UpdateAndSaveLine, LinesSaved
    <3> QED BY <1>4, <1>6, <2>2, <3>1, SavedStep DEF UpdateAndSaveLine
  <2> QED BY <2>1, <2>2
<1> QED BY <1>1, <1>2, <1>3, <1>5, <1>6 DEF Edits

\* A test's failures reach the lines, the file and the check together.
LEMMA TestEndsStep ==
  ASSUME SoundInv, FailureInv, NEW test \in EndedTests, NEW journalOk \in BOOLEAN, NEW saveOk \in BOOLEAN,
         TestEnds(test, journalOk, saveOk)
  PROVE  FailureInv'
<1>1. CountsShape' /\ (counts'.fileErrors = 0 => journalOk /\ saveOk /\ counts.fileErrors = 0)
  BY CountWriteStep DEF TestEnds, Persist, FailureInv
<1>2. ASSUME journalOk, saveOk, FailuresAreKept PROVE FailuresAreKept'
  <2>1. /\ lines' = Tested(test)
        /\ linesFile' = lines'
        /\ failed' = IF test.kind = "Functional" THEN (failed \ EnabledLines(lines)) \cup test.failed ELSE failed
    BY <1>2 DEF TestEnds, Persist, ResultsSaved, LinesSaved
  <2>2. maintenance'.failed = FailedLines(lines')
    BY <1>2, <2>1 DEF TestEnds, Check, CheckIsDue, Maintenance
  <2>3. \A l \in failed' : l \in DOMAIN lines' /\ lines'[l].tested.status = "Failed"
    <3>1. CASE test.kind # "Functional"
      BY <1>2, <2>1, <3>1 DEF Tested, FailuresAreKept
    <3>2. CASE test.kind = "Functional"
      <4>1. lines' = [l \in DOMAIN lines |->
                        IF lines[l].enabled THEN [lines[l] EXCEPT !.tested = Verdict(l, test)] ELSE lines[l]]
        BY <2>1, <3>2 DEF Tested
      <4>2. test.failed \subseteq EnabledLines(lines)
        BY <3>2 DEF EndedTests, CutTest
      <4>3. \A l \in test.failed : l \in DOMAIN lines /\ lines'[l].tested = Verdict(l, test)
        BY <4>1, <4>2 DEF EnabledLines, SoundInv, Sound, HasFields
      <4>4. \A l \in test.failed : lines'[l].tested.status = "Failed"
        <5>1. \A l \in test.failed : Verdict(l, test).status = "Failed"
          BY DEF Verdict
        <5> QED BY <4>3, <5>1
      <4>5. \A l \in failed \ EnabledLines(lines) : l \in DOMAIN lines /\ lines'[l] = lines[l]
        BY <1>2, <4>1 DEF EnabledLines, FailuresAreKept
      <4> QED BY <1>2, <2>1, <3>2, <4>1, <4>3, <4>4, <4>5 DEF FailuresAreKept
    <3> QED BY <3>1, <3>2
  <2> QED BY <2>1, <2>2, <2>3 DEF FailuresAreKept
<1> QED BY <1>1, <1>2 DEF FailureInv

LEMMA TickStep ==
  ASSUME FailureInv, Tick
  PROVE  FailureInv'
<1>1. UNCHANGED <<lines, linesFile, failed, counts>>
  BY DEF Tick, files
<1>2. Tested(NoTest) = lines
  BY DEF Tested, NoTest
<1>3. CASE CheckIsDue(FALSE)
  <2>1. maintenance'.failed = FailedLines(lines)
    BY <1>2, <1>3 DEF Tick, Check, Maintenance
  <2> QED BY <1>1, <2>1 DEF FailureInv, CountsShape, FailuresAreKept, FailedLines, EnabledLines
<1>4. CASE ~CheckIsDue(FALSE)
  <2>1. maintenance' = maintenance /\ nextCheck' = nextCheck
    BY <1>4 DEF Tick, Check
  <2> QED BY <1>1, <2>1 DEF FailureInv, CountsShape, FailuresAreKept, FailedLines, EnabledLines
<1> QED BY <1>3, <1>4

\* A restart reads the failures back from the file.
LEMMA RestartStep ==
  ASSUME FailureInv, NEW linesReadable \in BOOLEAN, NEW journalReadable \in BOOLEAN,
         NEW trimOk \in BOOLEAN, NEW recoverOk \in BOOLEAN,
         Restart(linesReadable, journalReadable, trimOk, recoverOk)
  PROVE  FailureInv'
<1>1. CountsShape' /\ (counts'.fileErrors = 0 => linesReadable /\ counts.fileErrors = 0)
  BY CountWriteStep DEF Restart, FailureInv
<1>2. ASSUME linesReadable, FailuresAreKept PROVE FailuresAreKept'
  <2>1. lines' = Loaded(linesFile) /\ linesFile' = linesFile /\ nextCheck' = Dirty /\ failed' \subseteq failed
    BY <1>2 DEF Restart
  <2>2. \A l \in failed : lines' = linesFile
    BY <1>2, <2>1 DEF Loaded, FailuresAreKept
  <2> QED BY <1>2, <2>1, <2>2 DEF FailuresAreKept
<1> QED BY <1>1, <1>2 DEF FailureInv

LEMMA FailureStep ==
  ASSUME SoundInv, FailureInv, [Next]_vars
  PROVE  FailureInv'
<1>1. CASE Ticks
  BY <1>1, TestEndsStep, TickStep DEF Ticks
<1>2. CASE AdvanceClock \/ UNCHANGED vars
  BY <1>2 DEF AdvanceClock, vars, files, FailureInv, CountsShape, FailuresAreKept, FailedLines, EnabledLines
<1>3. ASSUME NEW t \in 0..MaxTime, SetSystemTime(t) PROVE FailureInv'
  <2>1. counts' = [counts EXCEPT !.clockChanges = @ + 1] /\ UNCHANGED <<lines, linesFile, failed, maintenance, nextCheck>>
    BY <1>3 DEF SetSystemTime, Count, files
  <2>2. CountsShape => CountsShape' /\ counts'.fileErrors = counts.fileErrors
    BY <2>1 DEF CountsShape
  <2> QED BY <2>1, <2>2 DEF FailureInv, FailuresAreKept, FailedLines, EnabledLines
<1> QED BY <1>1, <1>2, <1>3, EditStep, RestartStep DEF Next

\* As long as no file failed, every tick shows the failure of an enabled line until
\* the line passes a test or is removed.
THEOREM FailuresStayVisible == Spec => []FailureStaysVisible
<1>1. Init => FailureInv
  BY DEF Init, FailureInv, CountsShape, FailuresAreKept
<1>2. FailureInv => FailureStaysVisible
  <2> SUFFICES ASSUME FailuresAreKept, NEW l \in failed \cap EnabledLines(lines)
               PROVE  l \in Shown.failed
    BY DEF FailureInv, FailureStaysVisible
  <2>1. l \in FailedLines(lines)
    BY DEF FailuresAreKept, FailedLines
  <2> QED BY <2>1 DEF Shown, MaintenanceAt, CheckIsDue, Maintenance, FailuresAreKept
<1> QED BY <1>1, <1>2, FailureStep, SoundInit, SoundStep, PTL DEF Spec
-----------------------------------------------------------------------------
(* The journal.                                                            *)

JournalInv ==
  /\ clock \in 0..MaxTime
  /\ journal \in Seq(Result) /\ Len(journal) <= MaxStoredTestJournalEntries
  /\ journalFile \in Seq(Result)

LEMMA TrimmedShape ==
  ASSUME NEW entries \in Seq(Result)
  PROVE  Trimmed(entries) \in Seq(Result) /\ Len(Trimmed(entries)) <= MaxStoredTestJournalEntries
<1> DEFINE first == Len(entries) - MaxStoredTestJournalEntries + 1
<1>1. Len(entries) \in Nat /\ MaxStoredTestJournalEntries \in Nat \ {0}
  BY LinesAssumption
<1>2. CASE Len(entries) <= MaxStoredTestJournalEntries
  BY <1>2 DEF Trimmed
<1>3. CASE ~(Len(entries) <= MaxStoredTestJournalEntries)
  <2>1. first \in 1..Len(entries) /\ Len(entries) - first + 1 = MaxStoredTestJournalEntries
    BY <1>1, <1>3
  <2>2. Trimmed(entries) = SubSeq(entries, first, Len(entries))
    BY <1>3 DEF Trimmed
  <2> HIDE DEF first
  <2>3. /\ SubSeq(entries, first, Len(entries)) \in Seq(Result)
        /\ Len(SubSeq(entries, first, Len(entries))) = Len(entries) - first + 1
    BY <1>1, <2>1, SubSeqProperties
  <2> QED BY <1>1, <2>1, <2>2, <2>3
<1> QED BY <1>2, <1>3

LEMMA AppendedShape ==
  ASSUME NEW entries \in Seq(Result), NEW r \in Result
  PROVE  /\ Trimmed(Append(entries, r)) \in Seq(Result)
         /\ Len(Trimmed(Append(entries, r))) <= MaxStoredTestJournalEntries
<1>1. Append(entries, r) \in Seq(Result)
  OBVIOUS
<1> QED BY <1>1, TrimmedShape

\* The duration test that counts is one of the journal's, or there is none.
LEMMA LatestType ==
  ASSUME NEW entries \in Seq(Result)
  PROVE  LatestDurationTest(entries) \in Result /\ LatestDurationTest(entries).at \in Int
<1> DEFINE latest == {k \in DOMAIN entries : \A j \in DOMAIN entries : entries[j].at <= entries[k].at}
<1>1. latest \subseteq DOMAIN entries /\ DOMAIN entries \subseteq Nat
  OBVIOUS
<1>2. LatestDurationTest(entries) = IF latest = {} THEN NoResult ELSE entries[Smallest(latest)]
  BY DEF LatestDurationTest
<1> HIDE DEF latest
<1>3. latest # {} => Smallest(latest) \in DOMAIN entries
  <2> SUFFICES ASSUME latest # {} PROVE Smallest(latest) \in DOMAIN entries
    OBVIOUS
  <2>1. latest \subseteq Nat
    BY <1>1
  <2>2. \E i \in latest : \A j \in latest : i <= j
    BY <2>1, LeastElement
  <2> QED BY <1>1, <2>2 DEF Smallest
<1>4. \A k \in DOMAIN entries : entries[k] \in Result
  OBVIOUS
<1>5. LatestDurationTest(entries) \in Result
  BY <1>2, <1>3, <1>4 DEF NoResult, Result
<1>6. \A r \in Result : r.at \in Int
  BY LinesAssumption DEF Result, Never
<1> QED BY <1>5, <1>6

LEMMA JournalInit == Init => JournalInv
<1> SUFFICES ASSUME Init PROVE JournalInv
  OBVIOUS
<1>1. journalFile \in Seq(Result) /\ journal = Trimmed(journalFile)
  BY JournalsAssumption DEF Init
<1>2. clock \in 0..MaxTime
  BY LinesAssumption DEF Init
<1> QED BY <1>1, <1>2, TrimmedShape DEF JournalInv

\* What a start makes of the journal.
LEMMA RecoveredShape ==
  ASSUME JournalInv, NEW readable \in BOOLEAN, NEW trimOk \in BOOLEAN, NEW recoverOk \in BOOLEAN,
         RecoverJournal(readable, trimOk, recoverOk)
  PROVE  /\ journal' \in Seq(Result) /\ Len(journal') <= MaxStoredTestJournalEntries
         /\ journalFile' \in Seq(Result)
<1> DEFINE read == JournalRead(readable)
<1>1. read \in Seq(Result) /\ Len(read) <= MaxStoredTestJournalEntries
  <2>1. <<>> \in Seq(Result) /\ Len(<<>>) <= MaxStoredTestJournalEntries
    BY LinesAssumption
  <2> QED BY <2>1, TrimmedShape DEF JournalRead, JournalInv
<1>2. FileRead(readable, trimOk) \in Seq(Result)
  BY <1>1 DEF FileRead, JournalInv
<1> HIDE DEF read
<1>3. ASSUME NEW test \in InterruptedTests
      PROVE  /\ Recovered(test, recoverOk, read) \in Seq(Result)
             /\ Len(Recovered(test, recoverOk, read)) <= MaxStoredTestJournalEntries
  <2>1. test \in Result
    BY DEF InterruptedTests, Result
  <2> QED BY <1>1, <2>1, AppendedShape DEF Recovered
<1> QED BY <1>1, <1>2, <1>3 DEF RecoverJournal, read

LEMMA JournalStep ==
  ASSUME JournalInv, [Next]_vars
  PROVE  JournalInv'
<1>1. CASE Edits
  <2>1. UNCHANGED <<clock, journal, journalFile>>
    BY <1>1 DEF Edits, AddLine, SaveLines, RemoveLine, UpdateLine, UpdateAndSaveLine, Edit
  <2> QED BY <2>1 DEF JournalInv
<1>2. ASSUME NEW test \in EndedTests, NEW journalOk \in BOOLEAN, NEW saveOk \in BOOLEAN,
             TestEnds(test, journalOk, saveOk)
      PROVE  JournalInv'
  <2>1. DurationResult(test) \in Result
    BY DEF DurationResult, NoResult, Result, JournalInv
  <2>2. /\ journal' = Trimmed(Append(journal, DurationResult(test)))
        /\ journalFile' \in {journalFile, journal'} /\ clock' = clock
    BY <1>2 DEF TestEnds, Persist, files
  <2> QED BY <2>1, <2>2, AppendedShape DEF JournalInv
<1>3. ASSUME NEW linesReadable \in BOOLEAN, NEW journalReadable \in BOOLEAN, NEW trimOk \in BOOLEAN,
             NEW recoverOk \in BOOLEAN, Restart(linesReadable, journalReadable, trimOk, recoverOk)
      PROVE  JournalInv'
  BY <1>3, RecoveredShape DEF Restart, JournalInv
<1>4. CASE AdvanceClock
  BY <1>4, LinesAssumption DEF AdvanceClock, files, JournalInv
<1>5. CASE (\E t \in 0..MaxTime : SetSystemTime(t)) \/ Tick \/ UNCHANGED vars
  BY <1>5 DEF SetSystemTime, Tick, files, vars, JournalInv
<1> QED BY <1>1, <1>2, <1>3, <1>4, <1>5 DEF Next, Ticks
-----------------------------------------------------------------------------
(* The maintenance check.                                                  *)

\* A later time has no smaller quotient.
LEMMA DivMonotone ==
  ASSUME NEW x \in Int, NEW y \in Int, NEW m \in Nat \ {0}, x <= y
  PROVE  x \div m \in Int /\ y \div m \in Int /\ x \div m <= y \div m
<1> DEFINE p == x \div m
           q == y \div m
<1>1. p \in Int /\ x % m \in 0..(m - 1) /\ x = m * p + (x % m)
  OBVIOUS
<1>2. q \in Int /\ y % m \in 0..(m - 1) /\ y = m * q + (y % m)
  OBVIOUS
<1> HIDE DEF p, q
<1>3. SUFFICES ASSUME p >= q + 1 PROVE FALSE
  BY <1>1, <1>2 DEF p, q
<1>4. m * p >= m * (q + 1)
  BY <1>1, <1>2, <1>3
<1>5. m * (q + 1) = m * q + m
  BY <1>2
<1>6. m * p \in Int /\ m * q \in Int
  BY <1>1, <1>2
<1> QED BY <1>1, <1>2, <1>4, <1>5, <1>6

\* What was overdue stays overdue while nothing is tested.
LEMMA OverdueMonotone ==
  ASSUME NEW result, result.at \in Int, NEW limit \in Nat, NEW s \in Int, NEW t \in Int, s <= t,
         IsOverdue(result, limit, s)
  PROVE  IsOverdue(result, limit, t)
<1>1. s \div DayLength \in Int /\ t \div DayLength \in Int /\ s \div DayLength <= t \div DayLength
  BY DivMonotone, LinesAssumption
<1>2. result.at \div DayLength \in Int
  BY LinesAssumption
<1> QED BY <1>1, <1>2 DEF IsOverdue, DaysTo

\* Results have times.
TimesAreNumbers ==
  /\ clock \in Nat
  /\ \A config \in {lines, linesFile} : \A l \in DOMAIN config : config[l].tested.at \in Int

LEMMA DefaultTimes == \A l \in DOMAIN DefaultLines : DefaultLines[l].tested.at \in Int
  BY DEF DefaultLines, NewLine, NoResult, Never

LEMMA TimesInit == Init => TimesAreNumbers
<1> SUFFICES ASSUME Init PROVE TimesAreNumbers
  OBVIOUS
<1>1. \A l \in DOMAIN linesFile : linesFile[l].tested.at \in Int
  <2>1. PICK L \in SUBSET Indexes : linesFile \in [L -> Line]
    BY FilesAssumption DEF Init
  <2>2. \A r \in Result : r.at \in Int
    BY LinesAssumption DEF Result, Never
  <2> QED BY <2>1, <2>2 DEF Line
<1>2. \A l \in DOMAIN lines : lines[l].tested.at \in Int
  BY <1>1, DefaultTimes DEF Init, Loaded
<1> QED BY <1>1, <1>2 DEF Init, TimesAreNumbers

LEMMA TimesStep ==
  ASSUME SoundInv, TimesAreNumbers, [Next]_vars
  PROVE  TimesAreNumbers'
<1> USE DEF TimesAreNumbers
<1>1. CASE Edits
  <2>1. clock' = clock /\ linesFile' \in {linesFile, lines'}
    BY <1>1 DEF Edits, AddLine, SaveLines, RemoveLine, UpdateLine, UpdateAndSaveLine, Edit,
                RemovedAndSaved, SavedOrUnnoticed, LinesSaved
  <2>2. ASSUME NEW ok, AddLine(ok) PROVE \A l \in DOMAIN lines' : lines'[l].tested.at \in Int
    BY <2>2 DEF AddLine, NewLine, NoResult, Never
  <2>3. ASSUME NEW l, NEW enabled, Changed(l, enabled)
        PROVE  \A k \in DOMAIN lines' : lines'[k].tested.at \in Int
    <3>1. [lines[l] EXCEPT !.enabled = enabled].tested = lines[l].tested
      BY <2>3 DEF Changed, SoundInv, Sound, HasFields
    <3> QED BY <2>3, <3>1 DEF Changed
  <2>4. \A l \in DOMAIN lines' : lines'[l].tested.at \in Int
    BY <1>1, <2>2, <2>3 DEF Edits, SaveLines, RemoveLine, UpdateLine, UpdateAndSaveLine
  <2> QED BY <2>1, <2>4
<1>2. ASSUME NEW test \in EndedTests, NEW journalOk \in BOOLEAN, NEW saveOk \in BOOLEAN,
             TestEnds(test, journalOk, saveOk)
      PROVE  TimesAreNumbers'
  <2>1. clock' = clock
        /\ lines' \in {lines, Tested(test)} /\ linesFile' \in {linesFile, lines'}
    BY <1>2 DEF TestEnds, Persist, ResultsSaved, LinesSaved, files
  <2>2. \A l \in DOMAIN lines : Verdict(l, test).at \in Int
    BY DEF Verdict
  <2>3. \A l \in DOMAIN lines : [lines[l] EXCEPT !.tested = Verdict(l, test)].tested = Verdict(l, test)
    BY DEF SoundInv, Sound, HasFields
  <2>4. \A l \in DOMAIN Tested(test) : Tested(test)[l].tested.at \in Int
    BY <2>2, <2>3 DEF Tested
  <2> QED BY <2>1, <2>4
<1>3. CASE Tick \/ UNCHANGED vars
  BY <1>3 DEF Tick, vars, files
<1>4. CASE AdvanceClock \/ \E t \in 0..MaxTime : SetSystemTime(t)
  BY <1>4, LinesAssumption DEF AdvanceClock, SetSystemTime, files
<1>5. ASSUME NEW linesReadable \in BOOLEAN, NEW journalReadable \in BOOLEAN, NEW trimOk \in BOOLEAN,
             NEW recoverOk \in BOOLEAN, Restart(linesReadable, journalReadable, trimOk, recoverOk)
      PROVE  TimesAreNumbers'
  BY <1>5, DefaultTimes DEF Restart, Loaded
<1> QED BY <1>1, <1>2, <1>3, <1>4, <1>5 DEF Next, Ticks

\* The cache was computed at most a day ago, from the lines and the journal there
\* are now.
CacheIsTrue ==
  ~excused /\ nextCheck # Dirty =>
    /\ nextCheck \in Nat
    /\ nextCheck - DayLength <= clock
    /\ maintenance = MaintenanceAt(nextCheck - DayLength)

\* A check made now, of what there is after the step.
LEMMA CheckedNow ==
  ASSUME clock \in Nat, clock' = clock, nextCheck' = clock + DayLength,
         maintenance' = Maintenance(lines', LatestDurationTest(journal'), clock)
  PROVE  CacheIsTrue'
<1>1. nextCheck' \in Nat /\ nextCheck' - DayLength = clock
  BY LinesAssumption
<1> QED BY <1>1 DEF CacheIsTrue, MaintenanceAt

LEMMA CacheStep ==
  ASSUME TimesAreNumbers, CacheIsTrue, [Next]_vars
  PROVE  CacheIsTrue'
<1>1. CASE Edits
  <2>1. nextCheck' = Dirty \/ excused' \/ UNCHANGED <<lines, journal, clock, nextCheck, maintenance, excused>>
    BY <1>1 DEF Edits, AddLine, SaveLines, RemoveLine, UpdateLine, UpdateAndSaveLine, Changed, Edit,
                RemovedAndSaved, SavedOrUnnoticed, MarkDirty
  <2> QED BY <2>1 DEF CacheIsTrue, MaintenanceAt
<1>2. ASSUME NEW test \in EndedTests, NEW journalOk \in BOOLEAN, NEW saveOk \in BOOLEAN,
             TestEnds(test, journalOk, saveOk)
      PROVE  CacheIsTrue'
  <2>1. CASE journalOk
    <3>1. /\ clock' = clock /\ lines' = Tested(test) /\ nextCheck' = clock + DayLength
          /\ maintenance' = Maintenance(Tested(test), LatestDurationTest(journal'), clock)
      BY <1>2, <2>1 DEF TestEnds, Persist, Check, CheckIsDue
    <3> QED BY <3>1, CheckedNow DEF TimesAreNumbers
  <2>2. CASE ~journalOk
    BY <1>2, <2>2 DEF TestEnds, Check, CacheIsTrue
  <2> QED BY <2>1, <2>2
<1>3. CASE Tick
  <2>1. UNCHANGED <<clock, lines, journal>> /\ Tested(NoTest) = lines
    BY <1>3 DEF Tick, files, Tested, NoTest
  <2>2. CASE CheckIsDue(FALSE)
    BY <1>3, <2>1, <2>2, CheckedNow DEF Tick, Check, TimesAreNumbers
  <2>3. CASE ~CheckIsDue(FALSE)
    BY <1>3, <2>1, <2>3 DEF Tick, Check, CacheIsTrue, MaintenanceAt
  <2> QED BY <2>2, <2>3
<1>4. CASE AdvanceClock
  BY <1>4, LinesAssumption DEF AdvanceClock, CacheIsTrue, TimesAreNumbers, MaintenanceAt
<1>5. CASE (\E t \in 0..MaxTime : SetSystemTime(t))
           \/ \E linesReadable, journalReadable, trimOk, recoverOk \in BOOLEAN :
                Restart(linesReadable, journalReadable, trimOk, recoverOk)
  BY <1>5 DEF SetSystemTime, Restart, CacheIsTrue
<1>6. CASE UNCHANGED vars
  BY <1>6 DEF vars, CacheIsTrue, MaintenanceAt
<1> QED BY <1>1, <1>2, <1>3, <1>4, <1>5, <1>6 DEF Next, Ticks

\* What is overdue at one time is overdue at a later one.
LEMMA MaintenanceMonotone ==
  ASSUME TimesAreNumbers, JournalInv, NEW s \in Int, NEW t \in Int, s <= t
  PROVE  /\ MaintenanceAt(s).overdue \subseteq MaintenanceAt(t).overdue
         /\ MaintenanceAt(s).longOverdue => MaintenanceAt(t).longOverdue
         /\ MaintenanceAt(s).failed = MaintenanceAt(t).failed
         /\ MaintenanceAt(s).longFailed = MaintenanceAt(t).longFailed
<1> DEFINE long == LatestDurationTest(journal)
<1>1. \A l \in DOMAIN lines : IsOverdue(lines[l].tested, LineLimitDays, s) =>
                              IsOverdue(lines[l].tested, LineLimitDays, t)
  BY OverdueMonotone, LinesAssumption DEF TimesAreNumbers
<1>2. IsOverdue(long, LongTestLimitDays, s) => IsOverdue(long, LongTestLimitDays, t)
  <2>1. long.at \in Int
    BY LatestType DEF JournalInv
  <2> HIDE DEF long
  <2> QED BY <2>1, OverdueMonotone, LinesAssumption
<1> QED BY <1>1, <1>2 DEF MaintenanceAt, Maintenance, Overdue, EnabledLines

\* Unless a write failed or the clock was set back since the last check, what is
\* shown of the maintenance is true of the lines and of the journal as it is after
\* its trims and after what a start recovered; that a line or the long test is
\* overdue is seen a day late at most.
THEOREM MaintenanceStaysCurrent == Spec => []MaintenanceIsCurrent
<1>1. Init => CacheIsTrue
  BY DEF Init, CacheIsTrue
<1>2. TimesAreNumbers /\ JournalInv /\ CacheIsTrue => MaintenanceIsCurrent
  <2> SUFFICES ASSUME TimesAreNumbers, JournalInv, CacheIsTrue, ~excused
               PROVE  MaintenanceIsCurrent
    BY DEF MaintenanceIsCurrent
  <2>1. PICK s \in Int : /\ clock - DayLength <= s /\ s <= clock
                         /\ Shown = MaintenanceAt(s)
    <3>1. CASE CheckIsDue(FALSE)
      <4>1. clock \in Int /\ clock - DayLength <= clock /\ Shown = MaintenanceAt(clock)
        BY <3>1, LinesAssumption DEF Shown, TimesAreNumbers
      <4> QED BY <4>1, LinesAssumption DEF TimesAreNumbers
    <3>2. CASE ~CheckIsDue(FALSE)
      <4>1. nextCheck # Dirty /\ ~(clock >= nextCheck) /\ Shown = maintenance
        BY <3>2 DEF CheckIsDue, Shown
      <4>2. nextCheck \in Nat /\ nextCheck - DayLength <= clock
            /\ Shown = MaintenanceAt(nextCheck - DayLength)
        BY <4>1 DEF CacheIsTrue
      <4>3. nextCheck - DayLength \in Int /\ clock - DayLength <= nextCheck - DayLength
        BY <4>1, <4>2, LinesAssumption DEF TimesAreNumbers
      <4> QED BY <4>2, <4>3
    <3> QED BY <3>1, <3>2
  <2>2. clock \in Int /\ clock - DayLength \in Int
    BY LinesAssumption DEF TimesAreNumbers
  <2> QED BY <2>1, <2>2, MaintenanceMonotone DEF MaintenanceIsCurrent
<1> QED BY <1>1, <1>2, CacheStep, TimesInit, TimesStep, JournalInit, JournalStep, SoundInit, SoundStep,
        PTL DEF Spec
-----------------------------------------------------------------------------
(* Types.                                                                  *)

GoodConfig(config) ==
  DOMAIN config \subseteq Indexes /\ \A l \in DOMAIN config : config[l] \in Line

LineTypes == GoodConfig(lines) /\ GoodConfig(linesFile) /\ failed \subseteq DOMAIN lines

TimeTypes ==
  /\ clock \in 0..MaxTime
  /\ maintenance \in Checks
  /\ nextCheck \in 0..(MaxTime + DayLength) \cup {Dirty}
  /\ excused \in BOOLEAN

LEMMA TypesInParts == TypeOK <=> LineTypes /\ TimeTypes /\ JournalInv
  BY DEF TypeOK, LineTypes, TimeTypes, JournalInv, GoodConfig

LEMMA SmallestType ==
  ASSUME NEW S, S \subseteq Indexes, S # {}
  PROVE  Smallest(S) \in S
<1>1. S \subseteq Nat
  BY DEF Indexes
<1>2. \E i \in S : \A j \in S : i <= j
  BY <1>1, LeastElement
<1> QED BY <1>2 DEF Smallest

\* As long as a line is missing there is an index for a new one.
LEMMA NextIndexIsFree ==
  ASSUME LineTypes, Cardinality(DOMAIN lines) < MaxLines
  PROVE  NextIndex \in Indexes
<1>1. IsFiniteSet(Indexes) /\ Cardinality(Indexes) = MaxLines
  BY FS_Interval, LinesAssumption DEF Indexes
<1>2. Indexes \ DOMAIN lines # {}
  <2> SUFFICES ASSUME DOMAIN lines = Indexes PROVE FALSE
    BY DEF LineTypes, GoodConfig
  <2> QED BY <1>1, LinesAssumption
<1>3. Smallest(Indexes \ DOMAIN lines) \in Indexes
  BY <1>2, SmallestType
<1> QED BY <1>3 DEF NextIndex

LEMMA NextPointType ==
  ASSUME NextIndex \in Indexes
  PROVE  NextPoint \in Points
<1> DEFINE unused == {i \in Indexes : ~PointIsUsed(DefaultPoint(i))}
<1>1. \A i \in Indexes : DefaultPoint(i) \in Points
  BY DEF Points
<1>2. unused # {} => Smallest(unused) \in Indexes
  <2>1. unused \subseteq Indexes
    OBVIOUS
  <2> HIDE DEF unused
  <2> QED BY <2>1, SmallestType
<1>3. NextPoint = IF unused = {} THEN DefaultPoint(NextIndex) ELSE DefaultPoint(Smallest(unused))
  BY DEF NextPoint
<1> HIDE DEF unused
<1> QED BY <1>1, <1>2, <1>3

LEMMA NoResultType == NoResult \in Result
  BY DEF NoResult, Result

LEMMA NewLineType ==
  ASSUME NEW point \in Points
  PROVE  NewLine(point) \in Line
  BY NoResultType DEF NewLine, Line

LEMMA DefaultLinesType == GoodConfig(DefaultLines)
<1>1. \A i \in DOMAIN DefaultLines : i \in Indexes /\ DefaultLines[i] = NewLine(DefaultPoint(i))
  BY LinesAssumption DEF DefaultLines, Indexes
<1>2. \A i \in Indexes : DefaultPoint(i) \in Points
  BY DEF Points
<1> QED BY <1>1, <1>2, NewLineType DEF GoodConfig

LEMMA LoadedType ==
  ASSUME NEW file, GoodConfig(file)
  PROVE  GoodConfig(Loaded(file))
  BY DefaultLinesType DEF Loaded

LEMMA SavedType ==
  ASSUME LineTypes, NEW ok, GoodConfig(lines'), linesFile' \in {linesFile, LinesSaved(ok)},
         failed' \subseteq DOMAIN lines'
  PROVE  LineTypes'
<1>1. linesFile' \in {linesFile, lines'}
  BY DEF LinesSaved
<1>2. GoodConfig(linesFile')
  <2>1. CASE linesFile' = linesFile
    BY <2>1, Zenon DEF LineTypes
  <2>2. CASE linesFile' = lines'
    BY <2>2, Zenon
  <2> QED BY <1>1, <2>1, <2>2
<1> QED BY <1>2 DEF LineTypes, GoodConfig

LEMMA ChangedType ==
  ASSUME LineTypes, NEW l, NEW enabled \in BOOLEAN, Changed(l, enabled)
  PROVE  GoodConfig(lines') /\ failed' \subseteq DOMAIN lines'
<1>1. lines' = [lines EXCEPT ![l] = [lines[l] EXCEPT !.enabled = enabled]] /\ l \in DOMAIN lines
      /\ failed' = failed
  BY DEF Changed
<1>2. [lines[l] EXCEPT !.enabled = enabled] \in Line
  <2>1. lines[l] \in Line
    BY <1>1 DEF LineTypes, GoodConfig
  <2> QED BY <2>1 DEF Line
<1> QED BY <1>1, <1>2 DEF LineTypes, GoodConfig

\* An edit changes the lines and what is known of their failures.
LEMMA EditLineTypes ==
  ASSUME LineTypes, Edits
  PROVE  LineTypes'
<1>1. ASSUME NEW ok \in BOOLEAN, AddLine(ok) PROVE LineTypes'
  <2> DEFINE new == NextIndex
             point == NextPoint
  <2>1. new \in Indexes /\ point \in Points
    BY <1>1, NextIndexIsFree, NextPointType DEF AddLine
  <2>2. /\ lines' = [l \in DOMAIN lines \cup {new} |-> IF l = new THEN NewLine(point) ELSE lines[l]]
        /\ failed' = failed \ {new}
        /\ linesFile' = LinesSaved(ok)
    BY <1>1 DEF AddLine, SavedOrUnnoticed
  <2> HIDE DEF new, point
  <2>3. GoodConfig(lines') /\ failed' \subseteq DOMAIN lines'
    BY <2>1, <2>2, NewLineType DEF LineTypes, GoodConfig
  <2> QED BY <2>2, <2>3, SavedType
<1>2. ASSUME NEW ok \in BOOLEAN, SaveLines(ok) PROVE LineTypes'
  BY <1>2, SavedType DEF SaveLines, LineTypes
<1>3. ASSUME NEW l \in Indexes, NEW ok \in BOOLEAN, RemoveLine(l, ok) PROVE LineTypes'
  <2>1. /\ lines' = [k \in DOMAIN lines \ {l} |-> lines[k]]
        /\ failed' = failed \ {l}
        /\ linesFile' = LinesSaved(ok)
    BY <1>3 DEF RemoveLine, RemovedAndSaved, SavedOrUnnoticed
  <2>2. GoodConfig(lines') /\ failed' \subseteq DOMAIN lines'
    BY <2>1 DEF LineTypes, GoodConfig
  <2> QED BY <2>1, <2>2, SavedType
<1>4. ASSUME NEW l \in Indexes, NEW enabled \in BOOLEAN, UpdateLine(l, enabled) PROVE LineTypes'
  BY <1>4, ChangedType, SavedType DEF UpdateLine
<1>5. ASSUME NEW l \in Indexes, NEW enabled \in BOOLEAN, NEW ok \in BOOLEAN, UpdateAndSaveLine(l, enabled, ok)
      PROVE  LineTypes'
  BY <1>5, ChangedType, SavedType DEF UpdateAndSaveLine
<1> QED BY <1>1, <1>2, <1>3, <1>4, <1>5 DEF Edits

LEMMA VerdictType ==
  ASSUME clock \in 0..MaxTime, NEW l, NEW test
  PROVE  Verdict(l, test) \in Result
  BY DEF Verdict, Result

LEMMA TestedType ==
  ASSUME LineTypes, clock \in 0..MaxTime, NEW test
  PROVE  GoodConfig(Tested(test)) /\ DOMAIN Tested(test) = DOMAIN lines
<1>1. CASE test.kind # "Functional"
  BY <1>1 DEF Tested, LineTypes
<1>2. CASE test.kind = "Functional"
  <2>1. Tested(test) = [l \in DOMAIN lines |->
          IF lines[l].enabled THEN [lines[l] EXCEPT !.tested = Verdict(l, test)] ELSE lines[l]]
    BY <1>2 DEF Tested
  <2>2. \A l \in DOMAIN lines : [lines[l] EXCEPT !.tested = Verdict(l, test)] \in Line
    <3> SUFFICES ASSUME NEW l \in DOMAIN lines, NEW v, v = Verdict(l, test)
                 PROVE  [lines[l] EXCEPT !.tested = v] \in Line
      OBVIOUS
    <3>1. lines[l] \in Line /\ v \in Result
      BY VerdictType DEF LineTypes, GoodConfig
    <3> QED BY <3>1 DEF Line
  <2>3. \A l \in DOMAIN lines : Tested(test)[l] \in Line
    BY <2>1, <2>2 DEF LineTypes, GoodConfig
  <2> QED BY <2>1, <2>3 DEF LineTypes, GoodConfig
<1> QED BY <1>1, <1>2

\* What a tick writes to the lines and the file.
LEMMA TestEndsLineTypes ==
  ASSUME LineTypes, clock \in 0..MaxTime, NEW test \in EndedTests, NEW journalOk \in BOOLEAN,
         NEW saveOk \in BOOLEAN, TestEnds(test, journalOk, saveOk)
  PROVE  LineTypes'
<1>1. CASE journalOk
  <2>1. /\ lines' = Tested(test)
        /\ linesFile' = LinesSaved(saveOk)
        /\ failed' = IF test.kind = "Functional"
                     THEN (failed \ EnabledLines(lines)) \cup test.failed ELSE failed
    BY <1>1 DEF TestEnds, Persist, ResultsSaved
  <2>2. GoodConfig(lines') /\ DOMAIN lines' = DOMAIN lines
    BY <2>1, TestedType
  <2>3. test.kind = "Functional" => test.failed \subseteq DOMAIN lines
    BY DEF EndedTests, CutTest, EnabledLines
  <2>4. failed' \subseteq DOMAIN lines'
    BY <2>1, <2>2, <2>3 DEF LineTypes
  <2> QED BY <2>1, <2>2, <2>4, SavedType
<1>2. CASE ~journalOk
  BY <1>2 DEF TestEnds, Persist, files, LineTypes, GoodConfig
<1> QED BY <1>1, <1>2

LEMMA MaintenanceType ==
  ASSUME NEW ls, GoodConfig(ls), NEW long, NEW now
  PROVE  Maintenance(ls, long, now) \in Checks
  BY DEF GoodConfig, Maintenance, Checks, Overdue, FailedLines, EnabledLines, IsOverdue

\* The check of a tick, from whatever lines it shows.
LEMMA CheckTypes ==
  ASSUME LineTypes, TimeTypes, NEW test, NEW dirty \in BOOLEAN, NEW results \in BOOLEAN,
         Check(test, dirty, results)
  PROVE  /\ maintenance' \in Checks
         /\ nextCheck' \in 0..(MaxTime + DayLength) \cup {Dirty}
         /\ excused' \in BOOLEAN
<1>1. Maintenance(Tested(test), LatestDurationTest(journal'), clock) \in Checks
  BY TestedType, MaintenanceType DEF TimeTypes
<1>2. clock + DayLength \in 0..(MaxTime + DayLength)
  BY LinesAssumption DEF TimeTypes
<1>3. excused' \in BOOLEAN
  BY DEF Check
<1>4. CASE CheckIsDue(dirty)
  BY <1>1, <1>2, <1>3, <1>4 DEF Check
<1>5. CASE ~CheckIsDue(dirty)
  BY <1>3, <1>5 DEF Check, TimeTypes
<1> QED BY <1>4, <1>5

LEMMA TestEndsTimeTypes ==
  ASSUME LineTypes, TimeTypes, NEW test \in EndedTests, NEW journalOk \in BOOLEAN,
         NEW saveOk \in BOOLEAN, TestEnds(test, journalOk, saveOk)
  PROVE  TimeTypes'
<1>1. Check(test, journalOk, TRUE) /\ clock' = clock
  BY DEF TestEnds
<1>2. /\ maintenance' \in Checks
      /\ nextCheck' \in 0..(MaxTime + DayLength) \cup {Dirty}
      /\ excused' \in BOOLEAN
  BY <1>1, CheckTypes
<1> QED BY <1>1, <1>2 DEF TimeTypes

LEMMA EditTimeTypes ==
  ASSUME TimeTypes, Edits
  PROVE  TimeTypes'
<1>1. UNCHANGED <<clock, maintenance>>
  BY DEF Edits, AddLine, SaveLines, RemoveLine, UpdateLine, UpdateAndSaveLine, Edit
<1>2. nextCheck' \in {nextCheck, Dirty} /\ excused' \in {excused, TRUE}
  BY DEF Edits, AddLine, SaveLines, RemoveLine, UpdateLine, UpdateAndSaveLine, Changed,
         RemovedAndSaved, SavedOrUnnoticed, MarkDirty
<1> QED BY <1>1, <1>2 DEF TimeTypes

LEMMA RestartTypes ==
  ASSUME LineTypes, TimeTypes, NEW linesReadable \in BOOLEAN, NEW journalReadable \in BOOLEAN,
         NEW trimOk \in BOOLEAN, NEW recoverOk \in BOOLEAN,
         Restart(linesReadable, journalReadable, trimOk, recoverOk)
  PROVE  LineTypes' /\ TimeTypes'
<1>1. NoMaintenance \in Checks
  BY DEF NoMaintenance, Checks
<1>2. /\ lines' \in {Loaded(linesFile), DefaultLines} /\ linesFile' \in {linesFile, DefaultLines}
      /\ failed' \subseteq DOMAIN lines'
  BY DEF Restart
<1>3. GoodConfig(lines') /\ GoodConfig(linesFile')
  BY <1>2, LoadedType, DefaultLinesType DEF LineTypes
<1>4. clock' = clock /\ maintenance' = NoMaintenance /\ nextCheck' = Dirty /\ excused' = FALSE
  BY DEF Restart
<1>5. TimeTypes'
  BY <1>1, <1>4 DEF TimeTypes
<1> QED BY <1>2, <1>3, <1>5 DEF LineTypes

LEMMA TypeStep ==
  ASSUME LineTypes, TimeTypes, [Next]_vars
  PROVE  LineTypes' /\ TimeTypes'
<1>1. CASE Tick
  <2>1. UNCHANGED <<clock, lines, linesFile, failed>> /\ Check(NoTest, FALSE, FALSE)
    BY <1>1 DEF Tick, files
  <2>2. /\ maintenance' \in Checks
        /\ nextCheck' \in 0..(MaxTime + DayLength) \cup {Dirty}
        /\ excused' \in BOOLEAN
    BY <2>1, CheckTypes
  <2> QED BY <2>1, <2>2 DEF LineTypes, TimeTypes, GoodConfig
<1>2. ASSUME NEW test \in EndedTests, NEW journalOk \in BOOLEAN, NEW saveOk \in BOOLEAN,
             TestEnds(test, journalOk, saveOk)
      PROVE  LineTypes' /\ TimeTypes'
  BY <1>2, TestEndsLineTypes, TestEndsTimeTypes DEF TimeTypes
<1>3. CASE AdvanceClock
  BY <1>3, LinesAssumption DEF AdvanceClock, files, LineTypes, TimeTypes, GoodConfig
<1>4. ASSUME NEW t \in 0..MaxTime, SetSystemTime(t) PROVE LineTypes' /\ TimeTypes'
  BY <1>4 DEF SetSystemTime, files, LineTypes, TimeTypes, GoodConfig
<1>5. CASE UNCHANGED vars
  BY <1>5 DEF vars, LineTypes, TimeTypes, GoodConfig
<1> QED BY <1>1, <1>2, <1>3, <1>4, <1>5, EditLineTypes, EditTimeTypes, RestartTypes DEF Next, Ticks

\* Every variable has its type: every line keeps an index and a point of the
\* cabinet, and whose failure is remembered is a line.
THEOREM TypeCorrect == Spec => []TypeOK
<1>1. Init => LineTypes /\ TimeTypes
  <2> SUFFICES ASSUME Init PROVE LineTypes /\ TimeTypes
    OBVIOUS
  <2>1. GoodConfig(linesFile)
    <3>1. PICK L \in SUBSET Indexes : linesFile \in [L -> Line]
      BY FilesAssumption DEF Init
    <3> QED BY <3>1 DEF GoodConfig
  <2>2. GoodConfig(lines)
    BY <2>1, LoadedType DEF Init
  <2>3. NoMaintenance \in Checks /\ 0 \in 0..MaxTime
    BY LinesAssumption DEF NoMaintenance, Checks
  <2> QED BY <2>1, <2>2, <2>3 DEF Init, LineTypes, TimeTypes
<1> QED BY <1>1, TypeStep, TypesInParts, JournalInit, JournalStep, PTL DEF Spec
=============================================================================
