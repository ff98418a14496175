------------------------ MODULE TestControllerProofs ------------------------
(***************************************************************************)
(* What TestController promises for every set of lines, every configured   *)
(* length and every bound.  The invariant Inv is inductive: type           *)
(* correctness gives each entry and each test its shape, the order of the  *)
(* records ties the running test to the last one begun, and that tie is    *)
(* what a completed test's due time is read from.                          *)
(***************************************************************************)
EXTENDS TestController, SequenceTheorems, TLAPS

Inv == TypeOK /\ RecordedInOrder /\ CompletedRanInFull
-----------------------------------------------------------------------------
(* The operators of one call.                                              *)

\* priority(): a number from 1 to 4.
LEMMA PriorityRange ==
  ASSUME NEW t, t.source \in Sources, t.kind \in Kinds
  PROVE  Priority(t) \in 1..4
  BY DEF Priority, Sources, Kinds

\* The requests of a call have a source, a kind and a length.
LEMMA RequestShape ==
  ASSUME NEW in \in Inputs, NEW r \in in.requests
  PROVE  r.source \in Sources /\ r.kind \in Kinds /\ r.seconds \in Nat
  BY ConfigAssumption DEF Inputs, RequestSets, Request

\* highestRequestedTest(): when anything is requested, the result is one of
\* the requests and none is more urgent.
LEMMA HighestRequestedIsHighest ==
  ASSUME NEW in \in Inputs, in.requests # {}
  PROVE  /\ HighestRequested(in) \in in.requests
         /\ \A q \in in.requests : Priority(q) <= Priority(HighestRequested(in))
<1>1. \A q \in in.requests : Priority(q) \in 1..4
  BY RequestShape, PriorityRange
<1>2. \E r \in in.requests : \A q \in in.requests : Priority(q) <= Priority(r)
  <2>1. CASE \E r \in in.requests : Priority(r) = 4
    BY <1>1, <2>1
  <2>2. CASE (\A q \in in.requests : Priority(q) # 4) /\ \E r \in in.requests : Priority(r) = 3
    BY <1>1, <2>2
  <2>3. CASE (\A q \in in.requests : Priority(q) \notin {3, 4}) /\ \E r \in in.requests : Priority(r) = 2
    BY <1>1, <2>3
  <2>4. CASE \A q \in in.requests : Priority(q) \notin {2, 3, 4}
    BY <1>1, <2>4
  <2> QED BY <2>1, <2>2, <2>3, <2>4
<1> QED BY <1>2 DEF HighestRequested

\* startTest(): what a call starts is a test that is not due yet.
LEMMA StartedTestShape ==
  ASSUME NEW in \in Inputs, Starts(in)
  PROVE  /\ StartedTest(HighestRequested(in), in.now) \in Test
         /\ StartedTest(HighestRequested(in), in.now).dueAt > in.now
<1> DEFINE r == HighestRequested(in)
<1>1. r \in in.requests
  BY HighestRequestedIsHighest DEF Starts
<1>2. r.source \in Sources /\ r.kind \in Kinds /\ r.seconds \in Nat
  BY <1>1, RequestShape
<1>3. in.now \in Nat
  BY ConfigAssumption DEF Inputs
<1>4. WaitSeconds(r) \in Nat \ {0}
  BY <1>2, ConfigAssumption DEF WaitSeconds
<1> HIDE DEF r
<1>5. StartedTest(r, in.now) \in Test /\ StartedTest(r, in.now).dueAt > in.now
  BY <1>2, <1>3, <1>4 DEF StartedTest, Test
<1> QED BY <1>5 DEF r

\* No test looks like the absence of one.
LEMMA NoTestIsNoTest == NoTest \notin Test
<1>1. NoTest.source \notin Sources
  BY DEF NoTest, Sources
<1> QED BY <1>1 DEF Test

\* The test that runs after the cuts and the start of a call.
LEMMA RunningShape ==
  ASSUME TypeOK, NEW in \in Inputs
  PROVE  /\ Running(in) \in Test \cup {NoTest}
         /\ Due(in) => Running(in) \in Test
         /\ Starts(in) => ~Due(in)
         /\ Starts(in) => Running(in) \in Test
         /\ Due(in) => Active /\ ~CutShort(in) /\ Running(in) = activeTest
<1>1. CASE Starts(in)
  <2>1. /\ Running(in) \in Test
        /\ Running(in).dueAt > in.now
    BY <1>1, StartedTestShape DEF Running
  <2>2. in.now \in Nat /\ Running(in).dueAt \in Nat
    BY <2>1, ConfigAssumption DEF Inputs, Test
  <2>3. ~Due(in)
    BY <2>1, <2>2 DEF Due
  <2> QED BY <1>1, <2>1, <2>3
<1>2. CASE ~Starts(in)
  BY <1>2 DEF Running, TypeOK, Due, Active
<1> QED BY <1>1, <1>2

\* finishActiveTest(): the entry of a cut test.
LEMMA CutEntryShape ==
  ASSUME TypeOK, NEW in \in Inputs, CutShort(in)
  PROVE  /\ CutEntry(in) \in Entry
         /\ CutEntry(in).status \notin Completions
         /\ Identity(CutEntry(in)) = Identity(activeTest)
<1>1. activeTest \in Test
  BY DEF CutShort, Active, TypeOK
<1>2. in.now \in Nat
  BY ConfigAssumption DEF Inputs
<1>3. Unmeasured \in Measurements
  <2>1. {} \in SUBSET Lines
    OBVIOUS
  <2>2. Unmeasured \in [{} -> Verdicts]
    BY DEF Unmeasured
  <2> QED BY <2>1, <2>2 DEF Measurements
<1>4. CutEntry(in) = [source |-> activeTest.source, kind |-> activeTest.kind,
                      startedAt |-> activeTest.startedAt, finishedAt |-> in.now,
                      status |-> CutEntry(in).status, lines |-> Unmeasured]
  BY DEF CutEntry, EntryOf
<1>5. CutEntry(in).status \in Cuts
  BY DEF CutEntry, EntryOf, Cuts
<1>6. CutEntry(in).status \notin Completions
  BY <1>5 DEF Cuts, Completions
<1>7. CutEntry(in) \in Entry
  BY <1>1, <1>2, <1>3, <1>4, <1>5 DEF Entry, Test
<1> QED BY <1>4, <1>6, <1>7 DEF Identity

\* finishActiveTest() and measureLine(): the entry of a completed test.
LEMMA CompletedEntryShape ==
  ASSUME TypeOK, NEW in \in Inputs, Due(in)
  PROVE  /\ CompletedEntry(in) \in Entry
         /\ CompletedEntry(in).status \in Completions
         /\ CompletedEntry(in).finishedAt = in.now
         /\ Identity(CompletedEntry(in)) = Identity(activeTest)
<1> DEFINE measured == Measured(activeTest.kind, in)
<1>1. activeTest \in Test /\ Running(in) = activeTest
  BY RunningShape
<1>2. in.now \in Nat
  BY ConfigAssumption DEF Inputs
<1>3. measured \in Measurements
  <2> DEFINE measurable == {k \in Lines : in.readings[k] # "Disabled"}
  <2>1. measurable \in SUBSET Lines
    OBVIOUS
  <2>2. measured \in [measurable -> Verdicts]
    BY DEF Measured, Verdicts
  <2> QED BY <2>1, <2>2 DEF Measurements
<1> HIDE DEF measured
<1>4. Verdict(measured) \in Completions
  BY DEF Verdict, Completions
<1>5. CompletedEntry(in) = [source |-> activeTest.source, kind |-> activeTest.kind,
                            startedAt |-> activeTest.startedAt, finishedAt |-> in.now,
                            status |-> Verdict(measured), lines |-> measured]
  BY <1>1 DEF CompletedEntry, EntryOf, measured
<1>6. CompletedEntry(in) \in Entry
  BY <1>1, <1>2, <1>3, <1>4, <1>5 DEF Entry, Test
<1> QED BY <1>4, <1>5, <1>6 DEF Identity

\* A call records nothing, the cut test or the completed one.
LEMMA JournalStep ==
  ASSUME TypeOK, NEW in \in Inputs, Evaluate(in)
  PROVE  /\ CutShort(in) => journal' = Append(journal, CutEntry(in))
         /\ Due(in) => journal' = Append(journal, CompletedEntry(in))
         /\ ~CutShort(in) /\ ~Due(in) => journal' = journal
<1>1. journal \in Seq(Entry)
  BY DEF TypeOK
<1>2. ~(CutShort(in) /\ Due(in))
  BY RunningShape
<1>3. CASE CutShort(in)
  <2>1. NewEntries(in) = <<CutEntry(in)>> \o <<>>
    BY <1>2, <1>3 DEF NewEntries
  <2>2. CutEntry(in) \in Entry
    BY <1>3, CutEntryShape
  <2>3. <<CutEntry(in)>> \in Seq(Entry)
    BY <2>2
  <2>4. NewEntries(in) = <<CutEntry(in)>>
    BY <2>1, <2>3, ConcatEmptySeq
  <2> QED BY <1>1, <1>2, <1>3, <2>2, <2>4, AppendIsConcat DEF Evaluate
<1>4. CASE ~CutShort(in) /\ Due(in)
  <2>1. NewEntries(in) = <<>> \o <<CompletedEntry(in)>>
    BY <1>4 DEF NewEntries
  <2>2. CompletedEntry(in) \in Entry
    BY <1>4, CompletedEntryShape
  <2>3. <<CompletedEntry(in)>> \in Seq(Entry)
    BY <2>2
  <2>4. NewEntries(in) = <<CompletedEntry(in)>>
    BY <2>1, <2>3, ConcatEmptySeq
  <2> QED BY <1>1, <1>4, <2>2, <2>4, AppendIsConcat DEF Evaluate
<1>5. CASE ~CutShort(in) /\ ~Due(in)
  <2>1. NewEntries(in) = <<>> \o <<>>
    BY <1>5 DEF NewEntries
  <2>2. <<>> \in Seq(Entry)
    OBVIOUS
  <2>3. NewEntries(in) = <<>>
    BY <2>1, <2>2, ConcatEmptySeq
  <2> QED BY <1>1, <1>5, <2>3, ConcatEmptySeq DEF Evaluate
<1> QED BY <1>3, <1>4, <1>5
-----------------------------------------------------------------------------
(* The inductive invariant.                                                *)

\* A call of evaluate() keeps every variable in its type.
LEMMA TypeStep ==
  ASSUME TypeOK, NEW in \in Inputs, Evaluate(in)
  PROVE  TypeOK'
<1>1. activeTest' \in Test \cup {NoTest}
  BY RunningShape DEF Evaluate, ActiveAfter
<1>2. journal' \in Seq(Entry)
  <2>1. journal \in Seq(Entry)
    BY DEF TypeOK
  <2>2. CASE CutShort(in)
    BY <2>1, <2>2, JournalStep, CutEntryShape, AppendProperties
  <2>3. CASE Due(in)
    BY <2>1, <2>3, JournalStep, CompletedEntryShape, AppendProperties
  <2>4. CASE ~CutShort(in) /\ ~Due(in)
    BY <2>1, <2>4, JournalStep
  <2> QED BY <2>2, <2>3, <2>4
<1>3. started' \in Seq(Test)
  BY StartedTestShape, AppendProperties DEF Evaluate, TypeOK
<1> QED BY <1>1, <1>2, <1>3 DEF TypeOK

\* What a call does to the running test and to the tests begun.
LEMMA StartedStep ==
  ASSUME TypeOK, NEW in \in Inputs, Evaluate(in)
  PROVE  /\ Starts(in) => /\ Active => CutShort(in)
                          /\ activeTest' \in Test
                          /\ started' = Append(started, activeTest')
         /\ ~Starts(in) => started' = started
         /\ ~Starts(in) /\ (CutShort(in) \/ Due(in)) => activeTest' = NoTest
         /\ ~Starts(in) /\ ~CutShort(in) /\ ~Due(in) => activeTest' = activeTest
<1>1. CASE Starts(in)
  <2>1. activeTest' = StartedTest(HighestRequested(in), in.now)
    BY <1>1, RunningShape DEF Evaluate, ActiveAfter, Running
  <2> QED BY <1>1, <2>1, StartedTestShape DEF Evaluate, Starts
<1>2. CASE ~Starts(in)
  BY <1>2, RunningShape DEF Evaluate, ActiveAfter, Running
<1> QED BY <1>1, <1>2

\* The new entry, if any, is that of the last test begun.
LEMMA InvStep ==
  ASSUME Inv, NEW in \in Inputs, Evaluate(in)
  PROVE  RecordedInOrder' /\ CompletedRanInFull'
<1> USE DEF Inv
<1>1. TypeOK /\ TypeOK'
  BY TypeStep
<1>2. /\ journal \in Seq(Entry) /\ started \in Seq(Test)
      /\ journal' \in Seq(Entry) /\ started' \in Seq(Test)
      /\ Len(journal) \in Nat /\ Len(started) \in Nat
  BY <1>1 DEF TypeOK
<1>3. NoTest \notin Test
  BY NoTestIsNoTest
<1>4. CASE CutShort(in)
  <2>1. /\ Active
        /\ Len(started) = Len(journal) + 1
        /\ activeTest = started[Len(started)]
    BY <1>4 DEF CutShort, RecordedInOrder
  <2>2. /\ Len(journal') = Len(journal) + 1
        /\ \A i \in 1..Len(journal) : journal'[i] = journal[i]
        /\ journal'[Len(journal) + 1] = CutEntry(in)
    <3>1. CutEntry(in) \in Entry /\ journal' = Append(journal, CutEntry(in))
      BY <1>1, <1>4, JournalStep, CutEntryShape
    <3> QED BY <1>2, <3>1, AppendProperties
  <2>3. Identity(CutEntry(in)) = Identity(activeTest) /\ CutEntry(in).status \notin Completions
    BY <1>1, <1>4, CutEntryShape
  <2>4. CASE Starts(in)
    <3>1. /\ activeTest' \in Test
          /\ started' = Append(started, activeTest')
      BY <1>1, <2>4, StartedStep
    <3>2. /\ Len(started') = Len(started) + 1
          /\ \A i \in 1..Len(started) : started'[i] = started[i]
          /\ started'[Len(started) + 1] = activeTest'
      BY <1>2, <3>1, AppendProperties
    <3>3. Active'
      BY <1>3, <3>1 DEF Active
    <3>4. RecordedInOrder'
      BY <1>2, <2>1, <2>2, <2>3, <3>2, <3>3 DEF RecordedInOrder
    <3>5. CompletedRanInFull'
      BY <1>2, <2>1, <2>2, <2>3, <3>2 DEF CompletedRanInFull
    <3> QED BY <3>4, <3>5
  <2>5. CASE ~Starts(in)
    <3>1. started' = started /\ ~Active'
      BY <1>1, <1>4, <2>5, StartedStep DEF Active
    <3>2. RecordedInOrder'
      BY <1>2, <2>1, <2>2, <2>3, <3>1 DEF RecordedInOrder
    <3>3. CompletedRanInFull'
      BY <1>2, <2>1, <2>2, <2>3, <3>1 DEF CompletedRanInFull
    <3> QED BY <3>2, <3>3
  <2> QED BY <2>4, <2>5
<1>5. CASE Due(in)
  <2>1. /\ Active /\ ~CutShort(in) /\ ~Starts(in)
        /\ Running(in) = activeTest /\ in.now >= activeTest.dueAt
    BY <1>1, <1>5, RunningShape DEF Due
  <2>2. /\ Len(started) = Len(journal) + 1
        /\ activeTest = started[Len(started)]
    BY <2>1 DEF RecordedInOrder
  <2>3. /\ Len(journal') = Len(journal) + 1
        /\ \A i \in 1..Len(journal) : journal'[i] = journal[i]
        /\ journal'[Len(journal) + 1] = CompletedEntry(in)
    <3>1. CompletedEntry(in) \in Entry /\ journal' = Append(journal, CompletedEntry(in))
      BY <1>1, <1>5, JournalStep, CompletedEntryShape
    <3> QED BY <1>2, <3>1, AppendProperties
  <2>4. /\ Identity(CompletedEntry(in)) = Identity(activeTest)
        /\ CompletedEntry(in).finishedAt = in.now
    BY <1>1, <1>5, CompletedEntryShape
  <2>5. started' = started /\ ~Active'
    BY <1>1, <1>5, <2>1, StartedStep DEF Active
  <2>6. RecordedInOrder'
    BY <1>2, <2>2, <2>3, <2>4, <2>5 DEF RecordedInOrder
  <2>7. CompletedRanInFull'
    BY <1>2, <2>1, <2>2, <2>3, <2>4, <2>5 DEF CompletedRanInFull
  <2> QED BY <2>6, <2>7
<1>6. CASE ~CutShort(in) /\ ~Due(in)
  <2>1. journal' = journal
    BY <1>1, <1>6, JournalStep
  <2>2. CASE Starts(in)
    <3>1. ~Active /\ Len(started) = Len(journal)
      BY <1>1, <1>6, <2>2, StartedStep DEF RecordedInOrder
    <3>2. /\ activeTest' \in Test
          /\ started' = Append(started, activeTest')
      BY <1>1, <2>2, StartedStep
    <3>3. /\ Len(started') = Len(started) + 1
          /\ \A i \in 1..Len(started) : started'[i] = started[i]
          /\ started'[Len(started) + 1] = activeTest'
      BY <1>2, <3>2, AppendProperties
    <3>4. Active'
      BY <1>3, <3>2 DEF Active
    <3>5. RecordedInOrder'
      BY <1>2, <2>1, <3>1, <3>3, <3>4 DEF RecordedInOrder
    <3>6. CompletedRanInFull'
      BY <1>2, <2>1, <3>1, <3>3 DEF CompletedRanInFull
    <3> QED BY <3>5, <3>6
  <2>3. CASE ~Starts(in)
    <3>1. started' = started /\ activeTest' = activeTest
      BY <1>1, <1>6, <2>3, StartedStep
    <3> QED BY <2>1, <3>1 DEF RecordedInOrder, CompletedRanInFull, Active
  <2> QED BY <2>2, <2>3
<1> QED BY <1>4, <1>5, <1>6

\* The invariant holds at first: no test, no entry.
LEMMA InvInit == Init => Inv
  BY DEF Init, Inv, TypeOK, RecordedInOrder, CompletedRanInFull, Active

\* Every step keeps the invariant.
LEMMA InvNext == Inv /\ [Next]_vars => Inv'
<1> SUFFICES ASSUME Inv, [Next]_vars PROVE Inv'
  OBVIOUS
<1>1. CASE Next
  <2>1. PICK in \in Inputs : Evaluate(in)
    BY <1>1 DEF Next
  <2> QED BY <2>1, TypeStep, InvStep DEF Inv
<1>2. CASE UNCHANGED vars
  BY <1>2 DEF vars, Inv, TypeOK, RecordedInOrder, CompletedRanInFull, Active
<1> QED BY <1>1, <1>2

\* The invariant holds in every state of every behaviour.
THEOREM Invariance == Spec => []Inv
<1>1. Init => Inv
  BY InvInit
<1>2. Inv /\ [Next]_vars => Inv'
  BY InvNext
<1> QED BY <1>1, <1>2, PTL DEF Spec

\* The controller's state keeps its type.
THEOREM TypeCorrect == Spec => []TypeOK
<1>1. Inv => TypeOK
  BY DEF Inv
<1> QED BY <1>1, Invariance, PTL

\* The journal has one entry for each test begun, in order, but for the test
\* that is still running.
THEOREM EveryTestIsRecorded == Spec => []RecordedInOrder
<1>1. Inv => RecordedInOrder
  BY DEF Inv
<1> QED BY <1>1, Invariance, PTL

\* A test recorded as passed or failed ran for its whole waiting time.
THEOREM CompletionIsEarned == Spec => []CompletedRanInFull
<1>1. Inv => CompletedRanInFull
  BY DEF Inv
<1> QED BY <1>1, Invariance, PTL
-----------------------------------------------------------------------------
(* The abstract life cycle.                                                *)

\* priority() is the documented order.
LEMMA PriorityIsRank ==
  ASSUME NEW t, t.source \in Sources, t.kind \in Kinds
  PROVE  Priority(t) = Rank(t)
  BY DEF Priority, Rank, Sources, Kinds

\* The refinement mapping sends a running test to an abstract one.
LEMMA IdentityShape ==
  ASSUME NEW t \in Test
  PROVE  /\ Identity(t) \in IdentitySet
         /\ Identity(t) # NoTest
         /\ Rank(Identity(t)) = Rank(t)
<1>1. t.source \in Sources /\ t.kind \in Kinds /\ t.startedAt \in Nat
  BY DEF Test
<1>2. Identity(t) \in IdentitySet
  BY <1>1 DEF Identity, IdentitySet
<1>3. Identity(t).source # NoTest.source
  BY <1>1 DEF Identity, NoTest, Sources
<1>4. Rank(Identity(t)) = Rank(t)
  BY <1>1 DEF Rank, Identity, Sources, Kinds
<1> QED BY <1>2, <1>3, <1>4

\* One more entry is one more abstract record.
LEMMA RecordsStep ==
  ASSUME TypeOK, NEW e \in Entry, journal' = Append(journal, e)
  PROVE  Records' = Append(Records, RecordOf(e))
<1>1. journal \in Seq(Entry)
  BY DEF TypeOK
<1>2. /\ journal' \in Seq(Entry)
      /\ Len(journal') = Len(journal) + 1
      /\ \A i \in 1..Len(journal) : journal'[i] = journal[i]
      /\ journal'[Len(journal) + 1] = e
  BY <1>1, AppendProperties
<1>3. DOMAIN journal = 1..Len(journal) /\ DOMAIN journal' = 1..Len(journal')
  BY <1>1, <1>2
<1>4. Len(journal) \in Nat
  BY <1>1
<1> DEFINE R == {RecordOf(f) : f \in Entry}
<1>5. Records \in Seq(R) /\ Len(Records) = Len(journal)
  <2>1. Records = [i \in 1..Len(journal) |-> RecordOf(journal[i])]
    BY <1>3 DEF Records
  <2>2. \A i \in 1..Len(journal) : RecordOf(journal[i]) \in R
    BY <1>1
  <2> HIDE DEF R
  <2> QED BY <1>4, <2>1, <2>2
<1>6. RecordOf(e) \in R
  OBVIOUS
<1> HIDE DEF R
<1>7. /\ Append(Records, RecordOf(e)) \in Seq(R)
      /\ Len(Append(Records, RecordOf(e))) = Len(journal) + 1
      /\ \A i \in 1..Len(journal) : Append(Records, RecordOf(e))[i] = Records[i]
      /\ Append(Records, RecordOf(e))[Len(journal) + 1] = RecordOf(e)
  BY <1>5, <1>6, AppendProperties
<1>8. Records' = [i \in 1..Len(journal) + 1 |-> RecordOf(journal'[i])]
  BY <1>2, <1>3 DEF Records
<1>9. Append(Records, RecordOf(e)) = [i \in 1..Len(journal) + 1 |-> Append(Records, RecordOf(e))[i]]
  <2> DEFINE X == Append(Records, RecordOf(e))
  <2>1. X \in Seq(R) /\ Len(X) = Len(journal) + 1
    BY <1>7
  <2> HIDE DEF X
  <2>2. X = [i \in 1..Len(journal) + 1 |-> X[i]]
    BY <2>1
  <2> QED BY <2>2 DEF X
<1>10. \A i \in 1..Len(journal) + 1 : RecordOf(journal'[i]) = Append(Records, RecordOf(e))[i]
  <2> SUFFICES ASSUME NEW i \in 1..Len(journal) + 1
               PROVE  RecordOf(journal'[i]) = Append(Records, RecordOf(e))[i]
    OBVIOUS
  <2>1. CASE i \in 1..Len(journal)
    BY <1>2, <1>3, <1>7, <2>1 DEF Records
  <2>2. CASE i = Len(journal) + 1
    BY <1>2, <1>7, <2>2
  <2>3. i \in 1..Len(journal) \/ i = Len(journal) + 1
    BY <1>4
  <2> QED BY <2>1, <2>2, <2>3
<1> QED BY <1>8, <1>9, <1>10

\* Every call is a step of the abstract specification or leaves it unchanged.
LEMMA LifecycleStep ==
  ASSUME TypeOK, NEW in \in Inputs, Evaluate(in)
  PROVE  [Lifecycle!Next]_(Lifecycle!vars)
<1>1. TypeOK'
  BY TypeStep
<1>2. NoTest \notin Test
  BY NoTestIsNoTest
<1>3. CASE CutShort(in)
  <2>1. activeTest \in Test /\ RunningTest = Identity(activeTest) /\ RunningTest # NoTest
    BY <1>3, IdentityShape DEF CutShort, Active, TypeOK, RunningTest
  <2>2. Records' = Append(Records, [test |-> RunningTest, outcome |-> "CutShort"])
    <3>1. CutEntry(in) \in Entry /\ journal' = Append(journal, CutEntry(in))
      BY <1>3, CutEntryShape, JournalStep
    <3>2. RecordOf(CutEntry(in)) = [test |-> RunningTest, outcome |-> "CutShort"]
      BY <1>3, <2>1, CutEntryShape DEF RecordOf
    <3> QED BY <3>1, <3>2, RecordsStep
  <2>3. CASE Starts(in)
    <3> DEFINE r == HighestRequested(in)
    <3>1. Preempted(in)
      BY <1>3, <2>3 DEF CutShort, Starts
    <3>2. activeTest' = StartedTest(r, in.now) /\ activeTest' \in Test
      BY <2>3, RunningShape, StartedTestShape DEF Evaluate, ActiveAfter, Running
    <3>3. r.source \in Sources /\ r.kind \in Kinds
      BY <2>3, HighestRequestedIsHighest, RequestShape DEF Starts
    <3>4. Rank(activeTest') = Rank(r)
      BY <3>2 DEF StartedTest, Rank
    <3>5. Rank(activeTest') > Rank(activeTest)
      BY <2>1, <3>1, <3>3, <3>4, PriorityIsRank DEF Preempted, Test
    <3>6. RunningTest' = Identity(activeTest')
      BY <1>2, <3>2 DEF RunningTest, Active
    <3>7. RunningTest' \in IdentitySet /\ Rank(RunningTest') > Rank(RunningTest)
      BY <2>1, <3>2, <3>5, <3>6, IdentityShape
    <3>8. Lifecycle!Supersede
      BY <2>1, <2>2, <3>7 DEF Lifecycle!Supersede
    <3> QED BY <3>8 DEF Lifecycle!Next
  <2>4. CASE ~Starts(in)
    <3>1. RunningTest' = NoTest
      BY <1>3, <2>4, StartedStep DEF RunningTest, Active
    <3>2. Lifecycle!End("CutShort")
      BY <2>1, <2>2, <3>1 DEF Lifecycle!End
    <3> QED BY <3>2 DEF Lifecycle!Next, Lifecycle!Outcomes
  <2> QED BY <2>3, <2>4
<1>4. CASE Due(in)
  <2>1. /\ activeTest \in Test /\ RunningTest = Identity(activeTest) /\ RunningTest # NoTest
        /\ ~Starts(in)
    BY <1>4, RunningShape, IdentityShape DEF Active, TypeOK, RunningTest
  <2>2. Records' = Append(Records, [test |-> RunningTest, outcome |-> "Completed"])
    <3>1. CompletedEntry(in) \in Entry /\ journal' = Append(journal, CompletedEntry(in))
      BY <1>4, CompletedEntryShape, JournalStep
    <3>2. RecordOf(CompletedEntry(in)) = [test |-> RunningTest, outcome |-> "Completed"]
      BY <1>4, <2>1, CompletedEntryShape DEF RecordOf
    <3> QED BY <3>1, <3>2, RecordsStep
  <2>3. RunningTest' = NoTest
    BY <1>4, <2>1, StartedStep DEF RunningTest, Active
  <2>4. Lifecycle!End("Completed")
    BY <2>1, <2>2, <2>3 DEF Lifecycle!End
  <2> QED BY <2>4 DEF Lifecycle!Next, Lifecycle!Outcomes
<1>5. CASE ~CutShort(in) /\ ~Due(in)
  <2>1. journal' = journal /\ Records' = Records
    BY <1>5, JournalStep DEF Records
  <2>2. CASE Starts(in)
    <3>1. ~Active /\ activeTest' \in Test
      BY <1>5, <2>2, StartedStep
    <3>2. RunningTest = NoTest /\ RunningTest' = Identity(activeTest')
      BY <1>2, <3>1 DEF RunningTest, Active
    <3>3. Lifecycle!Begin
      BY <2>1, <3>1, <3>2, IdentityShape DEF Lifecycle!Begin
    <3> QED BY <3>3 DEF Lifecycle!Next
  <2>3. CASE ~Starts(in)
    <3>1. RunningTest' = RunningTest
      BY <1>5, <2>3, StartedStep DEF RunningTest, Active
    <3> QED BY <2>1, <3>1 DEF Lifecycle!vars
  <2> QED BY <2>2, <2>3
<1> QED BY <1>3, <1>4, <1>5

\* The controller implements the abstract life cycle: one test at a time, one
\* record each, and none put aside for a less urgent one.
THEOREM ImplementationOfLifecycle == Spec => ImplementsLifecycle
<1>1. Init => Lifecycle!Init
  <2>1. Init => Records = <<>>
    BY DEF Init, Records
  <2> QED BY <2>1 DEF Init, Lifecycle!Init, RunningTest, Active
<1>2. TypeOK /\ [Next]_vars => [Lifecycle!Next]_(Lifecycle!vars)
  <2> SUFFICES ASSUME TypeOK, [Next]_vars PROVE [Lifecycle!Next]_(Lifecycle!vars)
    OBVIOUS
  <2>1. CASE Next
    BY <2>1, LifecycleStep DEF Next
  <2>2. CASE UNCHANGED vars
    BY <2>2 DEF vars, Lifecycle!vars, RunningTest, Records, Active
  <2> QED BY <2>1, <2>2
<1> QED BY <1>1, <1>2, TypeCorrect, PTL DEF Spec, ImplementsLifecycle, Lifecycle!Spec
=============================================================================
