--------------------------- MODULE TestController ---------------------------
(***************************************************************************)
(* The controller of the cabinet's self-tests                              *)
(* (src/src/engine/TestController.cpp).  It is called once per tick of the *)
(* engine with the requests, the blocking inputs and the line readings of  *)
(* that tick; it starts, interrupts, stops and completes one test at a     *)
(* time and writes a journal entry for each.                               *)
(*                                                                         *)
(* A functional test lets the lamps warm up and measures them; a duration  *)
(* test runs the cabinet from its battery for a set time and then measures *)
(* with a wider tolerance.  Times are the seconds of the wall clock that   *)
(* the caller passes in: the controller never reads a clock of its own, so *)
(* the time of a call is an input and may even go back.                    *)
(***************************************************************************)
EXTENDS Integers, Sequences

CONSTANTS
  Lines,                    \* line indexes of the cabinet
  RequestedSeconds,         \* durations a request may carry; 0 means "the default"
  FunctionalWarmupSeconds,  \* TestControllerConfig::functionalWarmupSeconds
  DefaultDurationSeconds,   \* TestControllerConfig::defaultDurationSeconds
  MaxTime,                  \* bound: the last value of the wall clock
  MaxTests                  \* bound: the tests requested in one behaviour

ASSUME ConfigAssumption ==
  /\ RequestedSeconds \subseteq Nat
  /\ FunctionalWarmupSeconds \in Nat \ {0}
  /\ DefaultDurationSeconds \in Nat \ {0}
  /\ MaxTime \in Nat
  /\ MaxTests \in Nat

VARIABLES
  activeTest,  \* m_activeTest
  journal,     \* m_journal
  started      \* history: every test begun, in order (not in the code)

vars == <<activeTest, journal, started>>
-----------------------------------------------------------------------------
(* Requests, tests, journal entries.                                       *)

Sources == {"Manual", "Scheduled"}
Kinds   == {"Functional", "Duration"}

\* The schedule never names a length; the operator's duration test always does.
Request ==
  {r \in [source : Sources, kind : Kinds, seconds : RequestedSeconds] :
     /\ r.source = "Scheduled" => r.seconds = 0
     /\ r.source = "Manual" /\ r.kind = "Duration" => r.seconds > 0}

Test == [source : Sources, kind : Kinds, startedAt : Nat, dueAt : Nat]
NoTest == [source |-> "None", kind |-> "None"]

Completions  == {"Passed", "Failed"}
Cuts         == {"InterruptedByPriority", "StoppedByOperator"}
Verdicts     == {"Passed", "Failed"}
Measurements == UNION {[L -> Verdicts] : L \in SUBSET Lines}
Unmeasured   == [l \in {} |-> "Passed"]

Entry == [source : Sources, kind : Kinds, startedAt : Nat, finishedAt : Nat,
          status : Completions \cup Cuts, lines : Measurements]

\* What the line's power reading says when a test measures it.  "Wide" is
\* outside the line's own tolerance but inside the one of the duration test;
\* a reading that is not a number is "Outside" of both.
Readings == {"Disabled", "Within", "Wide", "Outside"}

\* The schedule asks for at most one test per tick and each slot of
\* TestControllerInputs holds one request.
RequestSets ==
  {R \in SUBSET Request :
     \A p, q \in R : p # q => /\ <<p.source, p.kind>> # <<q.source, q.kind>>
                              /\ ~(p.source = "Scheduled" /\ q.source = "Scheduled")}

Inputs == [now : 0..MaxTime, voltageControlOk : BOOLEAN, fireInputActive : BOOLEAN,
           stopRequested : BOOLEAN, requests : RequestSets, readings : [Lines -> Readings]]
-----------------------------------------------------------------------------
(* Priorities and waiting times.                                           *)

\* Faulty: the kind outweighs the source.
PriorityByKind(t) ==
  (IF t.source = "Manual" THEN 1 ELSE 0) + (IF t.kind = "Duration" THEN 3 ELSE 1)

\* Manual duration 4, manual functional 3, scheduled duration 2, scheduled
\* functional 1.
Priority(t) ==
  (IF t.source = "Manual" THEN 2 ELSE 0) + (IF t.kind = "Duration" THEN 2 ELSE 1)

HighestRequested(in) ==
  CHOOSE r \in in.requests : \A q \in in.requests : Priority(q) <= Priority(r)

WaitSeconds(r) ==
  IF r.seconds > 0 THEN r.seconds
  ELSE IF r.kind = "Duration" THEN DefaultDurationSeconds ELSE FunctionalWarmupSeconds

StartedTest(r, now) ==
  [source |-> r.source, kind |-> r.kind, startedAt |-> now, dueAt |-> now + WaitSeconds(r)]
-----------------------------------------------------------------------------
(* One call of evaluate(): first the running test may be cut short, then a *)
(* requested one may start, then the running one may be due.               *)

Active == activeTest # NoTest

Blocked(in) == ~in.voltageControlOk \/ in.fireInputActive

\* Faulty: an equally urgent request also preempts.
PreemptedByEqual(in) ==
  in.requests # {} /\ Priority(HighestRequested(in)) >= Priority(activeTest)

Preempted(in) ==
  in.requests # {} /\ Priority(HighestRequested(in)) > Priority(activeTest)

CutShort(in) == Active /\ (Blocked(in) \/ Preempted(in) \/ in.stopRequested)

\* Faulty: a fire does not keep a new test from starting.
StartsDespiteFire(in) ==
  /\ in.requests # {}
  /\ ~in.stopRequested /\ in.voltageControlOk
  /\ Active => CutShort(in)

\* Faulty: a stop does not keep a new test from starting.
StartsDespiteStop(in) ==
  /\ in.requests # {}
  /\ ~Blocked(in)
  /\ Active => CutShort(in)

Starts(in) ==
  /\ in.requests # {}
  /\ ~in.stopRequested /\ ~Blocked(in)
  /\ Active => CutShort(in)

Running(in) ==
  IF Starts(in) THEN StartedTest(HighestRequested(in), in.now)
  ELSE IF CutShort(in) THEN NoTest ELSE activeTest

\* Faulty: due one second early.
DueEarly(in) == Running(in) # NoTest /\ in.now + 1 >= Running(in).dueAt

\* Faulty: due in one second only.
DueExactly(in) == Running(in) # NoTest /\ in.now = Running(in).dueAt

Due(in) == Running(in) # NoTest /\ in.now >= Running(in).dueAt
-----------------------------------------------------------------------------
(* The journal.                                                            *)

MeasurementPasses(kind, reading) ==
  reading = "Within" \/ (kind = "Duration" /\ reading = "Wide")

\* Faulty: the lines that are switched off are listed as skipped.
MeasuredOrSkipped(kind, in) ==
  [l \in Lines |->
     CASE in.readings[l] = "Disabled" -> "Skipped"
       [] MeasurementPasses(kind, in.readings[l]) -> "Passed"
       [] OTHER -> "Failed"]

Measured(kind, in) ==
  [l \in {k \in Lines : in.readings[k] # "Disabled"} |->
     IF MeasurementPasses(kind, in.readings[l]) THEN "Passed" ELSE "Failed"]

Verdict(lines) == IF \E l \in DOMAIN lines : lines[l] = "Failed" THEN "Failed" ELSE "Passed"

EntryOf(t, now, status, lines) ==
  [source |-> t.source, kind |-> t.kind, startedAt |-> t.startedAt, finishedAt |-> now,
   status |-> status, lines |-> lines]

\* A cut test was interrupted for priority, unless only the operator's stop
\* ends it; it is not measured.
CutEntry(in) ==
  EntryOf(activeTest, in.now,
          IF Blocked(in) \/ Preempted(in) THEN "InterruptedByPriority" ELSE "StoppedByOperator",
          Unmeasured)

CompletedEntry(in) ==
  LET lines == Measured(Running(in).kind, in)
  IN  EntryOf(Running(in), in.now, Verdict(lines), lines)

\* Faulty: the entry of a test cut short by a more urgent one is lost.
NewEntriesOfEnd(in) ==
  (IF CutShort(in) /\ ~Starts(in) THEN <<CutEntry(in)>> ELSE <<>>)
  \o (IF Due(in) THEN <<CompletedEntry(in)>> ELSE <<>>)

\* newJournalEntries of the result.
NewEntries(in) ==
  (IF CutShort(in) THEN <<CutEntry(in)>> ELSE <<>>)
  \o (IF Due(in) THEN <<CompletedEntry(in)>> ELSE <<>>)
-----------------------------------------------------------------------------
Init ==
  /\ activeTest = NoTest
  /\ journal = <<>>
  /\ started = <<>>

\* m_activeTest when the call returns.
ActiveAfter(in) == IF Due(in) THEN NoTest ELSE Running(in)

Evaluate(in) ==
  /\ activeTest' = ActiveAfter(in)
  /\ journal' = journal \o NewEntries(in)
  /\ started' = IF Starts(in)
                THEN Append(started, StartedTest(HighestRequested(in), in.now))
                ELSE started

Next ==
  \E in \in Inputs : /\ in.requests # {} => Len(started) < MaxTests
                     /\ Evaluate(in)

Spec == Init /\ [][Next]_vars
-----------------------------------------------------------------------------
(* Properties.                                                             *)

\* Every variable has its type: the active test is a test or none, and the
\* journal (m_journal) is a sequence of entries.
TypeOK ==
  /\ activeTest \in Test \cup {NoTest}
  /\ journal \in Seq(Entry)
  /\ started \in Seq(Test)

\* The identity of a test, as its journal entry and its recovery marker
\* carry it.
Identity(t) == [source |-> t.source, kind |-> t.kind, startedAt |-> t.startedAt]

\* Every test begun has exactly one journal entry, in the order the tests
\* began, except the one still running: evaluate() loses none and repeats
\* none when a test is interrupted, preempted, stopped or due, even two of
\* these in the same call.
RecordedInOrder ==
  /\ Len(started) = Len(journal) + (IF Active THEN 1 ELSE 0)
  /\ \A i \in 1..Len(journal) : Identity(journal[i]) = Identity(started[i])
  /\ Active => activeTest = started[Len(started)]

\* A test that the journal calls passed or failed ran, by the clock given to
\* evaluate(), for its whole waiting time: none of the early ends is ever
\* recorded as a completion.
CompletedRanInFull ==
  \A i \in 1..Len(journal) :
    journal[i].status \in Completions => journal[i].finishedAt >= started[i].dueAt

\* The order of priorities the project documents for tests.
Rank(t) ==
  CASE t.source = "Manual"    /\ t.kind = "Duration"   -> 4
    [] t.source = "Manual"    /\ t.kind = "Functional" -> 3
    [] t.source = "Scheduled" /\ t.kind = "Duration"   -> 2
    [] t.source = "Scheduled" /\ t.kind = "Functional" -> 1

\* Refinement mapping: the running test is the active test's identity and
\* the records are the journal's entries.
IdentitySet == [source : Sources, kind : Kinds, startedAt : Nat]
RunningTest == IF Active THEN Identity(activeTest) ELSE NoTest
RecordOf(e) ==
  [test |-> Identity(e),
   outcome |-> IF e.status \in Completions THEN "Completed" ELSE "CutShort"]
Records == [i \in DOMAIN journal |-> RecordOf(journal[i])]

Lifecycle == INSTANCE TestLifecycle
  WITH Tests <- IdentitySet, Urgency <- Rank, NoTest <- NoTest,
       running <- RunningTest, records <- Records

\* evaluate() implements the abstract life cycle of tests: one test at a
\* time, one record for each, and a running test gives way only to one of a
\* higher documented priority.
ImplementsLifecycle == Lifecycle!Spec
=============================================================================
