---------------------------- MODULE TestSchedule ----------------------------
(***************************************************************************)
(* The schedule of tests (src/src/engine/TestScheduleManager.cpp) and the  *)
(* commands that edit it.  Every tick asks the schedule for a test: an     *)
(* entry is due from its planned instant to the end of a window, the first *)
(* entry that is due and was not asked for yet gives the request.  What    *)
(* was asked for is remembered in memory only.                             *)
(*                                                                         *)
(* An instant is a number of steps since the first day; a day has          *)
(* DayLength steps.  The calendar is a constant too, so that a few short   *)
(* months show what addMonths does to the last days of a month.            *)
(***************************************************************************)
EXTENDS Integers, Sequences, SequencesExt, FiniteSetsExt

CONSTANTS
  DayLength, WeekLength,
  MonthStart,       \* the first day of each month, and the day after the last month
  Window,           \* windowSec: how long an entry is due
  DedupeTime,       \* dedupeSec: how far apart two requests of an entry are
  OfferedEntries,   \* the entries an operator may enter
  MaxEntries,       \* bound: how many entries there are at once
  SettableTimes,    \* bound: the instants the operator may set the clock to
  MaxDisturbances,  \* bound: edits, power losses and changes of the clock
  MaxFileErrors     \* bound: files that cannot be read or written

MaxTime == MonthStart[Len(MonthStart)] * DayLength - 1

Months == 1..(Len(MonthStart) - 1)

ASSUME CalendarAssumption ==
  /\ DayLength \in Nat \ {0}
  /\ WeekLength \in Nat \ {0}
  /\ MonthStart \in Seq(Nat)
  /\ Len(MonthStart) > 1
  /\ MonthStart[1] = 0
  /\ \A m \in Months : MonthStart[m] < MonthStart[m + 1]

\* 90 s, 180 s and a day.
ASSUME WindowAssumption ==
  /\ Window \in Nat
  /\ DedupeTime \in Nat
  /\ Window < DedupeTime
  /\ DedupeTime <= DayLength

ASSUME BoundsAssumption ==
  /\ MaxEntries \in Nat
  /\ MaxDisturbances \in Nat
  /\ MaxFileErrors \in Nat

VARIABLES
  clock,       \* the system clock
  running,     \* is the engine running (not in the code)
  entries,     \* m_entries
  last,        \* m_lastPlannedTriggered
  file,        \* the schedule file's entries
  asked,       \* what each entry asked for since its memory was emptied, in order (not in the code)
  forgotten,   \* what each entry asked for before that, up to the present (not in the code)
  calm,        \* steps without an edit, a restart or a change of the clock (not in the code)
  disturbances, fileErrors  \* their numbers so far (not in the code)

history == <<asked, forgotten, calm, disturbances, fileErrors>>
vars    == <<clock, running, entries, last, file, history>>
-----------------------------------------------------------------------------
(* The calendar.                                                           *)

Never == -1

Days == 0..(MonthStart[Len(MonthStart)] - 1)
Instants == 0..MaxTime

Instant(day, time) == day * DayLength + time
DayOf(instant)     == instant \div DayLength
WeekDay(day)       == day % WeekLength

MonthOf(day)    == CHOOSE m \in Months : MonthStart[m] <= day /\ day < MonthStart[m + 1]
DayInMonth(day) == day - MonthStart[MonthOf(day)]

\* QDate::addMonths keeps the day of the month, or takes the month's last day.
AddMonths(day, n) ==
  LET m == MonthOf(day) + n
  IN  MonthStart[m] + Min({DayInMonth(day), MonthStart[m + 1] - MonthStart[m] - 1})

\* monthsForPeriod.
MonthsForPeriod == [Monthly |-> 1, Quarterly |-> 3, HalfYearly |-> 6, Yearly |-> 12]

Periods == {"Once", "Daily", "WeekDays"} \cup DOMAIN MonthsForPeriod

Entry == [enabled : BOOLEAN, period : Periods, startDate : Days, startTime : 0..(DayLength - 1),
          weekDays : SUBSET (0..(WeekLength - 1)), kind : {"Functional", "Duration"}]

ASSUME OfferedEntriesAssumption ==
  /\ OfferedEntries \subseteq Entry
  /\ SettableTimes \subseteq Instants
-----------------------------------------------------------------------------
(* The planned instant that is looked at (buildCandidatePlanned).          *)

DailyCandidate(entry, now) ==
  LET today   == Instant(Max({DayOf(now), entry.startDate}), entry.startTime)
      planned == IF today > now THEN today - DayLength ELSE today
  IN  IF DayOf(planned) < entry.startDate THEN Never ELSE planned

\* Faulty: the day that has not come to its time yet is looked at nevertheless.
WeekDaysOfToday(entry, now) ==
  LET days == {d \in Max({0, DayOf(now) - WeekLength})..DayOf(now) :
                 d >= entry.startDate /\ WeekDay(d) \in entry.weekDays}
  IN  IF days = {} THEN Never ELSE Instant(Max(days), entry.startTime)

\* The last allowed day whose time has come, looked for a week and a day back.
WeekDaysCandidate(entry, now) ==
  LET days == {d \in Max({0, DayOf(now) - WeekLength})..DayOf(now) :
                 /\ d >= entry.startDate
                 /\ WeekDay(d) \in entry.weekDays
                 /\ Instant(d, entry.startTime) <= now}
  IN  IF days = {} THEN Never ELSE Instant(Max(days), entry.startTime)

\* A whole number of periods after the start; one period less, counted from
\* the day found, if that has not come yet.
MonthsCandidate(entry, now) ==
  LET step == MonthsForPeriod[entry.period]
      base == Instant(entry.startDate, entry.startTime)
      diff == MonthOf(DayOf(now)) - MonthOf(entry.startDate)
      day  == AddMonths(entry.startDate, (diff \div step) * step)
      back == IF Instant(day, entry.startTime) > now THEN AddMonths(day, -step) ELSE day
  IN  IF now < base THEN Never ELSE Max({base, Instant(back, entry.startTime)})

Candidate(entry, now) ==
  CASE entry.period = "Once"     -> Instant(entry.startDate, entry.startTime)
    [] entry.period = "Daily"    -> DailyCandidate(entry, now)
    [] entry.period = "WeekDays" -> WeekDaysCandidate(entry, now)
    [] OTHER                     -> MonthsCandidate(entry, now)
-----------------------------------------------------------------------------
(* One call of evaluate().                                                 *)

InWindow(planned, now) == planned # Never /\ planned <= now /\ now <= planned + Window

\* Faulty: any other instant is asked for, a day the clock went back over too.
EligibleUnlessSame(i) ==
  LET planned == Candidate(entries[i], clock)
  IN  /\ entries[i].enabled
      /\ InWindow(planned, clock)
      /\ last[i] # planned

\* The memory says neither that the instant was asked for nor that another of
\* the entry is less than DedupeTime ago, or still to come.
Eligible(i) ==
  LET planned == Candidate(entries[i], clock)
  IN  /\ entries[i].enabled
      /\ InWindow(planned, clock)
      /\ \/ last[i] = Never
         \/ last[i] # planned /\ clock - last[i] >= DedupeTime

EligibleEntries == {i \in DOMAIN entries : Eligible(i)}

\* Faulty: all entries that are due are taken, and only the first is asked for.
RememberAll(planned) ==
  [i \in DOMAIN last |-> IF i \in EligibleEntries THEN planned ELSE last[i]]

Remember(planned) == [last EXCEPT ![Min(EligibleEntries)] = planned]

\* The first entry that is due is asked for, and no other.
Evaluate ==
  /\ running
  /\ EligibleEntries # {}
  /\ LET first   == Min(EligibleEntries)
         planned == Candidate(entries[first], clock)
     IN  /\ last' = Remember(planned)
         /\ asked' = [asked EXCEPT ![first] = Append(@, planned)]
  /\ UNCHANGED <<clock, running, entries, file, forgotten, calm, disturbances, fileErrors>>
-----------------------------------------------------------------------------
(* Edits by the panel and the web page.  A change stays in memory if the   *)
(* file cannot be written; the client is told.                             *)

\* Faulty: the memory keeps the places of the entries there were.
ForgottenInPlace(es) == [i \in DOMAIN last |-> Never]

Forgotten(es) == [i \in DOMAIN es |-> Never]
NotAsked(es)  == [i \in DOMAIN es |-> <<>>]

\* The past requests of each entry, when its memory is emptied.
Forgets ==
  [i \in DOMAIN entries |-> {p \in forgotten[i] \cup ToSet(asked[i]) : p <= clock}]

\* Those of the entries that stay.
ForgottenOf(es) ==
  [i \in DOMAIN es |->
     IF i \in DOMAIN entries /\ es[i] = entries[i] THEN Forgets[i] ELSE {}]

Disturbed ==
  /\ disturbances < MaxDisturbances
  /\ disturbances' = disturbances + 1
  /\ calm' = 0

Saved(es, ok) ==
  /\ file' = IF ok THEN es ELSE file
  /\ ok \/ fileErrors < MaxFileErrors
  /\ fileErrors' = IF ok THEN fileErrors ELSE fileErrors + 1

Edit(es, ok) ==
  /\ running
  /\ entries' = es
  /\ Saved(es, ok)
  /\ Disturbed
  /\ UNCHANGED <<clock, running>>

\* A new entry empties the memory of all entries.
AddEntry(entry, ok) ==
  /\ Len(entries) < MaxEntries
  /\ Edit(Append(entries, entry), ok)
  /\ last' = Forgotten(entries')
  /\ asked' = NotAsked(entries')
  /\ forgotten' = ForgottenOf(entries')

\* Faulty: the entry's memory survives the edit.
MemoryAfterUpdate(i) == last

MemoryWithout(i) == [last EXCEPT ![i] = Never]

UpdateEntry(i, entry, ok) ==
  /\ i \in DOMAIN entries
  /\ Edit([entries EXCEPT ![i] = entry], ok)
  /\ last' = MemoryWithout(i)
  /\ asked' = [asked EXCEPT ![i] = <<>>]
  /\ forgotten' = [forgotten EXCEPT ![i] = {}]

\* So does one entry less.
RemoveEntry(i, ok) ==
  /\ i \in DOMAIN entries
  /\ Edit(RemoveAt(entries, i), ok)
  /\ last' = Forgotten(entries')
  /\ asked' = NotAsked(entries')
  /\ forgotten' = RemoveAt(Forgets, i)

Edits == \E ok \in BOOLEAN :
  \/ \E entry \in OfferedEntries : AddEntry(entry, ok)
  \/ \E i \in 1..MaxEntries :
       \/ \E entry \in OfferedEntries : UpdateEntry(i, entry, ok)
       \/ RemoveEntry(i, ok)
-----------------------------------------------------------------------------
(* Start, power loss, clock.                                               *)

PowerLoss ==
  /\ running
  /\ running' = FALSE
  /\ Disturbed
  /\ UNCHANGED <<clock, entries, last, file, asked, forgotten, fileErrors>>

\* A file that cannot be read is replaced by an empty schedule.
Start(readable) ==
  /\ ~running
  /\ readable \/ fileErrors < MaxFileErrors
  /\ fileErrors' = IF readable THEN fileErrors ELSE fileErrors + 1
  /\ running' = TRUE
  /\ entries' = IF readable THEN file ELSE <<>>
  /\ file' = entries'
  /\ last' = Forgotten(entries')
  /\ asked' = NotAsked(entries')
  /\ forgotten' = ForgottenOf(entries')
  /\ calm' = 0
  /\ UNCHANGED <<clock, disturbances>>

SetSystemTime(t) ==
  /\ running
  /\ t # clock
  /\ clock' = t
  /\ forgotten' = [i \in DOMAIN entries |-> {p \in forgotten[i] : p <= t}]
  /\ Disturbed
  /\ UNCHANGED <<running, entries, last, file, asked, fileErrors>>

\* A step of the clock holds many ticks: while the engine runs, each entry that
\* is due has been asked for before the next one.
AdvanceClock ==
  /\ clock < MaxTime
  /\ running => EligibleEntries = {}
  /\ clock' = clock + 1
  /\ calm' = IF calm <= Window THEN calm + 1 ELSE calm
  /\ UNCHANGED <<running, entries, last, file, asked, forgotten, disturbances, fileErrors>>

Init ==
  /\ clock \in SettableTimes
  /\ running = TRUE
  /\ entries \in UNION {[1..n -> OfferedEntries] : n \in 0..MaxEntries}
  /\ last = [i \in DOMAIN entries |-> Never]
  /\ file = entries
  /\ asked = NotAsked(entries)
  /\ forgotten = [i \in DOMAIN entries |-> {}]
  /\ calm = 0
  /\ disturbances = 0
  /\ fileErrors = 0

Next ==
  \/ Evaluate
  \/ Edits
  \/ PowerLoss
  \/ \E readable \in BOOLEAN : Start(readable)
  \/ \E t \in SettableTimes : SetSystemTime(t)
  \/ AdvanceClock

Spec == Init /\ [][Next]_vars
-----------------------------------------------------------------------------
(* Properties.                                                             *)

\* Every variable has its type, and the memory has one place for each entry.
TypeOK ==
  /\ clock \in Instants
  /\ running \in BOOLEAN
  /\ entries \in Seq(Entry)
  /\ last \in [DOMAIN entries -> Instants \cup {Never}]
  /\ file \in Seq(Entry)
  /\ asked \in [DOMAIN entries -> Seq(Instants)]
  /\ forgotten \in [DOMAIN entries -> SUBSET Instants]
  /\ calm \in 0..(Window + 1)
  /\ disturbances \in 0..MaxDisturbances
  /\ fileErrors \in 0..MaxFileErrors

\* The instants an entry plans, by what its period means: counted from its
\* start, never from one another.
PlannedDays(entry) ==
  CASE entry.period = "Once"     -> {entry.startDate}
    [] entry.period = "Daily"    -> {d \in Days : d >= entry.startDate}
    [] entry.period = "WeekDays" -> {d \in Days : d >= entry.startDate /\ WeekDay(d) \in entry.weekDays}
    [] OTHER -> {AddMonths(entry.startDate, n * MonthsForPeriod[entry.period]) :
                   n \in {k \in 0..Len(MonthStart) :
                            MonthOf(entry.startDate) + k * MonthsForPeriod[entry.period] \in Months}}

PlannedInstants(entry) == {Instant(d, entry.startTime) : d \in PlannedDays(entry)}

\* A period of months counts back from the day it found, not from the start: a
\* window of such an entry that reaches into the next day may be cut at the end
\* of a month (see README).
WindowMayBeCut(entry) ==
  /\ entry.period \in DOMAIN MonthsForPeriod
  /\ entry.startTime + Window >= DayLength

\* The search finds the planned instant whose window is open now whenever there
\* is one, for every kind of period and every calendar date, at midnight too.
CandidateIsPlanned ==
  \A entry \in OfferedEntries :
    LET due == {p \in PlannedInstants(entry) : InWindow(p, clock)}
        found == Candidate(entry, clock)
    IN  ~WindowMayBeCut(entry) =>
          IF InWindow(found, clock) THEN due = {found} ELSE due = {}

\* An entry's requests move forward in planned time, whatever the clock does.  As
\* long as the entry has its memory no instant is asked for twice, nor one before
\* it.  Adding or removing any entry and a restart empty the memory: the latest
\* instant may then be asked for once more, but still none before it, unless the
\* clock was set back and the instant comes again.
RequestsMoveForward ==
  \A i \in DOMAIN asked :
    /\ \A j, k \in DOMAIN asked[i] : j < k => asked[i][j] < asked[i][k]
    /\ ~WindowMayBeCut(entries[i]) =>
         \A p \in forgotten[i], q \in ToSet(asked[i]) : p <= q

\* The window that a step of the clock closes while the engine runs.
Closed(i) ==
  {p \in PlannedInstants(entries[i]) :
     /\ p + Window = clock
     /\ running
     /\ entries[i].enabled
     /\ ~WindowMayBeCut(entries[i])}

\* A planned instant has been asked for when its window closes, also when entries
\* compete for the same tick and after whatever edits, restarts and changes of the
\* clock, unless the entry already asked for a later one.
DueIsAsked ==
  [][AdvanceClock =>
       \A i \in DOMAIN entries : \A p \in Closed(i) :
         \E q \in ToSet(asked[i]) : q >= p]_vars

\* docs/test-controller.md: when the planned time has come and not more than 90 s
\* have passed, the schedule gives a request; here of a window all of which passed
\* while the engine ran and neither schedule nor clock was touched.  No exception
\* is made for a clock that was wrong before.
DueIsAlwaysAsked ==
  [][AdvanceClock /\ calm >= Window =>
       \A i \in DOMAIN entries : \A p \in Closed(i) : p \in ToSet(asked[i])]_vars
=============================================================================
