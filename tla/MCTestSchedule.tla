--------------------------- MODULE MCTestSchedule ---------------------------
(* A calendar of four short months, and the entries offered: a test every  *)
(* day, on two days of each week, on the last day of the first month and   *)
(* from then on every month or every third, and on a single day.           *)
EXTENDS TestSchedule

ShortMonths == <<0, 2, 3, 5, 6>>

Plan(period, date, time, days) ==
  [enabled |-> TRUE, period |-> period, startDate |-> date, startTime |-> time,
   weekDays |-> days, kind |-> "Functional"]

DailyEntry == Plan("Daily", 1, 2, {})

\* The windows of the days of the week reach into the next day.
Offered == {DailyEntry, Plan("WeekDays", 0, 5, {1, 2}), Plan("Monthly", 1, 2, {}),
            Plan("Quarterly", 1, 2, {}), Plan("Once", 2, 2, {}),
            [DailyEntry EXCEPT !.enabled = FALSE]}

\* Before a window opens, and inside it.
Settable == {Instant(0, 0), Instant(1, 3), Instant(4, 3)}
=============================================================================
