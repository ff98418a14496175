------------------------- MODULE TestScheduleProofs -------------------------
(***************************************************************************)
(* The search for the planned instant, the requests it leads to, and what  *)
(* was asked for when a window closes: for every calendar, every set of    *)
(* entries, every window and every change of the clock.                    *)
(***************************************************************************)
EXTENDS TestSchedule, WellFoundedInduction, SequenceTheorems, TLAPS

-----------------------------------------------------------------------------
(* Least and greatest numbers.                                             *)

LEMMA LeastExists ==
  ASSUME NEW S \in SUBSET Nat, S # {}
  PROVE  Min(S) \in S /\ \A n \in S : Min(S) <= n
<1>1. PICK m \in S : \A n \in S : ~(<<n, m>> \in OpToRel(<, Nat))
  BY NatLessThanWellFounded, WFMin
<1>2. \A n \in S : n < m => <<n, m>> \in OpToRel(<, Nat)
  BY DEF OpToRel
<1>3. \A n \in S : ~(n < m)
  BY <1>1, <1>2
<1>4. m \in Nat /\ \A n \in S : n \in Nat
  OBVIOUS
<1>5. \A n \in S : m <= n
  BY <1>3, <1>4
<1> QED BY <1>5 DEF Min

LEMMA GreatestExists ==
  ASSUME NEW S \in SUBSET Int, S # {}, NEW bound \in Int, \A n \in S : n <= bound
  PROVE  Max(S) \in S /\ \A n \in S : Max(S) >= n
<1> DEFINE T == {bound - n : n \in S}
<1>1. T \in SUBSET Nat /\ T # {}
  <2>1. \A n \in S : bound - n \in Nat
    OBVIOUS
  <2>2. T \in SUBSET Nat
    BY <2>1
  <2>3. PICK n \in S : TRUE
    OBVIOUS
  <2>4. bound - n \in T
    BY <2>3
  <2> QED BY <2>2, <2>4
<1> HIDE DEF T
<1>2. Min(T) \in T /\ \A t \in T : Min(T) <= t
  BY <1>1, LeastExists
<1>3. PICK m \in S : Min(T) = bound - m
  BY <1>2 DEF T
<1>4. \A n \in S : bound - m <= bound - n
  BY <1>2, <1>3 DEF T
<1>5. \A n \in S : m >= n
  BY <1>4
<1> QED BY <1>5 DEF Max

LEMMA LesserOfTwo ==
  ASSUME NEW a \in Int, NEW b \in Int
  PROVE  Min({a, b}) \in {a, b} /\ Min({a, b}) <= a /\ Min({a, b}) <= b
<1>1. \E m \in {a, b} : \A n \in {a, b} : m <= n
  OBVIOUS
<1> QED BY <1>1 DEF Min

LEMMA GreaterOfTwo ==
  ASSUME NEW a \in Int, NEW b \in Int
  PROVE  Max({a, b}) \in {a, b}
<1>1. \E m \in {a, b} : \A n \in {a, b} : m >= n
  OBVIOUS
<1> QED BY <1>1 DEF Max
-----------------------------------------------------------------------------
(* The calendar.                                                           *)

LEMMA MonthShape ==
  /\ Len(MonthStart) \in Nat /\ Len(MonthStart) > 1
  /\ \A m \in 1..Len(MonthStart) : MonthStart[m] \in Nat
  /\ \A m \in Months : m \in 1..Len(MonthStart) /\ m + 1 \in 1..Len(MonthStart)
<1>1. Len(MonthStart) \in Nat /\ Len(MonthStart) > 1 /\ MonthStart \in Seq(Nat)
  BY CalendarAssumption
<1>2. \A m \in 1..Len(MonthStart) : MonthStart[m] \in Nat
  BY <1>1
<1> QED BY <1>1, <1>2 DEF Months

\* A month ends before any later one begins.
LEMMA MonthsIncrease ==
  ASSUME NEW m \in Months, NEW n \in 1..Len(MonthStart), m < n
  PROVE  MonthStart[m + 1] <= MonthStart[n]
<1> DEFINE Early == {k \in 1..Len(MonthStart) : m < k /\ MonthStart[k] < MonthStart[m + 1]}
<1>1. SUFFICES ASSUME Early # {} PROVE FALSE
  BY MonthShape
<1>2. Early \in SUBSET Nat
  OBVIOUS
<1>3. PICK k \in Early : \A j \in Early : k <= j
  BY <1>1, <1>2, LeastExists
<1>4. k # m + 1 /\ k > m + 1
  BY <1>3, MonthShape DEF Months
<1>5. k - 1 \in Months /\ m < k - 1 /\ k - 1 \notin Early
  BY <1>3, <1>4, MonthShape DEF Months
<1>6. MonthStart[k - 1] < MonthStart[(k - 1) + 1] /\ (k - 1) + 1 = k
  BY <1>5, CalendarAssumption DEF Months
<1>7. k - 1 \in 1..Len(MonthStart) /\ MonthStart[m + 1] <= MonthStart[k - 1]
  BY <1>5, MonthShape
<1> QED BY <1>3, <1>6, <1>7, MonthShape

\* Every day is in one month.
LEMMA MonthOfDay ==
  ASSUME NEW day \in Days
  PROVE  /\ MonthOf(day) \in Months
         /\ MonthStart[MonthOf(day)] <= day /\ day < MonthStart[MonthOf(day) + 1]
<1> DEFINE Later == {k \in 1..Len(MonthStart) : day < MonthStart[k]}
<1>1. day \in Nat /\ day < MonthStart[Len(MonthStart)]
  BY MonthShape DEF Days
<1>2. Later \in SUBSET Nat /\ Len(MonthStart) \in Later
  BY <1>1, MonthShape
<1>3. PICK k \in Later : \A j \in Later : k <= j
  BY <1>2, LeastExists
<1>4. k # 1
  BY <1>1, <1>3, CalendarAssumption
<1>5. k - 1 \in Months /\ k - 1 \notin Later /\ (k - 1) + 1 = k
  BY <1>3, <1>4, MonthShape DEF Months
<1>6. MonthStart[k - 1] <= day /\ day < MonthStart[(k - 1) + 1]
  BY <1>1, <1>3, <1>5, MonthShape
<1> QED BY <1>5, <1>6 DEF MonthOf

LEMMA MonthIsUnique ==
  ASSUME NEW day \in Days, NEW m \in Months, MonthStart[m] <= day, day < MonthStart[m + 1]
  PROVE  MonthOf(day) = m
<1>1. /\ MonthOf(day) \in Months
      /\ MonthStart[MonthOf(day)] <= day /\ day < MonthStart[MonthOf(day) + 1]
  BY MonthOfDay
<1>2. day \in Int /\ \A k \in Months : MonthStart[k] \in Nat /\ MonthStart[k + 1] \in Nat
  BY MonthShape DEF Days
<1>3. ~(MonthOf(day) < m)
  BY <1>1, <1>2, MonthsIncrease, MonthShape
<1>4. ~(m < MonthOf(day))
  BY <1>1, <1>2, MonthsIncrease, MonthShape
<1> QED BY <1>1, <1>3, <1>4 DEF Months

\* addMonths stays in the month it names, if the calendar has it.
LEMMA AddMonthsShape ==
  ASSUME NEW day \in Days, NEW n \in Int, MonthOf(day) + n \in Months
  PROVE  /\ AddMonths(day, n) \in Days
         /\ MonthOf(AddMonths(day, n)) = MonthOf(day) + n
         /\ AddMonths(day, 0) = day
<1> DEFINE m == MonthOf(day) + n
           a == day - MonthStart[MonthOf(day)]
           b == MonthStart[m + 1] - MonthStart[m] - 1
<1>1. /\ MonthOf(day) \in Months
      /\ MonthStart[MonthOf(day)] <= day /\ day < MonthStart[MonthOf(day) + 1]
  BY MonthOfDay
<1>2. \A k \in Months : /\ MonthStart[k] \in Nat /\ MonthStart[k + 1] \in Nat
                        /\ MonthStart[k] < MonthStart[k + 1]
                        /\ MonthStart[k + 1] <= MonthStart[Len(MonthStart)]
  <2>1. ASSUME NEW k \in Months PROVE MonthStart[k + 1] <= MonthStart[Len(MonthStart)]
    BY MonthsIncrease, MonthShape DEF Months
  <2> QED BY <2>1, MonthShape, CalendarAssumption
<1>3. m \in Months /\ day \in Nat /\ a \in Nat /\ b \in Nat
  BY <1>1, <1>2 DEF Days
<1>4. AddMonths(day, n) = MonthStart[m] + Min({a, b})
  BY DEF AddMonths, DayInMonth
<1> HIDE DEF m, a, b
<1>5. Min({a, b}) \in 0..b
  <2>1. Min({a, b}) \in {a, b} /\ Min({a, b}) <= a /\ Min({a, b}) <= b
    BY <1>3, LesserOfTwo
  <2>2. Min({a, b}) \in Nat
    BY <1>3, <2>1
  <2> QED BY <1>3, <2>1, <2>2
<1>6. b = MonthStart[m + 1] - MonthStart[m] - 1
  BY DEF b
<1>7. /\ AddMonths(day, n) \in Nat
      /\ MonthStart[m] <= AddMonths(day, n) /\ AddMonths(day, n) < MonthStart[m + 1]
  BY <1>2, <1>3, <1>4, <1>5, <1>6
<1>8. AddMonths(day, n) \in Days
  BY <1>2, <1>3, <1>7, MonthShape DEF Days
<1>9. MonthOf(AddMonths(day, n)) = m
  BY <1>3, <1>7, <1>8, MonthIsUnique
<1>10. AddMonths(day, 0) = day
  <2> DEFINE c == MonthStart[MonthOf(day) + 1] - MonthStart[MonthOf(day)] - 1
  <2>1. a \in Nat /\ c \in Nat /\ a <= c /\ a = day - MonthStart[MonthOf(day)]
    BY <1>1, <1>2, <1>3 DEF a
  <2>2. MonthOf(day) + 0 = MonthOf(day)
    BY <1>1 DEF Months
  <2>3. AddMonths(day, 0) = MonthStart[MonthOf(day)] + Min({a, c})
    BY <2>2 DEF AddMonths, DayInMonth, a
  <2> HIDE DEF c
  <2>4. Min({a, c}) = a
    <3>0. a \in Int /\ c \in Int
      BY <2>1
    <3>1. Min({a, c}) \in {a, c} /\ Min({a, c}) <= a
      BY <3>0, LesserOfTwo
    <3> QED BY <2>1, <3>1
  <2> QED BY <1>1, <1>2, <1>3, <2>1, <2>3, <2>4
<1> QED BY <1>8, <1>9, <1>10 DEF m

LEMMA InstantsAreNumbers == MaxTime \in Int /\ Instants \subseteq Nat
BY MonthShape, CalendarAssumption DEF Instants, MaxTime

LEMMA Division ==
  ASSUME NEW n \in Nat, NEW d \in Nat \ {0}
  PROVE  n \div d \in Nat /\ (n \div d) * d <= n /\ n < (n \div d) * d + d
OBVIOUS

LEMMA Multiples ==
  ASSUME NEW a \in Nat, NEW b \in Nat, NEW d \in Nat, a <= b
  PROVE  a * d \in Nat /\ b * d \in Nat /\ a * d <= b * d
OBVIOUS

\* Every instant is on a day of the calendar.
LEMMA DayOfInstant ==
  ASSUME NEW now \in Instants
  PROVE  /\ DayOf(now) \in Days
         /\ Instant(DayOf(now), 0) <= now /\ now < Instant(DayOf(now) + 1, 0)
<1> DEFINE d == DayOf(now)
           end == MonthStart[Len(MonthStart)]
<1>1. end \in Nat /\ DayLength \in Nat \ {0}
  BY MonthShape, CalendarAssumption
<1>2. now \in Nat /\ now < end * DayLength
  BY <1>1 DEF Instants, MaxTime
<1>3. d \in Nat /\ d * DayLength <= now /\ now < d * DayLength + DayLength
  BY <1>1, <1>2, Division DEF DayOf
<1> HIDE DEF d, end
<1>4. ~(end <= d)
  BY <1>1, <1>2, <1>3, Multiples
<1>5. d \in 0..(end - 1)
  BY <1>1, <1>3, <1>4
<1>6. (d + 1) * DayLength = d * DayLength + DayLength
  BY <1>1, <1>3
<1>7. d \in Days
  BY <1>5 DEF Days, end
<1> QED BY <1>1, <1>3, <1>6, <1>7 DEF Instant, d

LEMMA InstantIsNumber ==
  ASSUME NEW day \in Nat, NEW time \in Nat
  PROVE  Instant(day, time) \in Nat /\ Instant(day, time) >= Instant(day, 0)
BY CalendarAssumption, Multiples DEF Instant

\* An instant is not before the day of an earlier one.
LEMMA DaysFollowInstants ==
  ASSUME NEW now \in Instants, NEW day \in Nat, Instant(day, 0) <= now
  PROVE  day <= DayOf(now)
<1>1. DayOf(now) \in Nat /\ now < Instant(DayOf(now) + 1, 0)
  BY DayOfInstant DEF Days
<1>2. now \in Nat
  BY DEF Instants
<1>3. SUFFICES ASSUME DayOf(now) + 1 <= day PROVE FALSE
  BY <1>1
<1>4. (DayOf(now) + 1) * DayLength <= day * DayLength
  BY <1>1, <1>3, Multiples, CalendarAssumption
<1>5. Instant(DayOf(now) + 1, 0) \in Nat /\ Instant(day, 0) \in Nat
  BY <1>1, InstantIsNumber
<1>6. Instant(DayOf(now) + 1, 0) <= Instant(day, 0)
  BY <1>1, <1>4, CalendarAssumption, Multiples DEF Instant
<1> QED BY <1>1, <1>2, <1>5, <1>6

LEMMA MonthsFollowDays ==
  ASSUME NEW day \in Days, NEW later \in Days, day <= later
  PROVE  MonthOf(day) <= MonthOf(later)
<1>1. /\ MonthOf(day) \in Months /\ MonthStart[MonthOf(day)] <= day
      /\ MonthOf(later) \in Months /\ later < MonthStart[MonthOf(later) + 1]
  BY MonthOfDay
<1>2. MonthOf(day) \in 1..Len(MonthStart) /\ MonthStart[MonthOf(day)] \in Nat
  BY <1>1, MonthShape
<1>3. MonthStart[MonthOf(later) + 1] \in Nat /\ MonthOf(later) \in Nat /\ MonthOf(day) \in Nat
  BY <1>1, MonthShape DEF Months
<1>4. ~(MonthOf(later) < MonthOf(day))
  BY <1>1, <1>2, <1>3, MonthsIncrease DEF Days
<1> QED BY <1>3, <1>4
-----------------------------------------------------------------------------
(* The planned instant that is looked at is a number, or there is none.    *)

LEMMA EntryShape ==
  ASSUME NEW entry \in Entry
  PROVE  /\ entry.startDate \in Days /\ entry.startDate \in Nat
         /\ entry.startTime \in Nat /\ entry.startTime < DayLength
         /\ Instant(entry.startDate, entry.startTime) \in Nat
<1>1. entry.startDate \in Days /\ entry.startDate \in Nat
  BY DEF Entry, Days
<1>2. entry.startTime \in Nat /\ entry.startTime < DayLength
  BY CalendarAssumption DEF Entry
<1> QED BY <1>1, <1>2, InstantIsNumber

LEMMA DailyIsNumber ==
  ASSUME NEW entry \in Entry, NEW now \in Instants
  PROVE  DailyCandidate(entry, now) \in Nat \cup {Never}
<1> DEFINE day     == Max({DayOf(now), entry.startDate})
           today   == Instant(day, entry.startTime)
           planned == IF today > now THEN today - DayLength ELSE today
<1>1. DayOf(now) \in Int /\ entry.startDate \in Int /\ DayOf(now) \in Nat /\ now \in Nat
  BY DayOfInstant, EntryShape DEF Days, Instants
<1>2. day \in Nat
  BY <1>1, GreaterOfTwo, EntryShape
<1> HIDE DEF day
<1>3. today \in Nat
  BY <1>2, EntryShape, InstantIsNumber
<1>4. DayLength \in Nat \ {0}
  BY CalendarAssumption
<1> HIDE DEF today
<1>5. planned \in Int
  BY <1>1, <1>3, <1>4
<1> HIDE DEF planned
<1>6. DayOf(planned) \in Int /\ (planned < 0 => DayOf(planned) < 0)
  BY <1>4, <1>5 DEF DayOf
<1>7. DayOf(planned) < entry.startDate \/ planned \in Nat
  BY <1>5, <1>6, EntryShape
<1>8. DailyCandidate(entry, now) = IF DayOf(planned) < entry.startDate THEN Never ELSE planned
  BY DEF DailyCandidate, planned, today, day
<1> QED BY <1>7, <1>8

LEMMA WeekDaysIsNumber ==
  ASSUME NEW entry \in Entry, NEW now \in Instants
  PROVE  WeekDaysCandidate(entry, now) \in Nat \cup {Never}
<1> DEFINE days == {d \in Max({0, DayOf(now) - WeekLength})..DayOf(now) :
                      /\ d >= entry.startDate
                      /\ WeekDay(d) \in entry.weekDays
                      /\ Instant(d, entry.startTime) <= now}
<1>1. DayOf(now) \in Nat
  BY DayOfInstant DEF Days
<1>2. \A d \in days : d \in Int /\ d <= DayOf(now) /\ d >= entry.startDate
  BY <1>1
<1>3. WeekDaysCandidate(entry, now) = IF days = {} THEN Never ELSE Instant(Max(days), entry.startTime)
  BY DEF WeekDaysCandidate
<1> HIDE DEF days
<1>4. ASSUME days # {} PROVE Max(days) \in Nat
  <2>1. days \in SUBSET Int /\ DayOf(now) \in Int /\ \A d \in days : d <= DayOf(now)
    BY <1>1, <1>2
  <2>2. Max(days) \in days
    BY <1>4, <2>1, GreatestExists
  <2> QED BY <1>2, <2>2, EntryShape
<1> QED BY <1>3, <1>4, EntryShape, InstantIsNumber

LEMMA MonthsIsNumber ==
  ASSUME NEW entry \in Entry, entry.period \in DOMAIN MonthsForPeriod, NEW now \in Instants
  PROVE  MonthsCandidate(entry, now) \in Nat \cup {Never}
<1> DEFINE step  == MonthsForPeriod[entry.period]
           base  == Instant(entry.startDate, entry.startTime)
           first == MonthOf(entry.startDate)
           diff  == MonthOf(DayOf(now)) - first
           k     == (diff \div step) * step
           day   == AddMonths(entry.startDate, k)
           back  == IF Instant(day, entry.startTime) > now THEN AddMonths(day, -step) ELSE day
<1>1. SUFFICES ASSUME ~(now < base) PROVE Max({base, Instant(back, entry.startTime)}) \in Nat
  BY DEF MonthsCandidate
<1>2. step \in Nat \ {0}
  BY DEF MonthsForPeriod
<1>3. now \in Nat /\ base \in Nat /\ DayOf(now) \in Days
  BY EntryShape, DayOfInstant DEF Instants
<1>4. entry.startDate <= DayOf(now)
  <2>1. Instant(entry.startDate, 0) \in Nat /\ Instant(entry.startDate, 0) <= base
    BY EntryShape, InstantIsNumber
  <2>2. Instant(entry.startDate, 0) <= now
    BY <1>1, <1>3, <2>1
  <2> QED BY <2>2, DaysFollowInstants, EntryShape
<1>5. first \in Months /\ MonthOf(DayOf(now)) \in Months /\ first <= MonthOf(DayOf(now))
  BY <1>3, <1>4, EntryShape, MonthOfDay, MonthsFollowDays
<1>6. diff \in Nat /\ first + diff \in Months
  BY <1>5 DEF Months
<1> HIDE DEF step, base, first, diff
<1>7. diff \div step \in Nat /\ k \in Nat /\ k <= diff
  BY <1>2, <1>6, Division, Multiples
<1>8. first + k \in Months
  BY <1>5, <1>6, <1>7 DEF Months
<1>9. day \in Days /\ MonthOf(day) = first + k /\ AddMonths(entry.startDate, 0) = entry.startDate
  BY <1>5, <1>7, <1>8, EntryShape, AddMonthsShape DEF first
<1>10. ASSUME Instant(day, entry.startTime) > now PROVE AddMonths(day, -step) \in Days
  <2>1. diff \div step # 0
    <3>1. SUFFICES ASSUME diff \div step = 0 PROVE FALSE
      OBVIOUS
    <3>2. k = 0
      BY <1>2, <3>1
    <3>3. Instant(day, entry.startTime) = base
      BY <1>9, <3>2 DEF base
    <3> QED BY <1>1, <1>3, <1>10, <3>3
  <2>2. 1 <= diff \div step /\ 1 * step = step
    BY <1>2, <1>7, <2>1
  <2>3. step <= k
    BY <1>2, <1>7, <2>2, Multiples
  <2>4. MonthOf(day) + (-step) \in Months
    BY <1>2, <1>5, <1>7, <1>8, <1>9, <2>3 DEF Months
  <2>5. -step \in Int
    BY <1>2
  <2> QED BY <1>9, <2>4, <2>5, AddMonthsShape
<1> HIDE DEF k, day
<1>11. back \in Nat
  BY <1>9, <1>10 DEF Days
<1> HIDE DEF back
<1>12. Instant(back, entry.startTime) \in Nat
  BY <1>11, EntryShape, InstantIsNumber
<1>13. Max({base, Instant(back, entry.startTime)}) \in {base, Instant(back, entry.startTime)}
  BY <1>3, <1>12, GreaterOfTwo
<1> QED BY <1>3, <1>12, <1>13

LEMMA CandidateIsNumber ==
  ASSUME NEW entry \in Entry, NEW now \in Instants
  PROVE  Candidate(entry, now) \in Nat \cup {Never}
<1>1. entry.period \in Periods
  BY DEF Entry
<1>2. CASE entry.period = "Once"
  BY <1>2, EntryShape DEF Candidate
<1>3. CASE entry.period = "Daily"
  BY <1>3, DailyIsNumber DEF Candidate
<1>4. CASE entry.period = "WeekDays"
  BY <1>4, WeekDaysIsNumber DEF Candidate
<1>5. CASE entry.period \in DOMAIN MonthsForPeriod
  <2>1. entry.period \notin {"Once", "Daily", "WeekDays"}
    BY <1>5 DEF MonthsForPeriod
  <2> QED BY <1>5, <2>1, MonthsIsNumber DEF Candidate
<1> QED BY <1>1, <1>2, <1>3, <1>4, <1>5 DEF Periods
-----------------------------------------------------------------------------
(* What the search finds is what is planned.                               *)

LEMMA QuotientIsUnique ==
  ASSUME NEW x \in Nat, NEW d \in Nat, NEW q \in Nat, NEW m \in Nat,
         q * m <= x, x < q * m + m, d * m <= x, x < d * m + m
  PROVE  q = d
<1>1. /\ q * m \in Nat /\ d * m \in Nat
      /\ (q + 1) * m = q * m + m /\ (d + 1) * m = d * m + m
  OBVIOUS
<1>2. ~(q + 1 <= d)
  <2> SUFFICES ASSUME q + 1 <= d PROVE FALSE
    OBVIOUS
  <2>1. (q + 1) * m <= d * m
    BY Multiples
  <2> QED BY <1>1, <2>1
<1>3. ~(d + 1 <= q)
  <2> SUFFICES ASSUME d + 1 <= q PROVE FALSE
    OBVIOUS
  <2>1. (d + 1) * m <= q * m
    BY Multiples
  <2> QED BY <1>1, <2>1
<1> QED BY <1>2, <1>3

LEMMA DayIsUnique ==
  ASSUME NEW x \in Nat, NEW day \in Nat, Instant(day, 0) <= x, x < Instant(day, 0) + DayLength
  PROVE  DayOf(x) = day
<1>1. DayLength \in Nat \ {0} /\ day * DayLength \in Nat
  BY CalendarAssumption, Multiples
<1>2. x \div DayLength \in Nat /\ (x \div DayLength) * DayLength <= x
      /\ x < (x \div DayLength) * DayLength + DayLength
  BY <1>1, Division
<1>3. day * DayLength <= x /\ x < day * DayLength + DayLength
  BY <1>1 DEF Instant
<1>4. x \div DayLength = day
  BY <1>1, <1>2, <1>3, QuotientIsUnique
<1> QED BY <1>4 DEF DayOf

LEMMA TimeOfDay ==
  ASSUME NEW day \in Nat, NEW time \in Nat
  PROVE  /\ Instant(day, 0) \in Nat /\ Instant(day, time) = Instant(day, 0) + time
         /\ Instant(day + 1, time) = Instant(day, time) + DayLength
<1>1. DayLength \in Nat /\ day * DayLength \in Nat
  BY CalendarAssumption, Multiples
<1>2. (day + 1) * DayLength = day * DayLength + DayLength
  BY <1>1
<1> QED BY <1>1, <1>2 DEF Instant

\* The same time of a later day is at least a day later.
LEMMA DaysApart ==
  ASSUME NEW a \in Nat, NEW b \in Nat, a < b, NEW time \in Nat
  PROVE  Instant(a, time) + DayLength <= Instant(b, time)
<1>1. DayLength \in Nat /\ a * DayLength \in Nat /\ b * DayLength \in Nat
  BY CalendarAssumption, Multiples
<1>2. (a + 1) * DayLength <= b * DayLength
  BY <1>1, Multiples
<1>3. (a + 1) * DayLength = a * DayLength + DayLength
  BY <1>1
<1> QED BY <1>1, <1>2, <1>3 DEF Instant

LEMMA DayOfPlanned ==
  ASSUME NEW entry \in Entry, NEW day \in Nat
  PROVE  DayOf(Instant(day, entry.startTime)) = day
<1>1. entry.startTime \in Nat /\ entry.startTime < DayLength /\ DayLength \in Nat
  BY EntryShape, CalendarAssumption
<1>2. Instant(day, entry.startTime) = Instant(day, 0) + entry.startTime /\ Instant(day, 0) \in Nat
  BY <1>1, TimeOfDay
<1> QED BY <1>1, <1>2, DayIsUnique

\* The window open at an instant is that of the entry's time today or yesterday;
\* of the days whose time has come only the last one has its window open.
LEMMA DayOfWindow ==
  ASSUME NEW entry \in Entry, NEW now \in Instants, NEW day \in Nat,
         InWindow(Instant(day, entry.startTime), now)
  PROVE  /\ day <= DayOf(now) /\ DayOf(now) <= day + 1
         /\ \A later \in Nat : Instant(later, entry.startTime) <= now => later <= day
         /\ entry.startTime + Window < DayLength => day = DayOf(now)
<1> DEFINE p == Instant(day, entry.startTime)
<1>1. /\ entry.startTime \in Nat /\ entry.startTime < DayLength /\ DayLength \in Nat
      /\ Window \in Nat /\ Window < DayLength
  BY EntryShape, CalendarAssumption, WindowAssumption
<1>2. now \in Nat /\ DayOf(now) \in Nat /\ Instant(DayOf(now), 0) <= now
  BY DayOfInstant DEF Instants, Days
<1>3. /\ Instant(day, 0) \in Nat /\ p = Instant(day, 0) + entry.startTime
      /\ Instant(day + 1, 0) = Instant(day, 0) + DayLength
  BY <1>1, TimeOfDay
<1>4. p <= now /\ now <= p + Window
  BY DEF InWindow
<1> HIDE DEF p
<1>5. day <= DayOf(now)
  BY <1>1, <1>2, <1>3, <1>4, DaysFollowInstants
<1>6. ASSUME NEW later \in Nat, Instant(later, entry.startTime) <= now, day < later PROVE FALSE
  <2>1. p + DayLength <= Instant(later, entry.startTime)
    BY <1>1, <1>6, DaysApart DEF p
  <2>2. Instant(later, entry.startTime) \in Nat
    BY <1>1, InstantIsNumber
  <2>3. p \in Nat
    BY <1>1, <1>3
  <2> QED BY <1>1, <1>2, <1>4, <1>6, <2>1, <2>2, <2>3
<1>7. DayOf(now) <= day + 1
  <2> SUFFICES ASSUME day + 1 < DayOf(now) PROVE FALSE
    BY <1>2
  <2>1. Instant(day + 1, 0) + DayLength <= Instant(DayOf(now), 0)
    BY <1>2, DaysApart
  <2>2. Instant(DayOf(now), 0) \in Nat
    BY <1>2, TimeOfDay
  <2> QED BY <1>1, <1>2, <1>3, <1>4, <2>1, <2>2
<1>8. ASSUME entry.startTime + Window < DayLength PROVE day = DayOf(now)
  <2>1. Instant(day, 0) <= now /\ now < Instant(day, 0) + DayLength
    BY <1>1, <1>2, <1>3, <1>4, <1>8
  <2> QED BY <1>2, <2>1, DayIsUnique
<1>9. \A later \in Nat : Instant(later, entry.startTime) <= now => later <= day
  BY <1>6
<1> QED BY <1>5, <1>7, <1>8, <1>9

\* A daily entry.
LEMMA DailyFindsPlanned ==
  ASSUME NEW entry \in Entry, NEW now \in Instants, NEW day \in Days, day >= entry.startDate,
         InWindow(Instant(day, entry.startTime), now)
  PROVE  DailyCandidate(entry, now) = Instant(day, entry.startTime)
<1> DEFINE here    == Max({DayOf(now), entry.startDate})
           today   == Instant(here, entry.startTime)
           planned == IF today > now THEN today - DayLength ELSE today
<1>1. day \in Nat /\ DayOf(now) \in Nat /\ entry.startDate \in Nat /\ entry.startTime \in Nat
      /\ now \in Nat /\ DayLength \in Nat
  BY DayOfInstant, EntryShape, CalendarAssumption DEF Days, Instants
<1>2. day <= DayOf(now) /\ DayOf(now) <= day + 1
  BY <1>1, DayOfWindow
<1>3. here = DayOf(now)
  <2>1. DayOf(now) >= entry.startDate
    BY <1>1, <1>2
  <2>2. \E m \in {DayOf(now), entry.startDate} : \A n \in {DayOf(now), entry.startDate} : m >= n
    BY <1>1, <2>1
  <2>3. here \in {DayOf(now), entry.startDate} /\ here >= DayOf(now)
    BY <2>2 DEF Max
  <2> QED BY <1>1, <2>1, <2>3
<1> HIDE DEF here
<1>4. planned = Instant(day, entry.startTime)
  <2>0. today = Instant(DayOf(now), entry.startTime)
    BY <1>3
  <2> HIDE DEF today
  <2>1. today \in Nat /\ Instant(day, entry.startTime) \in Nat
    BY <1>1, <2>0, InstantIsNumber
  <2>2. Instant(day, entry.startTime) <= now
    BY DEF InWindow
  <2>3. CASE day = DayOf(now)
    BY <1>1, <2>0, <2>1, <2>2, <2>3
  <2>4. CASE day # DayOf(now)
    <3>1. DayOf(now) = day + 1
      BY <1>1, <1>2, <2>4
    <3>2. today = Instant(day, entry.startTime) + DayLength
      <4>1. Instant(day + 1, entry.startTime) = Instant(day, entry.startTime) + DayLength
        BY <1>1, TimeOfDay
      <4> QED BY <2>0, <3>1, <4>1
    <3>3. ~(today <= now)
      <4>1. today <= now => DayOf(now) <= day
        BY <1>1, <2>0, DayOfWindow
      <4> QED BY <1>1, <3>1, <4>1
    <3> QED BY <1>1, <2>1, <3>2, <3>3
  <2> QED BY <2>3, <2>4
<1>5. DayOf(planned) = day
  BY <1>1, <1>4, DayOfPlanned
<1>6. DailyCandidate(entry, now) = IF DayOf(planned) < entry.startDate THEN Never ELSE planned
  BY DEF DailyCandidate, here
<1> HIDE DEF planned
<1> QED BY <1>1, <1>4, <1>5, <1>6

LEMMA DailyIsPlanned ==
  ASSUME NEW entry \in Entry, NEW now \in Instants, InWindow(DailyCandidate(entry, now), now)
  PROVE  \E day \in Days : day >= entry.startDate /\ DailyCandidate(entry, now) = Instant(day, entry.startTime)
<1> DEFINE here    == Max({DayOf(now), entry.startDate})
           today   == Instant(here, entry.startTime)
           planned == IF today > now THEN today - DayLength ELSE today
<1>1. DayOf(now) \in Nat /\ entry.startDate \in Nat /\ entry.startTime \in Nat
      /\ now \in Nat /\ DayLength \in Nat \ {0}
  BY DayOfInstant, EntryShape, CalendarAssumption DEF Days, Instants
<1>2. here \in Nat
  <2>1. DayOf(now) \in Int /\ entry.startDate \in Int
    BY <1>1
  <2>2. here \in {DayOf(now), entry.startDate}
    BY <2>1, GreaterOfTwo
  <2> QED BY <1>1, <2>2
<1>3. DailyCandidate(entry, now) = IF DayOf(planned) < entry.startDate THEN Never ELSE planned
  BY DEF DailyCandidate
<1> HIDE DEF here
<1>4. ~(DayOf(planned) < entry.startDate) /\ DailyCandidate(entry, now) = planned /\ planned <= now
  BY <1>3 DEF InWindow
<1>5. today \in Nat
  BY <1>1, <1>2, InstantIsNumber
<1>6. PICK day \in Nat : planned = Instant(day, entry.startTime)
  <2>1. CASE today > now /\ here = 0
    <3>1. today = entry.startTime
      BY <1>1, <2>1 DEF Instant
    <3>2. planned \in Int /\ planned < 0
      BY <1>1, <2>1, <3>1, EntryShape
    <3>3. DayOf(planned) < 0 /\ DayOf(planned) \in Int
      BY <1>1, <3>2 DEF DayOf
    <3> HIDE DEF planned
    <3> QED BY <1>1, <1>4, <3>3
  <2>2. CASE today > now /\ here # 0
    <3>1. here - 1 \in Nat /\ (here - 1) + 1 = here
      BY <1>2, <2>2
    <3>2. today = Instant(here - 1, entry.startTime) + DayLength /\ Instant(here - 1, entry.startTime) \in Nat
      BY <1>1, <3>1, TimeOfDay, InstantIsNumber
    <3>3. planned = Instant(here - 1, entry.startTime)
      BY <1>1, <2>2, <3>2
    <3> HIDE DEF planned
    <3> QED BY <3>1, <3>3
  <2>3. CASE ~(today > now)
    <3>1. planned = Instant(here, entry.startTime)
      BY <2>3
    <3> HIDE DEF planned
    <3> QED BY <1>2, <3>1
  <2> QED BY <2>1, <2>2, <2>3
<1> HIDE DEF planned
<1>7. day >= entry.startDate
  BY <1>1, <1>4, <1>6, DayOfPlanned
<1>8. day <= DayOf(now)
  <2>1. Instant(day, 0) \in Nat /\ Instant(day, entry.startTime) >= Instant(day, 0)
    BY <1>1, TimeOfDay, InstantIsNumber
  <2>2. Instant(day, entry.startTime) \in Nat /\ Instant(day, entry.startTime) <= now
    BY <1>1, <1>4, <1>6, InstantIsNumber
  <2> QED BY <1>1, <2>1, <2>2, DaysFollowInstants
<1>9. day \in Days
  <2>1. DayOf(now) \in Days
    BY DayOfInstant
  <2> QED BY <1>1, <1>8, <2>1, MonthShape DEF Days
<1> QED BY <1>4, <1>6, <1>7, <1>9

\* An entry on days of the week.
LEMMA WeekDaysFindsPlanned ==
  ASSUME NEW entry \in Entry, NEW now \in Instants, NEW day \in Days, day >= entry.startDate,
         WeekDay(day) \in entry.weekDays, InWindow(Instant(day, entry.startTime), now)
  PROVE  WeekDaysCandidate(entry, now) = Instant(day, entry.startTime)
<1> DEFINE from == Max({0, DayOf(now) - WeekLength})
           days == {d \in from..DayOf(now) :
                      /\ d >= entry.startDate
                      /\ WeekDay(d) \in entry.weekDays
                      /\ Instant(d, entry.startTime) <= now}
<1>1. day \in Nat /\ DayOf(now) \in Nat /\ entry.startDate \in Nat /\ WeekLength \in Nat \ {0}
  BY DayOfInstant, EntryShape, CalendarAssumption DEF Days
<1>2. day <= DayOf(now) /\ DayOf(now) <= day + 1
      /\ \A later \in Nat : Instant(later, entry.startTime) <= now => later <= day
  BY <1>1, DayOfWindow
<1>3. from \in Nat /\ from <= day
  <2>1. 0 \in Int /\ DayOf(now) - WeekLength \in Int
    BY <1>1
  <2>2. from \in {0, DayOf(now) - WeekLength} /\ from >= 0
    <3>1. \E m \in {0, DayOf(now) - WeekLength} : \A n \in {0, DayOf(now) - WeekLength} : m >= n
      BY <2>1
    <3> QED BY <3>1 DEF Max
  <2> HIDE DEF from
  <2> QED BY <1>1, <1>2, <2>1, <2>2
<1> HIDE DEF from
<1>4. day \in days
  BY <1>1, <1>2, <1>3 DEF InWindow
<1>5. \A d \in days : d \in Nat /\ d <= day
  BY <1>1, <1>2, <1>3
<1>6. WeekDaysCandidate(entry, now) = IF days = {} THEN Never ELSE Instant(Max(days), entry.startTime)
  BY DEF WeekDaysCandidate, from
<1> HIDE DEF days
<1>7. Max(days) \in days /\ \A d \in days : Max(days) >= d
  <2>1. days \in SUBSET Int /\ days # {} /\ day \in Int
    BY <1>1, <1>4, <1>5
  <2> QED BY <1>5, <2>1, GreatestExists
<1>8. Max(days) = day
  <2>1. Max(days) \in Nat /\ Max(days) <= day /\ Max(days) >= day
    BY <1>4, <1>5, <1>7
  <2> QED BY <1>1, <2>1
<1> QED BY <1>4, <1>6, <1>8

LEMMA WeekDaysIsPlanned ==
  ASSUME NEW entry \in Entry, NEW now \in Instants, InWindow(WeekDaysCandidate(entry, now), now)
  PROVE  \E day \in Days : /\ day >= entry.startDate /\ WeekDay(day) \in entry.weekDays
                           /\ WeekDaysCandidate(entry, now) = Instant(day, entry.startTime)
<1> DEFINE days == {d \in Max({0, DayOf(now) - WeekLength})..DayOf(now) :
                      /\ d >= entry.startDate
                      /\ WeekDay(d) \in entry.weekDays
                      /\ Instant(d, entry.startTime) <= now}
<1>1. DayOf(now) \in Days /\ DayOf(now) \in Nat
  BY DayOfInstant DEF Days
<1>2. \A d \in days : /\ d \in Int /\ d <= DayOf(now) /\ d >= entry.startDate
                      /\ WeekDay(d) \in entry.weekDays
  BY <1>1
<1>3. WeekDaysCandidate(entry, now) = IF days = {} THEN Never ELSE Instant(Max(days), entry.startTime)
  BY DEF WeekDaysCandidate
<1> HIDE DEF days
<1>4. days # {} /\ WeekDaysCandidate(entry, now) = Instant(Max(days), entry.startTime)
  BY <1>3 DEF InWindow
<1>5. Max(days) \in days
  <2>1. days \in SUBSET Int /\ DayOf(now) \in Int /\ \A d \in days : d <= DayOf(now)
    BY <1>1, <1>2
  <2> QED BY <1>4, <2>1, GreatestExists
<1>6. Max(days) \in Days
  <2>1. Max(days) \in Int /\ Max(days) <= DayOf(now) /\ Max(days) >= entry.startDate
    BY <1>2, <1>5
  <2>2. entry.startDate \in Nat
    BY EntryShape
  <2> QED BY <1>1, <2>1, <2>2, MonthShape DEF Days
<1> QED BY <1>2, <1>4, <1>5, <1>6

\* An entry by months.

LEMMA MonthsShape ==
  ASSUME NEW entry \in Entry, entry.period \in DOMAIN MonthsForPeriod
  PROVE  /\ MonthsForPeriod[entry.period] \in Nat \ {0}
         /\ MonthOf(entry.startDate) \in Months /\ MonthOf(entry.startDate) \in Nat
         /\ entry.startDate \in Days
  BY MonthOfDay, EntryShape DEF MonthsForPeriod, Months

\* The day of the n-th period, and of no earlier month than the entry's start.
LEMMA DayOfPeriod ==
  ASSUME NEW entry \in Entry, NEW k \in Nat, MonthOf(entry.startDate) + k \in Months
  PROVE  /\ AddMonths(entry.startDate, k) \in Days
         /\ MonthOf(AddMonths(entry.startDate, k)) = MonthOf(entry.startDate) + k
         /\ AddMonths(entry.startDate, k) >= entry.startDate
<1> DEFINE day == AddMonths(entry.startDate, k)
<1>1. entry.startDate \in Days /\ k \in Int
  BY EntryShape
<1>2. day \in Days /\ MonthOf(day) = MonthOf(entry.startDate) + k
      /\ AddMonths(entry.startDate, 0) = entry.startDate
  BY <1>1, AddMonthsShape
<1>3. k = 0 => day = entry.startDate
  BY <1>2
<1> HIDE DEF day
<1>4. MonthOf(entry.startDate) \in Nat
  BY <1>1, MonthOfDay DEF Months
<1>5. ASSUME day < entry.startDate PROVE FALSE
  <2>1. day <= entry.startDate /\ k # 0
    BY <1>1, <1>2, <1>3, <1>5 DEF Days
  <2>2. MonthOf(day) <= MonthOf(entry.startDate)
    BY <1>1, <1>2, <2>1, MonthsFollowDays
  <2> QED BY <1>2, <1>4, <2>1, <2>2
<1>6. day \in Nat /\ entry.startDate \in Nat
  BY <1>1, <1>2 DEF Days
<1>7. day >= entry.startDate
  BY <1>5, <1>6
<1> QED BY <1>2, <1>7 DEF day

LEMMA ExactQuotient ==
  ASSUME NEW n \in Nat, NEW m \in Nat \ {0}
  PROVE  n * m \in Nat /\ (n * m) \div m = n
<1>1. n * m \in Nat
  OBVIOUS
<1>2. (n * m) \div m \in Nat /\ ((n * m) \div m) * m <= n * m
      /\ n * m < ((n * m) \div m) * m + m
  BY <1>1, Division
<1>3. n * m <= n * m /\ n * m < n * m + m
  BY <1>1
<1> QED BY <1>1, <1>2, <1>3, QuotientIsUnique

LEMMA GreaterIsSecond ==
  ASSUME NEW a \in Int, NEW b \in Int, a <= b
  PROVE  Max({a, b}) = b
<1>1. \E m \in {a, b} : \A n \in {a, b} : m >= n
  OBVIOUS
<1>2. Max({a, b}) \in {a, b} /\ Max({a, b}) >= b
  BY <1>1 DEF Max
<1> QED BY <1>2

LEMMA LaterDayIsLater ==
  ASSUME NEW a \in Nat, NEW b \in Nat, a <= b, NEW time \in Nat
  PROVE  Instant(a, time) \in Nat /\ Instant(b, time) \in Nat /\ Instant(a, time) <= Instant(b, time)
<1>1. Instant(a, time) \in Nat /\ Instant(b, time) \in Nat /\ DayLength \in Nat
  BY InstantIsNumber, CalendarAssumption
<1>2. CASE a = b
  BY <1>1, <1>2
<1>3. CASE a # b
  <2>1. a < b
    BY <1>3
  <2>2. Instant(a, time) + DayLength <= Instant(b, time)
    BY <2>1, DaysApart
  <2> QED BY <1>1, <2>2
<1> QED BY <1>2, <1>3

\* The search's parts, by names of their own.
Diff(entry, now)  == MonthOf(DayOf(now)) - MonthOf(entry.startDate)
Whole(entry, now) ==
  (Diff(entry, now) \div MonthsForPeriod[entry.period]) * MonthsForPeriod[entry.period]
Back(entry, now)  ==
  LET day == AddMonths(entry.startDate, Whole(entry, now))
  IN  IF Instant(day, entry.startTime) > now THEN AddMonths(day, -MonthsForPeriod[entry.period]) ELSE day

LEMMA MonthsCandidateInParts ==
  ASSUME NEW entry, NEW now
  PROVE  MonthsCandidate(entry, now) =
           IF now < Instant(entry.startDate, entry.startTime) THEN Never
           ELSE Max({Instant(entry.startDate, entry.startTime), Instant(Back(entry, now), entry.startTime)})
  BY DEF MonthsCandidate, Back, Whole, Diff

LEMMA MonthsFindPlanned ==
  ASSUME NEW entry \in Entry, entry.period \in DOMAIN MonthsForPeriod, NEW now \in Instants,
         entry.startTime + Window < DayLength,
         NEW n \in Nat, MonthOf(entry.startDate) + n * MonthsForPeriod[entry.period] \in Months,
         NEW day, day = AddMonths(entry.startDate, n * MonthsForPeriod[entry.period]),
         InWindow(Instant(day, entry.startTime), now)
  PROVE  MonthsCandidate(entry, now) = Instant(day, entry.startTime)
<1> DEFINE step == MonthsForPeriod[entry.period]
           base == Instant(entry.startDate, entry.startTime)
<1>1. step \in Nat \ {0} /\ MonthOf(entry.startDate) \in Nat
      /\ entry.startDate \in Nat /\ entry.startTime \in Nat /\ now \in Nat
  BY MonthsShape, EntryShape DEF Instants
<1> HIDE DEF step
<1>2. n * step \in Nat /\ (n * step) \div step = n
  BY <1>1, ExactQuotient
<1>3. day \in Days /\ MonthOf(day) = MonthOf(entry.startDate) + n * step /\ day >= entry.startDate
  BY <1>2, DayOfPeriod DEF step
<1>4. day \in Nat
  BY <1>3 DEF Days
<1>5. DayOf(now) = day
  BY <1>4, DayOfWindow
<1>6. Diff(entry, now) = n * step
  BY <1>1, <1>2, <1>3, <1>5 DEF Diff
<1>7. Whole(entry, now) = n * step
  BY <1>2, <1>6 DEF Whole, step
<1>8. /\ Instant(day, entry.startTime) \in Nat /\ Instant(day, entry.startTime) <= now
      /\ base \in Nat /\ base <= Instant(day, entry.startTime)
  BY <1>1, <1>3, <1>4, LaterDayIsLater DEF InWindow
<1>9. Back(entry, now) = day
  BY <1>1, <1>7, <1>8 DEF Back, step
<1> HIDE DEF base
<1>10. ~(now < base)
  BY <1>1, <1>8
<1>11. MonthsCandidate(entry, now) = Max({base, Instant(day, entry.startTime)})
  BY <1>9, <1>10, MonthsCandidateInParts DEF base
<1> QED BY <1>8, <1>11, GreaterIsSecond

\* What the search steps back to from a day that has not come is in an earlier
\* month than today, and so is no day whose window is open.
LEMMA MonthsArePlanned ==
  ASSUME NEW entry \in Entry, entry.period \in DOMAIN MonthsForPeriod, NEW now \in Instants,
         entry.startTime + Window < DayLength,
         InWindow(MonthsCandidate(entry, now), now)
  PROVE  \E n \in 0..Len(MonthStart) :
           LET k == n * MonthsForPeriod[entry.period]
           IN  /\ MonthOf(entry.startDate) + k \in Months
               /\ MonthsCandidate(entry, now) = Instant(AddMonths(entry.startDate, k), entry.startTime)
<1> DEFINE step  == MonthsForPeriod[entry.period]
           first == MonthOf(entry.startDate)
           base  == Instant(entry.startDate, entry.startTime)
           diff  == Diff(entry, now)
           n     == diff \div step
           day   == AddMonths(entry.startDate, n * step)
           back  == Back(entry, now)
<1>1. /\ step \in Nat \ {0} /\ first \in Months /\ first \in Nat
      /\ entry.startDate \in Days /\ entry.startDate \in Nat /\ entry.startTime \in Nat
      /\ now \in Nat /\ Len(MonthStart) \in Nat
  BY MonthsShape, EntryShape, MonthShape DEF Instants
<1>2. base \in Nat
  BY <1>1, InstantIsNumber
<1>3. /\ ~(now < base)
      /\ MonthsCandidate(entry, now) = Max({base, Instant(back, entry.startTime)})
  BY MonthsCandidateInParts DEF InWindow
<1>4. DayOf(now) \in Days /\ entry.startDate <= DayOf(now)
  <2>1. Instant(entry.startDate, 0) \in Nat /\ Instant(entry.startDate, 0) <= base
    BY <1>1, InstantIsNumber
  <2>2. Instant(entry.startDate, 0) <= now
    BY <1>1, <1>2, <1>3, <2>1
  <2> QED BY <1>1, <2>2, DaysFollowInstants, DayOfInstant
<1>5. MonthOf(DayOf(now)) \in Months /\ first <= MonthOf(DayOf(now))
  BY <1>1, <1>4, MonthOfDay, MonthsFollowDays
<1>6. diff \in Nat /\ MonthOf(DayOf(now)) = first + diff /\ diff <= Len(MonthStart)
  BY <1>1, <1>5 DEF Diff, Months
<1> HIDE DEF step, first, diff, base
<1>7. n \in Nat /\ n * step \in Nat /\ n * step <= diff /\ diff < n * step + step
  BY <1>1, <1>6, Division
<1>8. n <= n * step
  BY <1>1, <1>7
<1>9. n \in 0..Len(MonthStart)
  BY <1>1, <1>6, <1>7, <1>8
<1>10. first + n * step \in Months
  BY <1>1, <1>5, <1>6, <1>7 DEF Months
<1>11. day \in Days /\ MonthOf(day) = first + n * step /\ day \in Nat
  BY <1>7, <1>10, DayOfPeriod DEF first, Days
<1>12. AddMonths(entry.startDate, 0) = entry.startDate /\ 0 * step = 0 /\ first + 0 = first
  BY <1>1, <1>7, <1>10, AddMonthsShape DEF first
<1>13. back = IF Instant(day, entry.startTime) > now THEN AddMonths(day, -step) ELSE day
  BY DEF Back, Whole, diff, step
<1> HIDE DEF n, back
<1>14. CASE MonthsCandidate(entry, now) = base
  <2>1. 0 \in 0..Len(MonthStart) /\ first + 0 * step \in Months
    BY <1>1, <1>12
  <2>2. base = Instant(AddMonths(entry.startDate, 0 * step), entry.startTime)
    BY <1>12 DEF base
  <2> QED BY <1>14, <2>1, <2>2 DEF step, first
<1>15. CASE ~(Instant(day, entry.startTime) > now) /\ MonthsCandidate(entry, now) = Instant(back, entry.startTime)
  BY <1>9, <1>10, <1>13, <1>15 DEF step, first
<1>16. CASE Instant(day, entry.startTime) > now /\ MonthsCandidate(entry, now) # base
  <2>1. n # 0
    <3>1. n = 0 => day = entry.startDate
      BY <1>12
    <3> QED BY <1>2, <1>1, <1>3, <1>16, <3>1 DEF base
  <2>2. n - 1 \in Nat /\ (n - 1) * step \in Nat /\ n * step = (n - 1) * step + step
    BY <1>1, <1>7, <2>1
  <2>3. back = AddMonths(day, -step) /\ MonthOf(day) + (-step) \in Months /\ -step \in Int
    <3>1. MonthOf(day) + (-step) = first + (n - 1) * step
      BY <1>1, <1>11, <2>2
    <3>2. first + (n - 1) * step \in Months
      BY <1>1, <1>10, <2>2 DEF Months
    <3> QED BY <1>1, <1>13, <1>16, <3>1, <3>2
  <2>4. back \in Days /\ MonthOf(back) = first + n * step - step
    BY <1>1, <1>7, <1>11, <2>3, AddMonthsShape
  <2>5. back \in Nat /\ Instant(back, entry.startTime) \in Nat
    <3>1. back \in Nat
      BY <2>4 DEF Days
    <3> QED BY <1>1, <3>1, InstantIsNumber
  <2>6. MonthsCandidate(entry, now) = Instant(back, entry.startTime)
    <3>1. Max({base, Instant(back, entry.startTime)}) \in {base, Instant(back, entry.startTime)}
      BY <1>2, <2>5, GreaterOfTwo
    <3> QED BY <1>3, <1>16, <3>1
  <2>7. back = DayOf(now)
    BY <2>5, <2>6, DayOfWindow
  <2>8. first + n * step - step = first + diff
    BY <1>6, <2>4, <2>7
  <2> QED BY <1>1, <1>6, <1>7, <2>8
<1>17. MonthsCandidate(entry, now) \in {base, Instant(back, entry.startTime)} \/ Instant(day, entry.startTime) > now
  <2> SUFFICES ASSUME ~(Instant(day, entry.startTime) > now)
               PROVE  MonthsCandidate(entry, now) \in {base, Instant(back, entry.startTime)}
    OBVIOUS
  <2>1. Instant(back, entry.startTime) \in Nat
    BY <1>1, <1>11, <1>13, InstantIsNumber
  <2> QED BY <1>2, <1>3, <2>1, GreaterOfTwo
<1> QED BY <1>14, <1>15, <1>16, <1>17

\* Every kind of entry.
LEMMA SearchFindsPlanned ==
  ASSUME NEW entry \in Entry, NEW now \in Instants, ~WindowMayBeCut(entry),
         NEW p \in PlannedInstants(entry), InWindow(p, now)
  PROVE  Candidate(entry, now) = p
<1>1. PICK day \in PlannedDays(entry) : p = Instant(day, entry.startTime)
  BY DEF PlannedInstants
<1>2. InWindow(Instant(day, entry.startTime), now)
  BY <1>1
<1>3. CASE entry.period = "Once"
  BY <1>1, <1>3 DEF PlannedDays, Candidate
<1>4. CASE entry.period = "Daily"
  <2>1. day \in Days /\ day >= entry.startDate
    BY <1>1, <1>4 DEF PlannedDays
  <2> QED BY <1>1, <1>2, <1>4, <2>1, DailyFindsPlanned DEF Candidate
<1>5. CASE entry.period = "WeekDays"
  <2>1. day \in Days /\ day >= entry.startDate /\ WeekDay(day) \in entry.weekDays
    BY <1>1, <1>5 DEF PlannedDays
  <2> QED BY <1>1, <1>2, <1>5, <2>1, WeekDaysFindsPlanned DEF Candidate
<1>6. CASE entry.period \in DOMAIN MonthsForPeriod
  <2>1. entry.period \notin {"Once", "Daily", "WeekDays"}
    BY <1>6 DEF MonthsForPeriod
  <2>2. entry.startTime + Window < DayLength
    BY <1>6, EntryShape, WindowAssumption, CalendarAssumption DEF WindowMayBeCut
  <2>3. PICK n \in 0..Len(MonthStart) :
          /\ MonthOf(entry.startDate) + n * MonthsForPeriod[entry.period] \in Months
          /\ day = AddMonths(entry.startDate, n * MonthsForPeriod[entry.period])
    BY <1>1, <2>1 DEF PlannedDays
  <2>4. n \in Nat
    BY MonthShape
  <2>5. MonthsCandidate(entry, now) = Instant(day, entry.startTime)
    BY <1>2, <1>6, <2>2, <2>3, <2>4, MonthsFindPlanned
  <2> QED BY <1>1, <2>1, <2>5 DEF Candidate
<1>7. entry.period \in Periods
  BY DEF Entry
<1> QED BY <1>3, <1>4, <1>5, <1>6, <1>7 DEF Periods

LEMMA FoundIsPlanned ==
  ASSUME NEW entry \in Entry, NEW now \in Instants, ~WindowMayBeCut(entry),
         InWindow(Candidate(entry, now), now)
  PROVE  Candidate(entry, now) \in PlannedInstants(entry)
<1>1. SUFFICES \E day \in PlannedDays(entry) : Candidate(entry, now) = Instant(day, entry.startTime)
  BY DEF PlannedInstants
<1>2. CASE entry.period = "Once"
  BY <1>2 DEF PlannedDays, Candidate
<1>3. CASE entry.period = "Daily"
  <2>1. Candidate(entry, now) = DailyCandidate(entry, now)
    BY <1>3 DEF Candidate
  <2>2. PICK day \in Days : day >= entry.startDate /\ DailyCandidate(entry, now) = Instant(day, entry.startTime)
    BY <2>1, DailyIsPlanned
  <2> QED BY <1>3, <2>1, <2>2 DEF PlannedDays
<1>4. CASE entry.period = "WeekDays"
  <2>1. Candidate(entry, now) = WeekDaysCandidate(entry, now)
    BY <1>4 DEF Candidate
  <2>2. PICK day \in Days : /\ day >= entry.startDate /\ WeekDay(day) \in entry.weekDays
                            /\ WeekDaysCandidate(entry, now) = Instant(day, entry.startTime)
    BY <2>1, WeekDaysIsPlanned
  <2> QED BY <1>4, <2>1, <2>2 DEF PlannedDays
<1>5. CASE entry.period \in DOMAIN MonthsForPeriod
  <2>1. entry.period \notin {"Once", "Daily", "WeekDays"}
    BY <1>5 DEF MonthsForPeriod
  <2>2. entry.startTime + Window < DayLength
    BY <1>5, EntryShape, WindowAssumption, CalendarAssumption DEF WindowMayBeCut
  <2>3. Candidate(entry, now) = MonthsCandidate(entry, now)
    BY <2>1 DEF Candidate
  <2>4. PICK n \in 0..Len(MonthStart) :
          /\ MonthOf(entry.startDate) + n * MonthsForPeriod[entry.period] \in Months
          /\ MonthsCandidate(entry, now) =
               Instant(AddMonths(entry.startDate, n * MonthsForPeriod[entry.period]), entry.startTime)
    BY <1>5, <2>2, <2>3, MonthsArePlanned
  <2>5. AddMonths(entry.startDate, n * MonthsForPeriod[entry.period]) \in PlannedDays(entry)
    BY <2>1, <2>4 DEF PlannedDays
  <2> QED BY <2>3, <2>4, <2>5
<1>6. entry.period \in Periods
  BY DEF Entry
<1> QED BY <1>2, <1>3, <1>4, <1>5, <1>6 DEF Periods
-----------------------------------------------------------------------------
(* What an entry was asked for.                                            *)

Ascends(s) == \A j, k \in DOMAIN s : j < k => s[j] < s[k]

\* An entry's memory is the last instant it was asked for.
MemoryIsLastAsked ==
  \A i \in DOMAIN entries :
    IF last[i] = Never THEN asked[i] = <<>>
                       ELSE asked[i] # <<>> /\ last[i] = asked[i][Len(asked[i])]

RequestsAscend == \A i \in DOMAIN asked : Ascends(asked[i])

Inv == TypeOK /\ MemoryIsLastAsked /\ RequestsAscend

LEMMA AppendAscends ==
  ASSUME NEW s \in Seq(Instants), NEW p \in Instants, Ascends(s),
         s = <<>> \/ s[Len(s)] < p
  PROVE  LET new == Append(s, p)
         IN  new \in Seq(Instants) /\ new # <<>> /\ new[Len(new)] = p /\ Ascends(new)
<1> DEFINE new == Append(s, p)
<1>1. /\ new \in Seq(Instants) /\ Len(new) = Len(s) + 1 /\ new # <<>>
      /\ \A j \in 1..Len(s) : new[j] = s[j]
      /\ new[Len(s) + 1] = p
  BY AppendProperties
<1> HIDE DEF new
<1>0. /\ DOMAIN new = 1..Len(new) /\ DOMAIN s = 1..Len(s) /\ Len(s) \in Nat
      /\ \A j \in 1..Len(s) : s[j] \in Instants
      /\ s = <<>> => Len(s) = 0
  BY <1>1
<1>2. \A j \in 1..Len(s) : s[j] \in Int /\ s[j] < p
  <2>1. SUFFICES ASSUME NEW j \in 1..Len(s) PROVE s[j] \in Int /\ s[j] < p
    OBVIOUS
  <2>2. Len(s) \in 1..Len(s) /\ s[Len(s)] < p
    BY <1>0
  <2>3. s[j] \in Instants /\ s[Len(s)] \in Instants /\ p \in Instants
    BY <1>0, <2>2
  <2>4. s[j] \in Int /\ s[Len(s)] \in Int /\ p \in Int
    <3>1. \A x \in Instants : x \in Int
      BY InstantsAreNumbers
    <3> QED BY <2>3, <3>1
  <2>5. j = Len(s) \/ j < Len(s)
    <3>1. Len(s) \in Nat /\ j \in Nat /\ j <= Len(s)
      BY LenProperties
    <3> QED BY <3>1
  <2>6. \A k, n \in 1..Len(s) : k < n => s[k] < s[n]
    BY <1>0 DEF Ascends
  <2>7. j < Len(s) => s[j] < s[Len(s)]
    BY <2>2, <2>6
  <2> QED BY <2>2, <2>4, <2>5, <2>7
<1>3. Ascends(new)
  BY <1>0, <1>1, <1>2 DEF Ascends
<1> QED BY <1>1, <1>3 DEF new

\* A memory that was emptied holds nothing to move forward from.
LEMMA EmptyMemory ==
  ASSUME NEW es \in Seq(Entry)
  PROVE  /\ Forgotten(es) \in [DOMAIN es -> Instants \cup {Never}]
         /\ NotAsked(es) \in [DOMAIN es -> Seq(Instants)]
         /\ \A i \in DOMAIN es : Forgotten(es)[i] = Never /\ NotAsked(es)[i] = <<>>
         /\ \A i \in DOMAIN es : Ascends(NotAsked(es)[i])
BY DEF Forgotten, NotAsked, Ascends

LEMMA InvIsInitial == Init => Inv
<1> SUFFICES ASSUME Init PROVE Inv
  OBVIOUS
<1>1. entries \in Seq(Entry)
  <2>1. PICK n \in 0..MaxEntries : entries \in [1..n -> OfferedEntries]
    BY DEF Init
  <2>2. n \in Nat /\ entries \in [1..n -> Entry]
    BY <2>1, OfferedEntriesAssumption, BoundsAssumption
  <2> QED BY <2>2
<1>2. last = Forgotten(entries) /\ asked = NotAsked(entries) /\ file = entries
  BY DEF Init, Forgotten
<1>3. /\ last \in [DOMAIN entries -> Instants \cup {Never}]
      /\ asked \in [DOMAIN entries -> Seq(Instants)]
      /\ \A i \in DOMAIN entries : last[i] = Never /\ asked[i] = <<>> /\ Ascends(asked[i])
  BY <1>1, <1>2, EmptyMemory
<1>4. TypeOK
  <2>1. forgotten \in [DOMAIN entries -> SUBSET Instants]
    BY DEF Init
  <2> QED BY <1>1, <1>2, <1>3, <2>1, OfferedEntriesAssumption, WindowAssumption, BoundsAssumption
          DEF Init, TypeOK
<1>5. DOMAIN asked = DOMAIN entries
  BY <1>3
<1> QED BY <1>3, <1>4, <1>5 DEF Inv, MemoryIsLastAsked, RequestsAscend

\* The instant that is asked for is later than the entry's memory: the memory is
\* at least DedupeTime old, the instant at most Window, and DedupeTime is longer.
LEMMA EligibleIsLater ==
  ASSUME TypeOK, NEW i \in DOMAIN entries, Eligible(i)
  PROVE  LET planned == Candidate(entries[i], clock)
         IN  planned \in Instants /\ (last[i] = Never \/ last[i] < planned)
<1> DEFINE planned == Candidate(entries[i], clock)
<1>1. entries[i] \in Entry /\ clock \in Instants /\ last[i] \in Instants \cup {Never}
  BY DEF TypeOK
<1>2. planned \in Nat \cup {Never} /\ planned # Never
  BY <1>1, CandidateIsNumber DEF Eligible, InWindow
<1>3. planned <= clock /\ clock <= planned + Window
  BY DEF Eligible, InWindow
<1>4. last[i] = Never \/ clock - last[i] >= DedupeTime
  BY DEF Eligible
<1> HIDE DEF planned
<1>5. planned \in Instants
  BY <1>1, <1>2, <1>3, InstantsAreNumbers DEF Instants
<1>6. last[i] = Never \/ last[i] < planned
  BY <1>1, <1>3, <1>4, <1>5, WindowAssumption DEF Instants
<1> QED BY <1>5, <1>6 DEF planned

LEMMA EvaluateKeepsInv == Inv /\ Evaluate => Inv'
<1> SUFFICES ASSUME Inv, Evaluate PROVE Inv'
  OBVIOUS
<1> USE DEF Inv
<1> DEFINE first   == Min(EligibleEntries)
           planned == Candidate(entries[first], clock)
<1>1. first \in DOMAIN entries /\ Eligible(first)
  <2>0. DOMAIN entries = 1..Len(entries)
    BY DEF TypeOK
  <2>1. EligibleEntries \in SUBSET Nat /\ EligibleEntries # {}
    BY <2>0 DEF EligibleEntries, Evaluate
  <2>2. first \in EligibleEntries
    BY <2>1, LeastExists
  <2> QED BY <2>2 DEF EligibleEntries
<1>2. planned \in Instants /\ (last[first] = Never \/ last[first] < planned)
  BY <1>1, EligibleIsLater
<1>3. /\ last' = [last EXCEPT ![first] = planned]
      /\ asked' = [asked EXCEPT ![first] = Append(@, planned)]
      /\ UNCHANGED <<clock, running, entries, file, forgotten, calm, disturbances, fileErrors>>
  BY DEF Evaluate, Remember
<1> HIDE DEF first, planned
<1>4. /\ asked[first] \in Seq(Instants) /\ Ascends(asked[first])
      /\ asked[first] = <<>> \/ asked[first][Len(asked[first])] < planned
  BY <1>1, <1>2 DEF TypeOK, RequestsAscend, MemoryIsLastAsked
<1>5. LET new == Append(asked[first], planned)
      IN  new \in Seq(Instants) /\ new # <<>> /\ new[Len(new)] = planned /\ Ascends(new)
  BY <1>2, <1>4, AppendAscends
<1>6. asked'[first] = Append(asked[first], planned) /\ last'[first] = planned
  BY <1>1, <1>3 DEF TypeOK
<1>7. \A i \in DOMAIN entries : i # first => asked'[i] = asked[i] /\ last'[i] = last[i]
  BY <1>3 DEF TypeOK
<1>8. TypeOK'
  BY <1>1, <1>2, <1>3, <1>5 DEF TypeOK
<1>9. MemoryIsLastAsked'
  <2>1. ASSUME NEW i \in DOMAIN entries
        PROVE  IF last'[i] = Never THEN asked'[i] = <<>>
               ELSE asked'[i] # <<>> /\ last'[i] = asked'[i][Len(asked'[i])]
    <3>1. CASE i = first
      <4>1. planned # Never
        BY <1>2 DEF Instants, Never
      <4> QED BY <1>5, <1>6, <3>1, <4>1
    <3>2. CASE i # first
      BY <1>7, <3>2 DEF MemoryIsLastAsked
    <3> QED BY <3>1, <3>2
  <2> QED BY <1>3, <2>1 DEF MemoryIsLastAsked
<1>10. RequestsAscend'
  <2>1. DOMAIN asked' = DOMAIN entries /\ DOMAIN asked = DOMAIN entries
    BY <1>3 DEF TypeOK
  <2>2. ASSUME NEW i \in DOMAIN entries PROVE Ascends(asked'[i])
    <3>1. CASE i = first
      BY <1>5, <1>6, <3>1
    <3>2. CASE i # first
      BY <1>7, <2>1, <3>2 DEF RequestsAscend
    <3> QED BY <3>1, <3>2
  <2> QED BY <2>1, <2>2 DEF RequestsAscend
<1> QED BY <1>8, <1>9, <1>10

\* What starts with an empty memory has the invariant, whatever happened before.
LEMMA EmptiedKeepsInv ==
  ASSUME Inv, entries' \in Seq(Entry), file' \in Seq(Entry),
         last' = Forgotten(entries'), asked' = NotAsked(entries'),
         forgotten' \in [DOMAIN entries' -> SUBSET Instants],
         clock' = clock, running' \in BOOLEAN, calm' \in 0..(Window + 1),
         disturbances' \in 0..MaxDisturbances, fileErrors' \in 0..MaxFileErrors
  PROVE  Inv'
<1>1. /\ last' \in [DOMAIN entries' -> Instants \cup {Never}]
      /\ asked' \in [DOMAIN entries' -> Seq(Instants)]
      /\ \A i \in DOMAIN entries' : last'[i] = Never /\ asked'[i] = <<>> /\ Ascends(asked'[i])
  BY EmptyMemory
<1>2. DOMAIN asked' = DOMAIN entries'
  BY <1>1
<1>3. TypeOK'
  BY <1>1 DEF Inv, TypeOK
<1> QED BY <1>1, <1>2, <1>3 DEF Inv, MemoryIsLastAsked, RequestsAscend

LEMMA ForgetsShape ==
  ASSUME Inv
  PROVE  /\ Forgets \in Seq(SUBSET Instants) /\ Len(Forgets) = Len(entries)
         /\ \A es : ForgottenOf(es) \in [DOMAIN es -> SUBSET Instants]
<1>1. \A i \in DOMAIN entries : forgotten[i] \subseteq Instants /\ asked[i] \in Seq(Instants)
  BY DEF Inv, TypeOK
<1>2. \A i \in DOMAIN entries : Forgets[i] \subseteq Instants
  BY <1>1 DEF Forgets, ToSet
<1>3. entries \in Seq(Entry) /\ DOMAIN entries = 1..Len(entries) /\ Len(entries) \in Nat
  BY DEF Inv, TypeOK
<1>4. Forgets = [i \in DOMAIN entries |-> Forgets[i]]
  BY DEF Forgets
<1>5. Forgets \in [1..Len(entries) -> SUBSET Instants]
  BY <1>2, <1>3, <1>4
<1>6. Forgets \in Seq(SUBSET Instants) /\ Len(Forgets) = Len(entries)
  BY <1>3, <1>5
<1>7. \A es : ForgottenOf(es) \in [DOMAIN es -> SUBSET Instants]
  BY <1>2 DEF ForgottenOf
<1> QED BY <1>6, <1>7

\* The elements after the one removed move forward by one.
LEMMA RemoveAtShape ==
  ASSUME NEW S, NEW s \in Seq(S), NEW i \in 1..Len(s)
  PROVE  /\ RemoveAt(s, i) \in Seq(S) /\ Len(RemoveAt(s, i)) = Len(s) - 1
         /\ \A k \in 1..(Len(s) - 1) : RemoveAt(s, i)[k] = s[IF k < i THEN k ELSE k + 1]
<1> DEFINE head == SubSeq(s, 1, i - 1)
           tail == SubSeq(s, i + 1, Len(s))
<1>1. Len(s) \in Nat /\ i \in Nat /\ 1 <= i /\ i <= Len(s)
  OBVIOUS
<1>2. /\ head \in Seq(S) /\ Len(head) = i - 1 /\ \A k \in 1..(i - 1) : head[k] = s[k]
      /\ tail \in Seq(S) /\ Len(tail) = Len(s) - i
      /\ \A k \in 1..(Len(s) - i) : tail[k] = s[i + k]
  BY <1>1, SubSeqProperties
<1>3. RemoveAt(s, i) = head \o tail
  BY DEF RemoveAt
<1> HIDE DEF head, tail
<1>4. /\ head \o tail \in Seq(S) /\ Len(head \o tail) = Len(s) - 1
      /\ \A k \in 1..Len(head) : (head \o tail)[k] = head[k]
      /\ \A k \in 1..Len(tail) : (head \o tail)[Len(head) + k] = tail[k]
  <2>1. /\ Len(head \o tail) = Len(head) + Len(tail)
        /\ \A k \in 1..(Len(head) + Len(tail)) :
             (head \o tail)[k] = IF k <= Len(head) THEN head[k] ELSE tail[k - Len(head)]
        /\ head \o tail \in Seq(S)
    BY <1>2, ConcatProperties
  <2>2. Len(head) \in Nat /\ Len(tail) \in Nat
    BY <1>1, <1>2
  <2>3. ASSUME NEW k \in 1..Len(tail) PROVE (head \o tail)[Len(head) + k] = tail[k]
    <3>1. Len(head) + k \in 1..(Len(head) + Len(tail)) /\ ~(Len(head) + k <= Len(head))
          /\ (Len(head) + k) - Len(head) = k
      BY <2>2
    <3> QED BY <2>1, <3>1
  <2>4. Len(head) + Len(tail) = Len(s) - 1
    BY <1>1, <1>2
  <2> QED BY <2>1, <2>2, <2>3, <2>4
<1>5. ASSUME NEW k \in 1..(Len(s) - 1) PROVE (head \o tail)[k] = s[IF k < i THEN k ELSE k + 1]
  <2>1. CASE k < i
    <3>1. k \in 1..(i - 1)
      BY <1>1, <2>1
    <3> QED BY <1>2, <1>4, <2>1, <3>1
  <2>2. CASE ~(k < i)
    <3> DEFINE n == k - (i - 1)
    <3>1. n \in 1..(Len(s) - i) /\ i + n = k + 1 /\ (i - 1) + n = k
      BY <1>1, <2>2
    <3> HIDE DEF n
    <3>2. tail[n] = s[i + n]
      BY <1>2, <3>1
    <3>3. (head \o tail)[(i - 1) + n] = tail[n]
      BY <1>2, <1>4, <3>1
    <3> QED BY <2>2, <3>1, <3>2, <3>3
  <2> QED BY <2>1, <2>2
<1> QED BY <1>3, <1>4, <1>5

\* Edits, the numbers they keep count of.
LEMMA EditShape ==
  ASSUME Inv, NEW es \in Seq(Entry), NEW ok \in BOOLEAN, Edit(es, ok)
  PROVE  /\ entries' = es /\ file' \in Seq(Entry) /\ clock' = clock /\ running' \in BOOLEAN
         /\ calm' \in 0..(Window + 1)
         /\ disturbances' \in 0..MaxDisturbances /\ fileErrors' \in 0..MaxFileErrors
<1>1. disturbances' \in 0..MaxDisturbances /\ calm' \in 0..(Window + 1)
  BY WindowAssumption, BoundsAssumption DEF Edit, Disturbed, Inv, TypeOK
<1>2. file' \in Seq(Entry) /\ fileErrors' \in 0..MaxFileErrors
  BY BoundsAssumption DEF Edit, Saved, Inv, TypeOK
<1> QED BY <1>1, <1>2 DEF Edit, Inv, TypeOK

LEMMA AddKeepsInv ==
  ASSUME Inv, NEW entry \in OfferedEntries, NEW ok \in BOOLEAN, AddEntry(entry, ok)
  PROVE  Inv'
<1>1. Append(entries, entry) \in Seq(Entry)
  BY OfferedEntriesAssumption DEF Inv, TypeOK
<1>2. /\ Edit(Append(entries, entry), ok)
      /\ last' = Forgotten(entries') /\ asked' = NotAsked(entries')
      /\ forgotten' = ForgottenOf(entries')
  BY DEF AddEntry
<1>3. forgotten' \in [DOMAIN entries' -> SUBSET Instants]
  BY <1>2, ForgetsShape
<1> QED BY <1>1, <1>2, <1>3, EditShape, EmptiedKeepsInv

LEMMA RemoveKeepsInv ==
  ASSUME Inv, NEW i \in 1..MaxEntries, NEW ok \in BOOLEAN, RemoveEntry(i, ok)
  PROVE  Inv'
<1>1. /\ Edit(RemoveAt(entries, i), ok)
      /\ last' = Forgotten(entries') /\ asked' = NotAsked(entries')
      /\ forgotten' = RemoveAt(Forgets, i)
  BY DEF RemoveEntry
<1>2. entries \in Seq(Entry) /\ i \in 1..Len(entries)
  BY DEF Inv, TypeOK, RemoveEntry
<1>3. RemoveAt(entries, i) \in Seq(Entry) /\ Len(RemoveAt(entries, i)) = Len(entries) - 1
  BY <1>2, RemoveAtShape
<1>4. RemoveAt(Forgets, i) \in Seq(SUBSET Instants) /\ Len(RemoveAt(Forgets, i)) = Len(entries) - 1
  BY <1>2, RemoveAtShape, ForgetsShape
<1>5. forgotten' \in [DOMAIN entries' -> SUBSET Instants]
  <2>1. entries' = RemoveAt(entries, i)
    BY <1>1 DEF Edit
  <2> QED BY <1>1, <1>3, <1>4, <2>1
<1> QED BY <1>1, <1>3, <1>5, EditShape, EmptiedKeepsInv

LEMMA UpdateKeepsInv ==
  ASSUME Inv, NEW i \in 1..MaxEntries, NEW entry \in OfferedEntries, NEW ok \in BOOLEAN,
         UpdateEntry(i, entry, ok)
  PROVE  Inv'
<1> DEFINE es == [entries EXCEPT ![i] = entry]
<1>1. i \in DOMAIN entries /\ es \in Seq(Entry) /\ DOMAIN es = DOMAIN entries
  <2>0. entries \in Seq(Entry) /\ i \in DOMAIN entries
    BY DEF Inv, TypeOK, UpdateEntry
  <2>1. entries \in Seq(Entry) /\ i \in 1..Len(entries) /\ DOMAIN entries = 1..Len(entries)
    BY <2>0
  <2>2. entry \in Entry
    BY OfferedEntriesAssumption
  <2> QED BY <2>1, <2>2, ExceptSeq
<1>2. /\ Edit(es, ok)
      /\ last' = [last EXCEPT ![i] = Never]
      /\ asked' = [asked EXCEPT ![i] = <<>>]
      /\ forgotten' = [forgotten EXCEPT ![i] = {}]
  BY DEF UpdateEntry, MemoryWithout
<1> HIDE DEF es
<1>3. /\ entries' = es /\ file' \in Seq(Entry) /\ clock' = clock /\ running' \in BOOLEAN
      /\ calm' \in 0..(Window + 1)
      /\ disturbances' \in 0..MaxDisturbances /\ fileErrors' \in 0..MaxFileErrors
  BY <1>1, <1>2, EditShape
<1>4. /\ DOMAIN last = DOMAIN entries /\ DOMAIN asked = DOMAIN entries
      /\ DOMAIN asked' = DOMAIN entries
      /\ last'[i] = Never /\ asked'[i] = <<>>
      /\ \A j \in DOMAIN entries : j # i => last'[j] = last[j] /\ asked'[j] = asked[j]
  BY <1>1, <1>2 DEF Inv, TypeOK
<1>5. TypeOK'
  <2>1. last' \in [DOMAIN entries -> Instants \cup {Never}]
    BY <1>2 DEF Inv, TypeOK
  <2>2. asked' \in [DOMAIN entries -> Seq(Instants)]
    BY <1>2, EmptySeq DEF Inv, TypeOK
  <2>3. forgotten' \in [DOMAIN entries -> SUBSET Instants]
    BY <1>2 DEF Inv, TypeOK
  <2> QED BY <1>1, <1>3, <2>1, <2>2, <2>3 DEF Inv, TypeOK
<1>6. MemoryIsLastAsked'
  <2>1. ASSUME NEW j \in DOMAIN entries
        PROVE  IF last'[j] = Never THEN asked'[j] = <<>>
               ELSE asked'[j] # <<>> /\ last'[j] = asked'[j][Len(asked'[j])]
    BY <1>4 DEF Inv, MemoryIsLastAsked
  <2> QED BY <1>1, <1>3, <2>1 DEF MemoryIsLastAsked
<1>7. RequestsAscend'
  <2>1. ASSUME NEW j \in DOMAIN entries PROVE Ascends(asked'[j])
    <3>1. CASE j = i
      BY <1>4, <3>1 DEF Ascends
    <3>2. CASE j # i
      BY <1>4, <3>2 DEF Inv, RequestsAscend
    <3> QED BY <3>1, <3>2
  <2> QED BY <1>4, <2>1 DEF RequestsAscend
<1> QED BY <1>5, <1>6, <1>7 DEF Inv

LEMMA StartKeepsInv ==
  ASSUME Inv, NEW readable \in BOOLEAN, Start(readable)
  PROVE  Inv'
<1>1. entries' \in Seq(Entry) /\ file' = entries'
  BY DEF Inv, TypeOK, Start
<1>2. fileErrors' \in 0..MaxFileErrors
  BY BoundsAssumption DEF Inv, TypeOK, Start
<1>3. /\ last' = Forgotten(entries') /\ asked' = NotAsked(entries')
      /\ clock' = clock /\ running' = TRUE /\ calm' = 0 /\ disturbances' = disturbances
  BY DEF Start
<1>4. calm' \in 0..(Window + 1) /\ disturbances' \in 0..MaxDisturbances
  BY <1>3, WindowAssumption DEF Inv, TypeOK
<1>5. forgotten' \in [DOMAIN entries' -> SUBSET Instants]
  BY ForgetsShape DEF Start
<1> QED BY <1>1, <1>2, <1>3, <1>4, <1>5, EmptiedKeepsInv

\* A step that leaves the entries and what they were asked for alone.
LEMMA OthersKeepInv ==
  ASSUME Inv, UNCHANGED <<entries, last, file, asked>>,
         forgotten' \in [DOMAIN entries -> SUBSET Instants],
         clock' \in Instants, running' \in BOOLEAN, calm' \in 0..(Window + 1),
         disturbances' \in 0..MaxDisturbances, fileErrors' \in 0..MaxFileErrors
  PROVE  Inv'
<1>1. TypeOK'
  BY DEF Inv, TypeOK
<1>2. MemoryIsLastAsked' /\ RequestsAscend'
  BY DEF Inv, MemoryIsLastAsked, RequestsAscend
<1> QED BY <1>1, <1>2 DEF Inv

LEMMA InvIsInductive == Inv /\ [Next]_vars => Inv'
<1> SUFFICES ASSUME Inv, [Next]_vars PROVE Inv'
  OBVIOUS
<1>1. CASE Evaluate
  BY <1>1, EvaluateKeepsInv
<1>2. CASE Edits
  BY <1>2, AddKeepsInv, UpdateKeepsInv, RemoveKeepsInv DEF Edits
<1>3. CASE PowerLoss
  <2>1. disturbances' \in 0..MaxDisturbances /\ calm' \in 0..(Window + 1)
    BY <1>3, WindowAssumption, BoundsAssumption DEF PowerLoss, Disturbed, Inv, TypeOK
  <2>2. running' \in BOOLEAN
    BY <1>3 DEF PowerLoss
  <2> QED BY <1>3, <2>1, <2>2, OthersKeepInv DEF PowerLoss, Inv, TypeOK
<1>4. CASE \E readable \in BOOLEAN : Start(readable)
  BY <1>4, StartKeepsInv
<1>5. CASE \E t \in SettableTimes : SetSystemTime(t)
  <2>1. PICK t \in SettableTimes : SetSystemTime(t)
    BY <1>5
  <2>2. disturbances' \in 0..MaxDisturbances /\ calm' \in 0..(Window + 1) /\ clock' \in Instants
    BY <2>1, WindowAssumption, BoundsAssumption, OfferedEntriesAssumption
       DEF SetSystemTime, Disturbed, Inv, TypeOK
  <2>3. forgotten' \in [DOMAIN entries -> SUBSET Instants]
    BY <2>1 DEF SetSystemTime, Inv, TypeOK
  <2> QED BY <2>1, <2>2, <2>3, OthersKeepInv DEF SetSystemTime, Inv, TypeOK
<1>6. CASE AdvanceClock
  <2>1. clock' \in Instants
    <3>1. clock \in Nat /\ MaxTime \in Int /\ clock < MaxTime /\ clock' = clock + 1
      BY <1>6, MonthShape, CalendarAssumption DEF AdvanceClock, Inv, TypeOK, Instants, MaxTime
    <3> QED BY <3>1 DEF Instants
  <2>2. calm' \in 0..(Window + 1)
    BY <1>6, WindowAssumption DEF AdvanceClock, Inv, TypeOK
  <2> QED BY <1>6, <2>1, <2>2, OthersKeepInv DEF AdvanceClock, Inv, TypeOK
<1>7. CASE UNCHANGED vars
  BY <1>7, OthersKeepInv DEF vars, history, Inv, TypeOK
<1> QED BY <1>1, <1>2, <1>3, <1>4, <1>5, <1>6, <1>7 DEF Next

\* Every variable of the schedule has its type: the search for a planned instant
\* (buildCandidatePlanned) never leaves the calendar, and the memory
\* (m_lastPlannedTriggered) has a place for each entry and no other.
THEOREM MemoryHasAPlacePerEntry == Spec => []TypeOK
<1>1. Inv => TypeOK
  BY DEF Inv
<1> QED BY <1>1, InvIsInitial, InvIsInductive, PTL DEF Spec
-----------------------------------------------------------------------------
(* What is due is asked for.                                               *)

\* The search (buildCandidatePlanned) finds the planned instant whose window is
\* open whenever there is one: for every calendar, every kind of period, every
\* first day and every time of day.
THEOREM PlannedIsFound == Spec => []CandidateIsPlanned
<1>1. Inv => CandidateIsPlanned
  <2> SUFFICES ASSUME Inv, NEW entry \in OfferedEntries, ~WindowMayBeCut(entry)
               PROVE  LET due == {p \in PlannedInstants(entry) : InWindow(p, clock)}
                          found == Candidate(entry, clock)
                      IN  IF InWindow(found, clock) THEN due = {found} ELSE due = {}
    BY DEF CandidateIsPlanned
  <2>1. entry \in Entry /\ clock \in Instants
    BY OfferedEntriesAssumption DEF Inv, TypeOK
  <2>2. \A p \in PlannedInstants(entry) : InWindow(p, clock) => Candidate(entry, clock) = p
    BY <2>1, SearchFindsPlanned
  <2>3. InWindow(Candidate(entry, clock), clock) => Candidate(entry, clock) \in PlannedInstants(entry)
    BY <2>1, FoundIsPlanned
  <2> QED BY <2>2, <2>3
<1> QED BY <1>1, InvIsInitial, InvIsInductive, PTL DEF Spec

\* An entry's memory is an instant it plans.
MemoryIsPlanned ==
  \A i \in DOMAIN entries :
    last[i] # Never /\ ~WindowMayBeCut(entries[i]) => last[i] \in PlannedInstants(entries[i])

LEMMA EmptiedIsPlanned == last' = Forgotten(entries') => MemoryIsPlanned'
  BY DEF Forgotten, MemoryIsPlanned

LEMMA MemoryStaysPlanned ==
  ASSUME Inv, MemoryIsPlanned, [Next]_vars
  PROVE  MemoryIsPlanned'
<1>1. CASE Evaluate
  <2> DEFINE first   == Min(EligibleEntries)
             planned == Candidate(entries[first], clock)
  <2>1. first \in DOMAIN entries /\ Eligible(first)
    <3>1. DOMAIN entries = 1..Len(entries)
      BY DEF Inv, TypeOK
    <3>2. EligibleEntries \in SUBSET Nat /\ EligibleEntries # {}
      BY <1>1, <3>1 DEF EligibleEntries, Evaluate
    <3> QED BY <3>2, LeastExists DEF EligibleEntries
  <2>2. entries[first] \in Entry /\ clock \in Instants /\ InWindow(planned, clock)
    BY <2>1 DEF Eligible, Inv, TypeOK
  <2>3. ~WindowMayBeCut(entries[first]) => planned \in PlannedInstants(entries[first])
    BY <2>2, FoundIsPlanned
  <2>4. last' = [last EXCEPT ![first] = planned] /\ entries' = entries
    BY <1>1 DEF Evaluate, Remember
  <2> HIDE DEF first, planned
  <2> QED BY <2>1, <2>3, <2>4 DEF MemoryIsPlanned, Inv, TypeOK, WindowMayBeCut
<1>2. ASSUME NEW ok \in BOOLEAN, NEW entry \in OfferedEntries, AddEntry(entry, ok) PROVE MemoryIsPlanned'
  BY <1>2, EmptiedIsPlanned DEF AddEntry
<1>3. ASSUME NEW ok \in BOOLEAN, NEW i \in 1..MaxEntries, RemoveEntry(i, ok) PROVE MemoryIsPlanned'
  BY <1>3, EmptiedIsPlanned DEF RemoveEntry
<1>4. ASSUME NEW ok \in BOOLEAN, NEW i \in 1..MaxEntries, NEW entry \in OfferedEntries,
             UpdateEntry(i, entry, ok)
      PROVE  MemoryIsPlanned'
  <2>1. entries' = [entries EXCEPT ![i] = entry] /\ last' = [last EXCEPT ![i] = Never]
        /\ i \in DOMAIN entries /\ DOMAIN last = DOMAIN entries
    BY <1>4 DEF UpdateEntry, Edit, MemoryWithout, Inv, TypeOK
  <2>2. last'[i] = Never /\ DOMAIN entries' = DOMAIN entries
        /\ \A j \in DOMAIN entries : j # i => last'[j] = last[j] /\ entries'[j] = entries[j]
    BY <2>1
  <2>3. ASSUME NEW j \in DOMAIN entries', last'[j] # Never, ~WindowMayBeCut(entries'[j])
        PROVE  last'[j] \in PlannedInstants(entries'[j])
    <3>1. last'[j] = last[j] /\ entries'[j] = entries[j] /\ j \in DOMAIN entries
      BY <2>2, <2>3
    <3> QED BY <2>3, <3>1 DEF MemoryIsPlanned
  <2> QED BY <2>3 DEF MemoryIsPlanned
<1>5. ASSUME NEW readable \in BOOLEAN, Start(readable) PROVE MemoryIsPlanned'
  BY <1>5, EmptiedIsPlanned DEF Start
<1>6. CASE PowerLoss \/ (\E t \in SettableTimes : SetSystemTime(t)) \/ AdvanceClock \/ UNCHANGED vars
  <2>1. last' = last /\ entries' = entries
    BY <1>6 DEF PowerLoss, SetSystemTime, AdvanceClock, vars
  <2> QED BY <2>1 DEF MemoryIsPlanned
<1> QED BY <1>1, <1>2, <1>3, <1>4, <1>5, <1>6 DEF Next, Edits

LEMMA PlannedDaysAreNumbers ==
  ASSUME NEW entry \in Entry
  PROVE  PlannedDays(entry) \subseteq Nat
<1>1. CASE entry.period \in {"Once", "Daily", "WeekDays"}
  BY <1>1, EntryShape DEF PlannedDays, Days
<1>2. CASE entry.period \in DOMAIN MonthsForPeriod
  <2> DEFINE step == MonthsForPeriod[entry.period]
  <2>1. entry.period \notin {"Once", "Daily", "WeekDays"} /\ step \in Nat
    BY <1>2 DEF MonthsForPeriod
  <2> HIDE DEF step
  <2>2. ASSUME NEW n \in 0..Len(MonthStart), MonthOf(entry.startDate) + n * step \in Months
        PROVE  AddMonths(entry.startDate, n * step) \in Nat
    <3>1. n \in Nat
      BY MonthShape
    <3>2. n * step \in Nat
      BY <2>1, <3>1
    <3> QED BY <2>2, <3>2, DayOfPeriod DEF Days
  <2>3. PlannedDays(entry) = {AddMonths(entry.startDate, n * step) :
          n \in {k \in 0..Len(MonthStart) : MonthOf(entry.startDate) + k * step \in Months}}
    BY <2>1 DEF PlannedDays, step
  <2> QED BY <2>2, <2>3
<1>3. entry.period \in Periods
  BY DEF Entry
<1> QED BY <1>1, <1>2, <1>3 DEF Periods

\* Two instants of an entry are at least a day apart.
LEMMA PlannedApart ==
  ASSUME NEW entry \in Entry, NEW p \in PlannedInstants(entry), NEW q \in PlannedInstants(entry)
  PROVE  p \in Nat /\ q \in Nat /\ (p < q => p + DayLength <= q)
<1>1. entry.startTime \in Nat /\ DayLength \in Nat
  BY EntryShape, CalendarAssumption
<1>2. PICK a \in Nat : p = Instant(a, entry.startTime)
  BY PlannedDaysAreNumbers DEF PlannedInstants
<1>3. PICK b \in Nat : q = Instant(b, entry.startTime)
  BY PlannedDaysAreNumbers DEF PlannedInstants
<1>4. p \in Nat /\ q \in Nat
  BY <1>1, <1>2, <1>3, InstantIsNumber
<1>5. ASSUME p < q PROVE p + DayLength <= q
  <2>1. ~(b <= a)
    <3>1. b <= a => q <= p
      BY <1>1, <1>2, <1>3, LaterDayIsLater
    <3> QED BY <1>4, <1>5, <3>1
  <2>2. a < b
    BY <2>1
  <2> QED BY <1>1, <1>2, <1>3, <2>2, DaysApart
<1> QED BY <1>4, <1>5

\* The clock moves on past the end of a window only when the entry has nothing
\* left to ask for: then its memory is the instant of that window or a later one,
\* since an earlier one is at least a day, and so DedupeTime, before it.
LEMMA ClosedIsAsked ==
  ASSUME Inv, MemoryIsPlanned, AdvanceClock, NEW i \in DOMAIN entries, NEW p \in Closed(i)
  PROVE  \E q \in ToSet(asked[i]) : q >= p
<1> DEFINE entry == entries[i]
<1>1. /\ entry \in Entry /\ clock \in Instants /\ clock \in Nat
      /\ entry.enabled /\ ~WindowMayBeCut(entry) /\ p \in PlannedInstants(entry) /\ p + Window = clock
  BY DEF Closed, Inv, TypeOK, Instants
<1>2. p \in Nat
  BY <1>1, PlannedApart
<1>3. InWindow(p, clock)
  BY <1>1, <1>2, WindowAssumption DEF InWindow, Never
<1>4. Candidate(entry, clock) = p
  BY <1>1, <1>3, SearchFindsPlanned
<1>5. ~Eligible(i)
  BY DEF AdvanceClock, EligibleEntries, Closed
<1>6. last[i] # Never /\ (last[i] = p \/ ~(clock - last[i] >= DedupeTime))
  BY <1>1, <1>3, <1>4, <1>5 DEF Eligible
<1>7. last[i] \in PlannedInstants(entry) /\ last[i] \in Nat
  <2>1. last[i] \in PlannedInstants(entry)
    BY <1>1, <1>6 DEF MemoryIsPlanned
  <2> QED BY <1>1, <2>1, PlannedApart
<1>8. last[i] >= p
  <2>1. last[i] < p => last[i] + DayLength <= p
    BY <1>1, <1>7, PlannedApart
  <2> QED BY <1>1, <1>2, <1>6, <1>7, <2>1, WindowAssumption, CalendarAssumption
<1>9. last[i] \in ToSet(asked[i])
  <2>1. asked[i] \in Seq(Instants) /\ asked[i] # <<>> /\ last[i] = asked[i][Len(asked[i])]
    BY <1>6 DEF Inv, TypeOK, MemoryIsLastAsked
  <2>2. Len(asked[i]) \in DOMAIN asked[i]
    BY <2>1
  <2> QED BY <2>1, <2>2 DEF ToSet
<1> QED BY <1>8, <1>9

\* A planned instant has been asked for when its window closes, whatever the
\* calendar, the entries and what was done to them.
THEOREM WhatIsDueIsAsked == Spec => DueIsAsked
<1>1. Init => MemoryIsPlanned
  BY DEF Init, MemoryIsPlanned
<1>2. Inv /\ MemoryIsPlanned /\ [Next]_vars =>
        [AdvanceClock => \A i \in DOMAIN entries : \A p \in Closed(i) :
                           \E q \in ToSet(asked[i]) : q >= p]_vars
  BY ClosedIsAsked
<1> QED BY <1>1, <1>2, InvIsInitial, InvIsInductive, MemoryStaysPlanned, PTL DEF Spec, DueIsAsked
-----------------------------------------------------------------------------
(* What is asked for moves forward.                                        *)

\* What an entry asked for before its memory was emptied is past, and none of it
\* is later than what it asked for since.
PastIsBehind ==
  \A i \in DOMAIN entries :
    /\ \A p \in forgotten[i] : p <= clock
    /\ ~WindowMayBeCut(entries[i]) =>
         /\ forgotten[i] \cup ToSet(asked[i]) \subseteq PlannedInstants(entries[i])
         /\ \A p \in forgotten[i], q \in ToSet(asked[i]) : p <= q

LEMMA AppendToSet ==
  ASSUME NEW S, NEW s \in Seq(S), NEW e \in S
  PROVE  ToSet(Append(s, e)) = ToSet(s) \cup {e}
<1>1. /\ Append(s, e) \in Seq(S) /\ Len(Append(s, e)) = Len(s) + 1 /\ Len(s) \in Nat
      /\ \A j \in 1..Len(s) : Append(s, e)[j] = s[j]
      /\ Append(s, e)[Len(s) + 1] = e
  BY AppendProperties
<1>2. DOMAIN Append(s, e) = DOMAIN s \cup {Len(s) + 1}
  BY <1>1
<1> QED BY <1>1, <1>2 DEF ToSet

\* A request is at most Window old, and less than a day: an instant of the entry
\* after it is still to come.
LEMMA NoneAfterRequest ==
  ASSUME NEW entry \in Entry, NEW now \in Instants, NEW planned \in PlannedInstants(entry),
         NEW p \in PlannedInstants(entry), InWindow(planned, now), p <= now
  PROVE  p <= planned
<1>1. p \in Nat /\ planned \in Nat /\ now \in Nat /\ (planned < p => planned + DayLength <= p)
  BY PlannedApart DEF Instants
<1>2. now <= planned + Window
  BY DEF InWindow
<1> QED BY <1>1, <1>2, WindowAssumption, CalendarAssumption

LEMMA EvaluateKeepsPast ==
  ASSUME Inv, PastIsBehind, Evaluate
  PROVE  PastIsBehind'
<1> DEFINE first   == Min(EligibleEntries)
           planned == Candidate(entries[first], clock)
<1>1. first \in DOMAIN entries /\ Eligible(first)
  <2>1. DOMAIN entries = 1..Len(entries)
    BY DEF Inv, TypeOK
  <2>2. EligibleEntries \in SUBSET Nat /\ EligibleEntries # {}
    BY <2>1 DEF EligibleEntries, Evaluate
  <2> QED BY <2>2, LeastExists DEF EligibleEntries
<1>2. entries[first] \in Entry /\ clock \in Instants /\ InWindow(planned, clock)
  BY <1>1 DEF Eligible, Inv, TypeOK
<1>3. ~WindowMayBeCut(entries[first]) => planned \in PlannedInstants(entries[first])
  BY <1>2, FoundIsPlanned
<1>4. planned \in Instants
  BY <1>1, EligibleIsLater DEF Inv
<1>5. asked' = [asked EXCEPT ![first] = Append(@, planned)] /\ UNCHANGED <<clock, entries, forgotten>>
  BY DEF Evaluate
<1> HIDE DEF first, planned
<1>6. asked[first] \in Seq(Instants)
  BY <1>1 DEF Inv, TypeOK
<1>7. ToSet(asked'[first]) = ToSet(asked[first]) \cup {planned}
  <2>1. asked'[first] = Append(asked[first], planned)
    BY <1>1, <1>5 DEF Inv, TypeOK
  <2> QED BY <1>4, <1>6, <2>1, AppendToSet
<1>8. \A i \in DOMAIN entries : i # first => asked'[i] = asked[i]
  BY <1>5 DEF Inv, TypeOK
<1>9. ASSUME ~WindowMayBeCut(entries[first])
      PROVE  /\ forgotten[first] \cup ToSet(asked'[first]) \subseteq PlannedInstants(entries[first])
             /\ \A p \in forgotten[first], q \in ToSet(asked'[first]) : p <= q
  <2>1. \A p \in forgotten[first] : p \in PlannedInstants(entries[first]) /\ p <= clock
    BY <1>1, <1>9 DEF PastIsBehind
  <2>2. \A p \in forgotten[first] : p <= planned
    BY <1>2, <1>3, <1>9, <2>1, NoneAfterRequest
  <2> QED BY <1>1, <1>3, <1>7, <1>9, <2>2 DEF PastIsBehind
<1>10. ASSUME NEW i \in DOMAIN entries
       PROVE  /\ \A p \in forgotten[i] : p <= clock
              /\ ~WindowMayBeCut(entries[i]) =>
                   /\ forgotten[i] \cup ToSet(asked'[i]) \subseteq PlannedInstants(entries[i])
                   /\ \A p \in forgotten[i], q \in ToSet(asked'[i]) : p <= q
  <2>1. CASE i = first
    BY <1>9, <2>1 DEF PastIsBehind
  <2>2. CASE i # first
    BY <1>8, <2>2 DEF PastIsBehind
  <2> QED BY <2>1, <2>2
<1>11. \A e : WindowMayBeCut(e)' = WindowMayBeCut(e) /\ PlannedInstants(e)' = PlannedInstants(e)
  BY DEF WindowMayBeCut, PlannedInstants, PlannedDays
<1> QED BY <1>5, <1>10, <1>11 DEF PastIsBehind

\* What is forgotten is an instant of the entry, and past.
LEMMA ForgetsArePast ==
  ASSUME PastIsBehind, NEW i \in DOMAIN entries, NEW p \in Forgets[i]
  PROVE  p <= clock /\ (~WindowMayBeCut(entries[i]) => p \in PlannedInstants(entries[i]))
<1>1. p \in forgotten[i] \cup ToSet(asked[i]) /\ p <= clock
  BY DEF Forgets
<1> QED BY <1>1 DEF PastIsBehind

\* Nothing was asked for since the memory was emptied.
LEMMA EmptiedKeepsPast ==
  ASSUME asked' = NotAsked(entries'), clock' = clock,
         \A i \in DOMAIN entries' : \A p \in forgotten'[i] :
           p <= clock /\ (~WindowMayBeCut(entries'[i]) => p \in PlannedInstants(entries'[i]))
  PROVE  PastIsBehind'
<1>1. \A i \in DOMAIN entries' : ToSet(asked'[i]) = {}
  BY DEF NotAsked, ToSet
<1> QED BY <1>1 DEF PastIsBehind

LEMMA PastStaysBehind ==
  ASSUME Inv, PastIsBehind, [Next]_vars
  PROVE  PastIsBehind'
<1>1. CASE Evaluate
  BY <1>1, EvaluateKeepsPast
<1>2. ASSUME forgotten' = ForgottenOf(entries'), asked' = NotAsked(entries'), clock' = clock
      PROVE  PastIsBehind'
  <2>1. ASSUME NEW i \in DOMAIN entries', NEW p \in forgotten'[i]
        PROVE  p <= clock /\ (~WindowMayBeCut(entries'[i]) => p \in PlannedInstants(entries'[i]))
    <3>1. i \in DOMAIN entries /\ entries'[i] = entries[i] /\ p \in Forgets[i]
      BY <1>2, <2>1 DEF ForgottenOf
    <3> QED BY <3>1, ForgetsArePast
  <2> QED BY <1>2, <2>1, EmptiedKeepsPast
<1>3. ASSUME NEW ok \in BOOLEAN, NEW entry \in OfferedEntries, AddEntry(entry, ok) PROVE PastIsBehind'
  BY <1>2, <1>3 DEF AddEntry, Edit
<1>4. ASSUME NEW readable \in BOOLEAN, Start(readable) PROVE PastIsBehind'
  BY <1>2, <1>4 DEF Start
<1>5. ASSUME NEW ok \in BOOLEAN, NEW i \in 1..MaxEntries, RemoveEntry(i, ok) PROVE PastIsBehind'
  <2>1. /\ entries' = RemoveAt(entries, i) /\ forgotten' = RemoveAt(Forgets, i)
        /\ asked' = NotAsked(entries') /\ clock' = clock
        /\ entries \in Seq(Entry) /\ i \in 1..Len(entries) /\ Len(entries) \in Nat
    BY <1>5 DEF RemoveEntry, Edit, Inv, TypeOK
  <2>2. /\ entries' \in Seq(Entry) /\ Len(entries') = Len(entries) - 1
        /\ \A k \in 1..(Len(entries) - 1) : entries'[k] = entries[IF k < i THEN k ELSE k + 1]
    BY <2>1, RemoveAtShape
  <2>3. \A k \in 1..(Len(entries) - 1) : forgotten'[k] = Forgets[IF k < i THEN k ELSE k + 1]
    <3>1. Forgets \in Seq(SUBSET Instants) /\ Len(Forgets) = Len(entries)
      BY ForgetsShape
    <3>2. i \in 1..Len(Forgets)
      BY <2>1, <3>1
    <3>3. \A k \in 1..(Len(Forgets) - 1) :
            RemoveAt(Forgets, i)[k] = Forgets[IF k < i THEN k ELSE k + 1]
      BY <3>1, <3>2, RemoveAtShape
    <3> QED BY <2>1, <3>1, <3>3
  <2>4. ASSUME NEW k \in DOMAIN entries', NEW p \in forgotten'[k]
        PROVE  p <= clock /\ (~WindowMayBeCut(entries'[k]) => p \in PlannedInstants(entries'[k]))
    <3>1. PICK j \in DOMAIN entries : entries'[k] = entries[j] /\ forgotten'[k] = Forgets[j]
      <4>1. k \in 1..(Len(entries) - 1)
        BY <2>2
      <4>2. (IF k < i THEN k ELSE k + 1) \in DOMAIN entries
        BY <2>1, <4>1
      <4> QED BY <2>2, <2>3, <4>1, <4>2
    <3> QED BY <2>4, <3>1, ForgetsArePast
  <2> QED BY <2>1, <2>4, EmptiedKeepsPast
<1>6. ASSUME NEW ok \in BOOLEAN, NEW i \in 1..MaxEntries, NEW entry \in OfferedEntries,
             UpdateEntry(i, entry, ok)
      PROVE  PastIsBehind'
  <2>1. /\ entries' = [entries EXCEPT ![i] = entry] /\ asked' = [asked EXCEPT ![i] = <<>>]
        /\ forgotten' = [forgotten EXCEPT ![i] = {}] /\ clock' = clock
        /\ DOMAIN asked = DOMAIN entries /\ DOMAIN forgotten = DOMAIN entries
    BY <1>6 DEF UpdateEntry, Edit, Inv, TypeOK
  <2>2. ASSUME NEW j \in DOMAIN entries'
        PROVE  /\ \A p \in forgotten'[j] : p <= clock'
               /\ ~WindowMayBeCut(entries'[j]) =>
                    /\ forgotten'[j] \cup ToSet(asked'[j]) \subseteq PlannedInstants(entries'[j])
                    /\ \A p \in forgotten'[j], q \in ToSet(asked'[j]) : p <= q
    <3>1. CASE j = i
      <4>1. forgotten'[j] = {} /\ asked'[j] = <<>>
        BY <2>1, <3>1
      <4>2. ToSet(asked'[j]) = {}
        BY <4>1 DEF ToSet
      <4> QED BY <4>1, <4>2
    <3>2. CASE j # i
      <4>1. j \in DOMAIN entries /\ forgotten'[j] = forgotten[j] /\ asked'[j] = asked[j]
            /\ entries'[j] = entries[j]
        BY <2>1, <3>2
      <4> QED BY <2>1, <4>1 DEF PastIsBehind
    <3> QED BY <3>1, <3>2
  <2> QED BY <2>2 DEF PastIsBehind
<1>7. CASE \E t \in SettableTimes : SetSystemTime(t)
  <2>1. PICK t \in SettableTimes : SetSystemTime(t)
    BY <1>7
  <2>2. entries' = entries /\ asked' = asked /\ clock' = t
        /\ \A i \in DOMAIN entries : forgotten'[i] = {p \in forgotten[i] : p <= t}
    BY <2>1 DEF SetSystemTime
  <2> QED BY <2>2 DEF PastIsBehind
<1>8. CASE PowerLoss \/ AdvanceClock \/ UNCHANGED vars
  <2>1. /\ UNCHANGED <<entries, asked, forgotten>>
        /\ clock \in Int /\ clock' \in Int /\ clock <= clock'
        /\ \A i \in DOMAIN entries : \A p \in forgotten[i] : p \in Int
    <3>1. clock \in Nat /\ \A i \in DOMAIN entries : forgotten[i] \subseteq Nat
      BY InstantsAreNumbers DEF Inv, TypeOK
    <3>2. clock' = clock \/ clock' = clock + 1
      BY <1>8 DEF PowerLoss, AdvanceClock, vars
    <3> QED BY <1>8, <3>1, <3>2 DEF PowerLoss, AdvanceClock, vars, history
  <2>2. \A i \in DOMAIN entries : \A p \in forgotten[i] : p <= clock'
    BY <2>1 DEF PastIsBehind
  <2> QED BY <2>1, <2>2 DEF PastIsBehind
<1> QED BY <1>1, <1>3, <1>4, <1>5, <1>6, <1>7, <1>8 DEF Next, Edits

\* An entry's requests (evaluate) move forward in planned time, for every calendar
\* and every change of the clock: strictly as long as the entry has its memory.
\* When the memory is emptied, by adding or removing any entry or by a restart, no
\* instant before the latest is asked for again, only the latest itself may be,
\* once more.  Not covered: an entry after its own edit, instants that a clock set
\* back makes come again, and periods of months whose window passes midnight.
THEOREM RequestsGoForward == Spec => []RequestsMoveForward
<1>1. Init => PastIsBehind
  <2>1. ASSUME Init, NEW i \in DOMAIN entries PROVE forgotten[i] = {} /\ ToSet(asked[i]) = {}
    BY <2>1 DEF Init, NotAsked, ToSet
  <2> QED BY <2>1 DEF PastIsBehind
<1>2. Inv /\ PastIsBehind => RequestsMoveForward
  <2> SUFFICES ASSUME Inv, PastIsBehind, NEW i \in DOMAIN asked
               PROVE  /\ \A j, k \in DOMAIN asked[i] : j < k => asked[i][j] < asked[i][k]
                      /\ ~WindowMayBeCut(entries[i]) =>
                           \A p \in forgotten[i], q \in ToSet(asked[i]) : p <= q
    BY DEF RequestsMoveForward
  <2>1. i \in DOMAIN entries
    BY DEF Inv, TypeOK
  <2>2. Ascends(asked[i])
    BY DEF Inv, RequestsAscend
  <2> QED BY <2>1, <2>2 DEF Ascends, PastIsBehind
<1> QED BY <1>1, <1>2, InvIsInitial, InvIsInductive, PastStaysBehind, PTL DEF Spec
=============================================================================
