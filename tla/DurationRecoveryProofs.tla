----------------------- MODULE DurationRecoveryProofs -----------------------
(***************************************************************************)
(* A duration test that the power cuts short is recorded once, and for a   *)
(* length it ran, for every length of tests, heartbeat period, size of the *)
(* journal and number of power losses and failed writes.                   *)
(***************************************************************************)
EXTENDS DurationRecovery, SequenceTheorems, TLAPS

-----------------------------------------------------------------------------
(* The journal as a sequence.                                              *)

\* RecordedOnce of any journal.
Once(entries) ==
  \A i, j \in DOMAIN entries :
    entries[i].kind = "Duration" /\ entries[j].kind = "Duration"
      /\ entries[i].startedAt = entries[j].startedAt => i = j

\* Trimming takes entries from the front.
LEMMA TrimmedShape ==
  ASSUME NEW entries \in Seq(StoredEntry)
  PROVE  /\ Trimmed(entries) \in Seq(StoredEntry)
         /\ \E k \in Nat : /\ Len(Trimmed(entries)) + k = Len(entries)
                           /\ \A i \in 1..Len(Trimmed(entries)) : Trimmed(entries)[i] = entries[i + k]
<1> DEFINE n == Len(entries)
           max == MaxStoredTestJournalEntries
<1>1. n \in Nat /\ max \in Nat \ {0}
  BY BoundsAssumption
<1>2. CASE n <= max
  BY <1>1, <1>2 DEF Trimmed
<1>3. CASE ~(n <= max)
  <2> DEFINE k == n - max
             short == SubSeq(entries, k + 1, n)
  <2>1. k \in Nat /\ k + 1 \in 1..n /\ n \in 1..n
    BY <1>1, <1>3
  <2>2. Trimmed(entries) = short
    BY <1>1, <1>3 DEF Trimmed
  <2>3. short \in Seq(StoredEntry) /\ Len(short) = n - (k + 1) + 1
    BY <2>1, SubSeqProperties
  <2>4. \A i \in 1..Len(short) : short[i] = entries[k + 1 + i - 1]
    BY <2>1, <2>3, SubSeqProperties
  <2>5. Len(short) + k = n /\ \A i \in 1..Len(short) : short[i] = entries[i + k]
    BY <1>1, <2>1, <2>3, <2>4
  <2> QED BY <2>1, <2>2, <2>3, <2>5
<1> QED BY <1>1, <1>2, <1>3

\* One more entry in a journal that does not have its test.
LEMMA ExtendedJournal ==
  ASSUME NEW entries \in Seq(StoredEntry), NEW e \in StoredEntry, Once(entries),
         e.kind = "Duration" => e.startedAt \notin Recorded(entries)
  PROVE  LET new == Trimmed(Append(entries, e))
         IN  /\ new \in Seq(StoredEntry)
             /\ Once(new)
             /\ \A i \in DOMAIN new : new[i] = e \/ \E j \in DOMAIN entries : new[i] = entries[j]
<1> DEFINE all == Append(entries, e)
           new == Trimmed(all)
           n   == Len(entries)
<1>1. /\ all \in Seq(StoredEntry) /\ Len(all) = n + 1 /\ n \in Nat
      /\ \A i \in 1..n : all[i] = entries[i]
      /\ all[n + 1] = e
  BY AppendProperties
<1>2. DOMAIN entries = 1..n
  OBVIOUS
<1> HIDE DEF all, n
<1>3. new \in Seq(StoredEntry)
  BY <1>1, TrimmedShape
<1>4. PICK k \in Nat : Len(new) + k = n + 1 /\ \A i \in 1..Len(new) : new[i] = all[i + k]
  <2>1. \E k \in Nat : /\ Len(new) + k = Len(all)
                       /\ \A i \in 1..Len(new) : new[i] = all[i + k]
    BY <1>1, TrimmedShape
  <2> HIDE DEF new
  <2> QED BY <1>1, <2>1
<1>5. DOMAIN new = 1..Len(new) /\ Len(new) \in Nat
  BY <1>3
<1> HIDE DEF new
<1>6. \A i, j \in 1..(n + 1) :
        all[i].kind = "Duration" /\ all[j].kind = "Duration" /\ all[i].startedAt = all[j].startedAt => i = j
  <2>1. \A i, j \in 1..n :
          all[i].kind = "Duration" /\ all[j].kind = "Duration" /\ all[i].startedAt = all[j].startedAt => i = j
    BY <1>1, <1>2 DEF Once
  <2>2. \A i \in 1..n : all[i].kind = "Duration" => all[i].startedAt \in Recorded(entries)
    BY <1>1, <1>2 DEF Recorded
  <2>3. \A i \in 1..(n + 1) : i = n + 1 \/ i \in 1..n
    BY <1>1
  <2> QED BY <1>1, <2>1, <2>2, <2>3
<1>7. \A i \in DOMAIN new : i + k \in 1..(n + 1) /\ new[i] = all[i + k]
  BY <1>1, <1>4, <1>5
<1>8. Once(new)
  <2> SUFFICES ASSUME NEW i \in DOMAIN new, NEW j \in DOMAIN new,
                      new[i].kind = "Duration", new[j].kind = "Duration",
                      new[i].startedAt = new[j].startedAt
               PROVE  i = j
    BY DEF Once
  <2>1. i + k = j + k
    BY <1>6, <1>7
  <2> QED BY <1>5, <2>1
<1>9. \A i \in DOMAIN new : new[i] = e \/ \E j \in DOMAIN entries : new[i] = entries[j]
  <2> SUFFICES ASSUME NEW i \in DOMAIN new
               PROVE  new[i] = e \/ \E j \in DOMAIN entries : new[i] = entries[j]
    OBVIOUS
  <2>1. i + k = n + 1 \/ i + k \in 1..n
    BY <1>1, <1>4, <1>5
  <2> QED BY <1>1, <1>2, <1>7, <2>1
<1> QED BY <1>3, <1>8, <1>9 DEF new, all
-----------------------------------------------------------------------------
(* What one call of evaluate() makes of the running test and the journal.  *)

LEMMA RequestShape ==
  ASSUME NEW in \in TestInputs
  PROVE  /\ in.now = clock
         /\ \A r \in in.requests : /\ r.source \in Tests!Sources /\ r.kind \in Tests!Kinds
                                   /\ r.seconds \in Nat
<1>1. in.now = clock /\ in.requests \subseteq Tests!Request
  BY DEF TestInputs
<1>2. \A r \in in.requests : r \in [source : Tests!Sources, kind : Tests!Kinds, seconds : RequestedSeconds]
  BY <1>1 DEF Tests!Request
<1> QED BY <1>1, <1>2, LengthsAssumption

LEMMA HighestRequested ==
  ASSUME NEW in \in TestInputs, in.requests # {}
  PROVE  Tests!HighestRequested(in) \in in.requests
<1>1. \A q \in in.requests : Tests!Priority(q) \in 1..4
  BY RequestShape DEF Tests!Priority, Tests!Sources, Tests!Kinds
<1>2. \E r \in in.requests : \A q \in in.requests : Tests!Priority(q) <= Tests!Priority(r)
  <2>1. CASE \E r \in in.requests : Tests!Priority(r) = 4
    BY <1>1, <2>1
  <2>2. CASE (\A q \in in.requests : Tests!Priority(q) # 4) /\ \E r \in in.requests : Tests!Priority(r) = 3
    BY <1>1, <2>2
  <2>3. CASE (\A q \in in.requests : Tests!Priority(q) \notin {3, 4}) /\ \E r \in in.requests : Tests!Priority(r) = 2
    BY <1>1, <2>3
  <2>4. CASE \A q \in in.requests : Tests!Priority(q) \notin {2, 3, 4}
    BY <1>1, <2>4
  <2> QED BY <2>1, <2>2, <2>3, <2>4
<1> QED BY <1>2 DEF Tests!HighestRequested

\* A test that begins is not due in the same call.
LEMMA BegunTest ==
  ASSUME clock \in Nat, NEW in \in TestInputs, Tests!Starts(in)
  PROVE  /\ Tests!Running(in) \in Tests!Test /\ Tests!Running(in).startedAt = clock
         /\ Tests!Running(in) # Tests!NoTest
         /\ ~Tests!Due(in)
<1> DEFINE r == Tests!HighestRequested(in)
<1>1. r \in in.requests /\ in.now = clock
  BY HighestRequested, RequestShape DEF Tests!Starts
<1>2. r.source \in Tests!Sources /\ r.kind \in Tests!Kinds /\ r.seconds \in Nat
  BY <1>1, RequestShape
<1>3. Tests!Running(in) = Tests!StartedTest(r, clock)
  BY <1>1 DEF Tests!Running
<1> HIDE DEF r
<1>4. Tests!WaitSeconds(r) \in Nat \ {0}
  BY <1>2, LengthsAssumption DEF Tests!WaitSeconds
<1>5. Tests!Running(in) \in Tests!Test /\ Tests!Running(in).startedAt = clock
      /\ Tests!Running(in).dueAt > clock
  BY <1>2, <1>3, <1>4 DEF Tests!StartedTest, Tests!Test
<1>6. Tests!Running(in) # Tests!NoTest
  BY <1>2, <1>3 DEF Tests!StartedTest, Tests!NoTest, Tests!Sources
<1>7. ~Tests!Due(in)
  BY <1>1, <1>5 DEF Tests!Due, Tests!Test
<1> QED BY <1>5, <1>6, <1>7

TestNow == activeTest \in Tests!Test \cup {Tests!NoTest}

\* Either the running test goes on, or there was none, or it ends with exactly one
\* entry; in the last two cases another may begin, now.
LEMMA OneCall ==
  ASSUME clock \in Nat, TestNow, NEW in \in TestInputs
  PROVE  LET after == Tests!ActiveAfter(in)
         IN  \/ Ended(in) = <<>> /\ after = activeTest
             \/ /\ Ended(in) = <<>> /\ activeTest = Tests!NoTest
                /\ Tests!Starts(in) /\ after \in Tests!Test /\ after.startedAt = clock
             \/ /\ activeTest # Tests!NoTest
                /\ \/ after = Tests!NoTest
                   \/ Tests!Starts(in) /\ after \in Tests!Test /\ after.startedAt = clock
                /\ \E e \in StoredEntry :
                     /\ Ended(in) = <<e>> /\ e.status = "Ended"
                     /\ e.kind = activeTest.kind /\ e.startedAt = activeTest.startedAt
<1> DEFINE after == Tests!ActiveAfter(in)
           new   == Tests!NewEntries(in)
<1>1. in.now = clock
  BY RequestShape
<1>2. ASSUME new = <<>> PROVE Ended(in) = <<>>
  BY <1>2 DEF Ended
<1>3. ASSUME NEW e, new = <<e>>, activeTest \in Tests!Test, e.kind = activeTest.kind,
             e.startedAt = activeTest.startedAt, e.finishedAt = clock
      PROVE  \E s \in StoredEntry :
               /\ Ended(in) = <<s>> /\ s.status = "Ended"
               /\ s.kind = activeTest.kind /\ s.startedAt = activeTest.startedAt
  <2>1. Ended(in) = <<Stored(e)>>
    BY <1>3 DEF Ended
  <2>2. Stored(e) \in StoredEntry
    BY <1>3 DEF Stored, StoredEntry, Tests!Test
  <2> QED BY <1>3, <2>1, <2>2 DEF Stored
<1>4. CASE Tests!Starts(in) /\ Tests!CutShort(in)
  <2>1. after \in Tests!Test /\ after.startedAt = clock
    BY <1>4, BegunTest DEF Tests!ActiveAfter
  <2>0. ~Tests!Due(in)
    BY <1>4, BegunTest
  <2>2. new = <<Tests!CutEntry(in)>>
    BY <1>4, <2>0 DEF Tests!NewEntries
  <2>3. activeTest # Tests!NoTest /\ activeTest \in Tests!Test
    BY <1>4 DEF Tests!CutShort, Tests!Active, TestNow
  <2>4. LET e == Tests!CutEntry(in)
        IN  e.kind = activeTest.kind /\ e.startedAt = activeTest.startedAt /\ e.finishedAt = clock
    BY <1>1 DEF Tests!CutEntry, Tests!EntryOf
  <2> QED BY <1>3, <1>4, <2>1, <2>2, <2>3, <2>4
<1>5. CASE Tests!Starts(in) /\ ~Tests!CutShort(in)
  <2>1. after \in Tests!Test /\ after.startedAt = clock
    BY <1>5, BegunTest DEF Tests!ActiveAfter
  <2>2. new = <<>> /\ activeTest = Tests!NoTest
    BY <1>5, BegunTest DEF Tests!NewEntries, Tests!Starts, Tests!Active
  <2> QED BY <1>2, <1>5, <2>1, <2>2
<1>6. CASE ~Tests!Starts(in) /\ Tests!CutShort(in)
  <2>1. Tests!Running(in) = Tests!NoTest /\ ~Tests!Due(in)
    BY <1>6 DEF Tests!Running, Tests!Due
  <2>2. after = Tests!NoTest /\ new = <<Tests!CutEntry(in)>>
    BY <1>6, <2>1 DEF Tests!ActiveAfter, Tests!NewEntries
  <2>3. activeTest # Tests!NoTest /\ activeTest \in Tests!Test
    BY <1>6 DEF Tests!CutShort, Tests!Active, TestNow
  <2>4. LET e == Tests!CutEntry(in)
        IN  e.kind = activeTest.kind /\ e.startedAt = activeTest.startedAt /\ e.finishedAt = clock
    BY <1>1 DEF Tests!CutEntry, Tests!EntryOf
  <2> QED BY <1>3, <2>2, <2>3, <2>4
<1>7. CASE ~Tests!Starts(in) /\ ~Tests!CutShort(in)
  <2>1. Tests!Running(in) = activeTest
    BY <1>7 DEF Tests!Running
  <2>2. CASE ~Tests!Due(in)
    <3>1. after = activeTest /\ new = <<>>
      BY <1>7, <2>1, <2>2 DEF Tests!ActiveAfter, Tests!NewEntries
    <3> QED BY <1>2, <3>1
  <2>3. CASE Tests!Due(in)
    <3>1. after = Tests!NoTest /\ new = <<Tests!CompletedEntry(in)>>
      BY <1>7, <2>3 DEF Tests!ActiveAfter, Tests!NewEntries
    <3>2. activeTest # Tests!NoTest /\ activeTest \in Tests!Test
      BY <2>1, <2>3 DEF Tests!Due, TestNow
    <3>3. LET e == Tests!CompletedEntry(in)
          IN  e.kind = activeTest.kind /\ e.startedAt = activeTest.startedAt /\ e.finishedAt = clock
      BY <1>1, <2>1 DEF Tests!CompletedEntry, Tests!EntryOf
    <3> QED BY <1>3, <3>1, <3>2, <3>3
  <2> QED BY <2>2, <2>3
<1> QED BY <1>4, <1>5, <1>6, <1>7
-----------------------------------------------------------------------------
(* Every variable has its type, and no test is recorded twice.             *)

\* A journal of duration tests begun at the given instants, without one of them twice.
Sound(entries, starts) ==
  /\ Once(entries)
  /\ \A i \in DOMAIN entries :
       /\ entries[i].kind = "Duration" => entries[i].startedAt \in starts
       /\ entries[i].status = "PowerLoss" => entries[i].kind = "Duration"

\* The running duration test has no entry yet.
RecordInv ==
  /\ TypeOK
  /\ Sound(storedJournal, begun) /\ Sound(journalFile, begun)
  /\ activeTest # Tests!NoTest => up
  /\ IsDuration(activeTest) => activeTest.startedAt \in begun \ Recorded(storedJournal)
  /\ IsDuration(timingFile.test) => timingFile.test.startedAt \in begun

LEMMA NoTestIsNone == Tests!NoTest \notin Tests!Test /\ ~IsDuration(Tests!NoTest)
BY DEF Tests!NoTest, Tests!Test, Tests!Sources, IsDuration

LEMMA SoundLater ==
  ASSUME NEW entries, NEW starts, NEW more, starts \subseteq more, Sound(entries, starts)
  PROVE  Sound(entries, more) /\ Recorded(entries) \subseteq starts
BY DEF Sound, Recorded

LEMMA SoundExtended ==
  ASSUME NEW entries \in Seq(StoredEntry), NEW starts, Sound(entries, starts),
         NEW e \in StoredEntry,
         e.kind = "Duration" => e.startedAt \in starts \ Recorded(entries),
         e.status = "PowerLoss" => e.kind = "Duration"
  PROVE  LET new == Trimmed(Append(entries, e))
         IN  /\ new \in Seq(StoredEntry)
             /\ Sound(new, starts)
             /\ \A i \in DOMAIN new : new[i] = e \/ \E j \in DOMAIN entries : new[i] = entries[j]
<1> DEFINE new == Trimmed(Append(entries, e))
<1>1. /\ new \in Seq(StoredEntry) /\ Once(new)
      /\ \A i \in DOMAIN new : new[i] = e \/ \E j \in DOMAIN entries : new[i] = entries[j]
  BY ExtendedJournal DEF Sound
<1> HIDE DEF new
<1>2. Sound(new, starts)
  BY <1>1 DEF Sound
<1> QED BY <1>1, <1>2 DEF new

\* The journal after a call of evaluate().
LEMMA JournalGrows ==
  ASSUME RecordInv, NEW in \in TestInputs
  PROVE  /\ JournalAfter(in) \in Seq(StoredEntry)
         /\ Sound(JournalAfter(in), begun)
         /\ \A i \in DOMAIN JournalAfter(in) :
              \/ JournalAfter(in)[i].status = "Ended" /\ activeTest # Tests!NoTest
                   /\ JournalAfter(in)[i].startedAt = activeTest.startedAt
              \/ \E j \in DOMAIN storedJournal : JournalAfter(in)[i] = storedJournal[j]
<1>1. clock \in Nat /\ TestNow /\ storedJournal \in Seq(StoredEntry) /\ Sound(storedJournal, begun)
  BY DEF RecordInv, TypeOK, TestNow, Times
<1>2. CASE Ended(in) = <<>>
  BY <1>1, <1>2 DEF JournalAfter
<1>3. CASE Ended(in) # <<>>
  <2>1. activeTest # Tests!NoTest
    BY <1>1, <1>3, OneCall
  <2>2. PICK e \in StoredEntry : /\ Ended(in) = <<e>> /\ e.status = "Ended"
                                 /\ e.kind = activeTest.kind /\ e.startedAt = activeTest.startedAt
    BY <1>1, <1>3, OneCall
  <2>3. JournalAfter(in) = Trimmed(Append(storedJournal, e))
    <3>1. Append(storedJournal, e) = storedJournal \o <<e>>
      BY <1>1, AppendIsConcat
    <3> QED BY <1>3, <2>2, <3>1 DEF JournalAfter
  <2>4. /\ e.kind = "Duration" => e.startedAt \in begun \ Recorded(storedJournal)
        /\ e.status # "PowerLoss"
    BY <2>1, <2>2 DEF RecordInv, IsDuration
  <2> QED BY <1>1, <2>1, <2>2, <2>3, <2>4, SoundExtended
<1> QED BY <1>2, <1>3

LEMMA HeartbeatShape ==
  ASSUME clock \in Nat
  PROVE  Heartbeat \in Nat /\ Heartbeat <= clock /\ clock - Heartbeat < TicksPerSecond
BY BoundsAssumption DEF Heartbeat

\* What is written as the marker.
LEMMA TimingShape ==
  ASSUME RecordInv, NEW force, NEW keep, NEW writable,
         NEW starts, begun \subseteq starts, starts \subseteq Times,
         NEW test \in Tests!Test \cup {Tests!NoTest}, IsDuration(test) => test.startedAt \in starts,
         WriteRuntimeTiming(force, test, keep, writable)
  PROVE  /\ timingFile' \in [heartbeat : Times, test : Tests!Test \cup {Tests!NoTest}] \cup {NoTiming}
         /\ lastWrite' \in Times \cup {Never}
         /\ persistedStart' \in Times \cup {Never}
         /\ confirmed' \subseteq Times
         /\ IsDuration(timingFile'.test) => timingFile'.test.startedAt \in starts
<1>1. clock \in Nat /\ clock \in Times /\ clock <= MaxTime /\ MaxTime \in Nat
  BY BoundsAssumption DEF RecordInv, TypeOK, Times
<1>3. Heartbeat \in Times
  BY <1>1, HeartbeatShape DEF Times
<1>4. Timing(test) \in [heartbeat : Times, test : Tests!Test \cup {Tests!NoTest}]
  BY <1>3 DEF Timing
<1>5. StartOf(test) \in Times \cup {Never}
  BY DEF StartOf
<1>6. IsDuration(Timing(test).test) => Timing(test).test = test
  BY NoTestIsNone DEF Timing
<1>7. CASE TimingDue(force, test, keep) /\ writable
  BY <1>1, <1>4, <1>5, <1>6, <1>7 DEF WriteRuntimeTiming, RecordInv, TypeOK
<1>8. CASE ~(TimingDue(force, test, keep) /\ writable)
  <2>1. UNCHANGED <<timingFile, lastWrite, persistedStart, confirmed>>
    BY <1>8 DEF WriteRuntimeTiming
  <2> QED BY <2>1 DEF RecordInv, TypeOK
<1> QED BY <1>7, <1>8

LEMMA FailuresCounted ==
  ASSUME RecordInv, NEW a, NEW b, NEW c, NEW d, CountFailures(Failures(a, b, c, d))
  PROVE  /\ failures' \in 0..MaxFailures
         /\ failures' = 0 => /\ failures = 0 /\ (a => b) /\ (c => d)
                             /\ Failures(a, b, c, d) = 0
<1>1. failures \in 0..MaxFailures /\ MaxFailures \in Nat
  BY BoundsAssumption DEF RecordInv, TypeOK
<1>2. CASE a /\ ~b
  BY <1>1, <1>2 DEF CountFailures, Failures
<1>3. CASE ~(a /\ ~b)
  BY <1>1, <1>3 DEF CountFailures, Failures
<1> QED BY <1>2, <1>3

LEMMA RecordInit == Init => RecordInv
<1> SUFFICES ASSUME Init PROVE RecordInv
  OBVIOUS
<1>1. Sound(<<>>, {}) /\ <<>> \in Seq(StoredEntry)
  BY DEF Sound, Once
<1>2. ~IsDuration(timingFile.test)
  BY NoTestIsNone DEF Init, NoTiming
<1>3. TypeOK
  <2>1. clock \in Times /\ {failures, crashes, clockChanges} \subseteq {0}
    BY BoundsAssumption DEF Init, Times
  <2>2. failures \in 0..MaxFailures /\ crashes \in 0..MaxCrashes /\ clockChanges \in 0..MaxClockChanges
    BY <2>1, BoundsAssumption
  <2>3. timingFile = NoTiming /\ activeTest = Tests!NoTest
    BY DEF Init
  <2>4. storedJournal \in Seq(StoredEntry) /\ journalFile \in Seq(StoredEntry)
    BY <1>1 DEF Init
  <2>5. /\ up \in BOOLEAN /\ preserve \in BOOLEAN /\ undisturbed \in BOOLEAN
        /\ persistedStart = Never /\ lastWrite = Never /\ confirmed = {} /\ interrupted = {}
        /\ steady \in BOOLEAN /\ begun = {}
    BY DEF Init
  <2> QED BY <2>1, <2>2, <2>3, <2>4, <2>5 DEF TypeOK
<1> QED BY <1>1, <1>2, <1>3, NoTestIsNone DEF Init, RecordInv

LEMMA RecordTick ==
  ASSUME RecordInv, NEW in \in TestInputs, NEW journalOk \in BOOLEAN, NEW timingOk \in BOOLEAN,
         Tick(in, journalOk, timingOk)
  PROVE  RecordInv'
<1> DEFINE test == Tests!ActiveAfter(in)
<1>1. clock \in Nat /\ TestNow /\ MaxTime \in Nat /\ clock < MaxTime /\ clock' = clock + 1 /\ up
  BY BoundsAssumption DEF Tick, RecordInv, TypeOK, TestNow, Times
<1>2. /\ test \in Tests!Test \cup {Tests!NoTest}
      /\ \/ Ended(in) = <<>> /\ test = activeTest
         \/ test = Tests!NoTest
         \/ Tests!Starts(in) /\ test \in Tests!Test /\ test.startedAt = clock
  <2>1. \/ Ended(in) = <<>> /\ test = activeTest
        \/ test = Tests!NoTest
        \/ Tests!Starts(in) /\ test \in Tests!Test /\ test.startedAt = clock
    BY <1>1, OneCall
  <2> HIDE DEF test
  <2> QED BY <1>1, <2>1 DEF TestNow
<1>3. /\ begun \subseteq begun' /\ begun' \subseteq Times
      /\ IsDuration(test) => test.startedAt \in begun'
      /\ Tests!Starts(in) /\ IsDuration(test) => clock \notin begun
  <2>1. begun' = IF StartsDuration(in) THEN begun \cup {clock} ELSE begun
    BY DEF Tick
  <2>2. begun \subseteq Times /\ clock \in Times
    BY DEF RecordInv, TypeOK
  <2>3. Tests!Starts(in) /\ IsDuration(test) <=> StartsDuration(in)
    BY DEF StartsDuration
  <2>4. StartsDuration(in) => clock \notin begun
    BY DEF Tick, StartIsNew
  <2> HIDE DEF test
  <2> QED BY <1>2, <2>1, <2>2, <2>3, <2>4, NoTestIsNone DEF RecordInv
<1>4. /\ activeTest' = test
      /\ storedJournal' = JournalAfter(in)
      /\ journalFile' = JournalAfter(in) \/ journalFile' = journalFile
      /\ WriteRuntimeTiming(FALSE, test, KeepMarker(in, journalOk), timingOk)
      /\ failures' \in 0..MaxFailures
      /\ UNCHANGED <<up, interrupted, clockChanges, crashes>>
  BY FailuresCounted DEF Tick
<1> HIDE DEF test
<1>5. /\ timingFile' \in [heartbeat : Times, test : Tests!Test \cup {Tests!NoTest}] \cup {NoTiming}
      /\ lastWrite' \in Times \cup {Never}
      /\ persistedStart' \in Times \cup {Never}
      /\ confirmed' \subseteq Times
      /\ IsDuration(timingFile'.test) => timingFile'.test.startedAt \in begun'
  BY <1>2, <1>3, <1>4, TimingShape
<1>6. /\ JournalAfter(in) \in Seq(StoredEntry) /\ Sound(JournalAfter(in), begun)
      /\ journalFile \in Seq(StoredEntry) /\ Sound(journalFile, begun)
  BY JournalGrows DEF RecordInv, TypeOK
<1>7. /\ storedJournal' \in Seq(StoredEntry) /\ journalFile' \in Seq(StoredEntry)
      /\ Sound(storedJournal, begun)' /\ Sound(journalFile, begun)'
  <2>1. Sound(JournalAfter(in), begun') /\ Sound(journalFile, begun')
    BY <1>3, <1>6, SoundLater
  <2>2. Sound(storedJournal', begun') /\ Sound(journalFile', begun')
    BY <1>4, <2>1
  <2> QED BY <1>4, <1>6, <2>2 DEF Sound, Once
<1>8. preserve' \in BOOLEAN /\ undisturbed' \in BOOLEAN /\ steady' \in BOOLEAN
  <2>1. KeepMarker(in, journalOk) \in BOOLEAN
    BY DEF KeepMarker, RecordInv, TypeOK
  <2> QED BY <2>1 DEF Tick
<1>9. clock' \in Times
  BY <1>1 DEF Times
<1>10. TypeOK'
  BY <1>2, <1>3, <1>4, <1>5, <1>7, <1>8, <1>9 DEF RecordInv, TypeOK
<1>11. activeTest' # Tests!NoTest => up'
  BY <1>1, <1>4
<1>12. IsDuration(activeTest') => activeTest'.startedAt \in begun' \ Recorded(storedJournal')
  <2>1. CASE test = activeTest /\ Ended(in) = <<>>
    <3>1. storedJournal' = storedJournal /\ activeTest' = activeTest
      BY <1>4, <2>1 DEF JournalAfter
    <3> QED BY <1>3, <3>1 DEF RecordInv
  <2>2. CASE test = Tests!NoTest
    BY <1>4, <2>2, NoTestIsNone
  <2>3. CASE Tests!Starts(in) /\ test \in Tests!Test /\ test.startedAt = clock
    <3>1. Recorded(JournalAfter(in)) \subseteq begun
      BY <1>6, SoundLater
    <3> QED BY <1>3, <1>4, <2>3, <3>1
  <2> QED BY <1>2, <2>1, <2>2, <2>3
<1> QED BY <1>5, <1>7, <1>10, <1>11, <1>12 DEF RecordInv, IsDuration, Recorded

\* The operator sets the clock: nothing else changes but what is known of the clock.
LEMMA RecordSetSystemTime ==
  ASSUME RecordInv, NEW now \in ClockSettings, SetSystemTime(now)
  PROVE  RecordInv'
<1>1. /\ clock' \in Times /\ steady' \in BOOLEAN /\ clockChanges' \in 0..MaxClockChanges
  BY BoundsAssumption DEF SetSystemTime, RecordInv, TypeOK, Times
<1>2. UNCHANGED <<up, activeTest, storedJournal, preserve, persistedStart, lastWrite, journalFile,
                  timingFile, confirmed, undisturbed, begun, interrupted, crashes, failures>>
  BY DEF SetSystemTime, memory, files
<1>3. TypeOK'
  BY <1>1, <1>2 DEF RecordInv, TypeOK
<1> QED BY <1>2, <1>3 DEF RecordInv, Sound, Once, IsDuration, Recorded

\* Power losses.
LEMMA RecordCrash ==
  ASSUME RecordInv, up, LoseMemory, UNCHANGED <<clock, timingFile, confirmed, begun, clockChanges, failures>>,
         journalFile' \in Seq(StoredEntry), Sound(journalFile', begun)
  PROVE  RecordInv'
<1>1. /\ up' = FALSE /\ activeTest' = Tests!NoTest /\ storedJournal' = <<>>
      /\ preserve' = FALSE /\ persistedStart' = Never /\ lastWrite' = Never /\ undisturbed' = TRUE
      /\ steady' = TRUE /\ crashes' \in 0..MaxCrashes
  BY BoundsAssumption DEF LoseMemory, RecordInv, TypeOK
<1>2. interrupted' \subseteq [startedAt : Times, at : Times, steady : BOOLEAN]
  BY DEF LoseMemory, RecordInv, TypeOK
<1>3. Sound(storedJournal, begun)' /\ Sound(journalFile, begun)'
  <2>1. Sound(<<>>, begun)
    BY DEF Sound, Once
  <2> QED BY <1>1, <2>1 DEF Sound, Once
<1>4. TypeOK'
  BY <1>1, <1>2, EmptySeq DEF RecordInv, TypeOK
<1> QED BY <1>1, <1>3, <1>4, NoTestIsNone DEF RecordInv, IsDuration

LEMMA RecordStayOff ==
  ASSUME RecordInv, StayOff
  PROVE  RecordInv'
<1>1. clock \in Nat /\ MaxTime \in Nat /\ clock < MaxTime /\ clock' = clock + 1 /\ ~up
  BY BoundsAssumption DEF StayOff, RecordInv, TypeOK, Times
<1>2. UNCHANGED <<up, memory, files, history>>
  BY DEF StayOff
<1>4. TypeOK'
  BY <1>1, <1>2 DEF RecordInv, TypeOK, Times, memory, files, history
<1> QED BY <1>2, <1>4 DEF RecordInv, memory, files, history, Sound, Once, IsDuration, Recorded

LEMMA RecordStart ==
  ASSUME RecordInv, NEW journalOk \in BOOLEAN, NEW timingOk \in BOOLEAN, Start(journalOk, timingOk)
  PROVE  RecordInv'
<1> DEFINE recovers == NeedsRecovery(timingFile, journalFile)
           e        == RecoveredEntry(timingFile)
           keep     == recovers /\ ~journalOk
<1>1. clock \in Nat /\ MaxTime \in Nat /\ clock < MaxTime /\ clock' = clock + 1 /\ ~up /\ up' = TRUE
  BY BoundsAssumption DEF Start, RecordInv, TypeOK, Times
<1>2. activeTest = Tests!NoTest
  BY <1>1 DEF RecordInv
<1>3. ASSUME recovers
      PROVE  /\ e \in StoredEntry /\ e.kind = "Duration"
             /\ e.startedAt \in begun \ Recorded(journalFile)
  <2>1. timingFile # NoTiming
    BY <1>3, NoTestIsNone DEF NeedsRecovery, NoTiming
  <2>2. timingFile.heartbeat \in Nat /\ timingFile.test \in Tests!Test
    BY <1>3, <2>1, NoTestIsNone DEF RecordInv, TypeOK, NeedsRecovery, Times
  <2>3. e \in StoredEntry
    BY <2>2 DEF RecoveredEntry, StoredEntry, Tests!Test, Tests!Kinds
  <2>4. e.startedAt = timingFile.test.startedAt /\ e.kind = "Duration"
    BY DEF RecoveredEntry
  <2> QED BY <1>3, <2>3, <2>4 DEF NeedsRecovery, RecordInv
<1> HIDE DEF e
<1>4. /\ journalFile' \in Seq(StoredEntry) /\ Sound(journalFile', begun)
      /\ storedJournal' = journalFile'
  <2>1. journalFile \in Seq(StoredEntry) /\ Sound(journalFile, begun)
    BY DEF RecordInv, TypeOK
  <2>2. CASE recovers /\ journalOk
    <3>1. journalFile' = Trimmed(Append(journalFile, e)) /\ storedJournal' = journalFile'
      BY <2>2 DEF Start, e
    <3> QED BY <1>1, <1>3, <2>1, <2>2, <3>1, SoundExtended
  <2>3. CASE ~(recovers /\ journalOk)
    BY <2>1, <2>3 DEF Start
  <2> QED BY <2>2, <2>3
<1>5. Sound(storedJournal, begun)' /\ Sound(journalFile, begun)'
  <2>1. begun' = begun
    BY DEF Start
  <2> QED BY <1>4, <2>1 DEF Sound, Once
<1>6. /\ WriteRuntimeTiming(TRUE, Tests!NoTest, keep, timingOk)
      /\ failures' \in 0..MaxFailures /\ preserve' \in BOOLEAN
      /\ UNCHANGED <<activeTest, undisturbed, steady, begun, interrupted, clockChanges, crashes>>
  BY FailuresCounted DEF Start
<1>7. /\ timingFile' \in [heartbeat : Times, test : Tests!Test \cup {Tests!NoTest}] \cup {NoTiming}
      /\ lastWrite' \in Times \cup {Never}
      /\ persistedStart' \in Times \cup {Never}
      /\ confirmed' \subseteq Times
      /\ IsDuration(timingFile'.test) => timingFile'.test.startedAt \in begun
  <2>1. begun \subseteq Times
    BY DEF RecordInv, TypeOK
  <2> HIDE DEF keep
  <2> QED BY <1>6, <2>1, NoTestIsNone, TimingShape
<1>8. clock' \in Times
  BY <1>1 DEF Times
<1>9. TypeOK'
  BY <1>1, <1>4, <1>6, <1>7, <1>8 DEF RecordInv, TypeOK
<1>10. IsDuration(timingFile'.test) => timingFile'.test.startedAt \in begun'
  BY <1>6, <1>7
<1> QED BY <1>1, <1>2, <1>5, <1>6, <1>9, <1>10, NoTestIsNone DEF RecordInv, IsDuration

LEMMA RecordStep == RecordInv /\ [Next]_vars => RecordInv'
<1> SUFFICES ASSUME RecordInv, [Next]_vars PROVE RecordInv'
  OBVIOUS
<1>1. CASE \E in \in TestInputs, journalOk, timingOk \in BOOLEAN : Tick(in, journalOk, timingOk)
  BY <1>1, RecordTick
<1>2. CASE \E in \in TestInputs : CrashInTick(in)
  <2>1. PICK in \in TestInputs : CrashInTick(in)
    BY <1>2
  <2>2. /\ up /\ LoseMemory /\ UNCHANGED <<clock, timingFile, confirmed, begun, clockChanges, failures>>
        /\ journalFile' = JournalAfter(in)
    BY <2>1 DEF CrashInTick
  <2> QED BY <2>2, JournalGrows, RecordCrash
<1>3. CASE Crash
  <2>1. /\ up /\ LoseMemory /\ UNCHANGED <<clock, timingFile, confirmed, begun, clockChanges, failures>>
        /\ journalFile' = journalFile
    BY <1>3 DEF Crash, files
  <2> QED BY <2>1, RecordCrash DEF RecordInv, TypeOK
<1>4. CASE StayOff
  BY <1>4, RecordStayOff
<1>7. CASE \E now \in ClockSettings : SetSystemTime(now)
  BY <1>7, RecordSetSystemTime
<1>5. CASE \E journalOk, timingOk \in BOOLEAN : Start(journalOk, timingOk)
  BY <1>5, RecordStart
<1>6. CASE UNCHANGED vars
  BY <1>6 DEF vars, memory, files, history, RecordInv, TypeOK, Sound, Once, IsDuration, Recorded
<1> QED BY <1>1, <1>2, <1>3, <1>4, <1>5, <1>6, <1>7 DEF Next

\* Every variable of the recovery has its type, whatever fails.
THEOREM TypeCorrect == Spec => []TypeOK
<1>1. RecordInv => TypeOK
  BY DEF RecordInv
<1> QED BY <1>1, RecordInit, RecordStep, PTL DEF Spec

\* No power loss and no failed write makes a test be recorded twice.
THEOREM TestsAreRecordedOnce == Spec => []RecordedOnce
<1>1. RecordInv => RecordedOnce
  BY DEF RecordInv, RecordedOnce, Sound, Once
<1> QED BY <1>1, RecordInit, RecordStep, PTL DEF Spec
-----------------------------------------------------------------------------
(* Without failed writes: the length recovery reports.                     *)

\* The entry says of the interrupted test what it ran, as far as the clock lets it.
Confirmed(e, c) ==
  /\ e.finishedAt >= e.startedAt
  /\ c.steady => /\ e.finishedAt <= c.at
                 /\ c.at - e.finishedAt < HeartbeatPeriod + TicksPerSecond

\* The marker is as old as the last write says, and that of the running test; as
\* long as the clock is not set it is not older than a heartbeat period.
MarkerIsRecent ==
  /\ lastWrite # Never =>
       /\ timingFile.heartbeat <= lastWrite /\ lastWrite - timingFile.heartbeat < TicksPerSecond
       /\ StartOf(timingFile.test) = persistedStart
  /\ IsDuration(activeTest) => lastWrite # Never /\ persistedStart = activeTest.startedAt
  /\ IsDuration(activeTest) /\ steady =>
       /\ lastWrite < clock /\ clock - lastWrite <= HeartbeatPeriod
       /\ activeTest.startedAt < clock

\* Whatever names an interrupted test says of it what it ran, and it never runs again.
InterruptedStays(c) ==
  /\ c.startedAt \in begun
  /\ IsDuration(activeTest) => activeTest.startedAt # c.startedAt
  /\ StartOf(timingFile.test) = c.startedAt => Confirmed(RecoveredEntry(timingFile), c)
  /\ \A i \in DOMAIN journalFile :
       journalFile[i].status = "PowerLoss" /\ journalFile[i].startedAt = c.startedAt =>
         Confirmed(journalFile[i], c)

LengthInv ==
  failures = 0 =>
    /\ ~preserve
    /\ up => storedJournal = journalFile
    /\ MarkerIsRecent
    /\ \A c \in interrupted : InterruptedStays(c)

\* A write that is not left out for a failure: the marker is new, or there was no
\* need of a new one.
LEMMA MarkerWritten ==
  ASSUME RecordInv, MarkerIsRecent, NEW force,
         NEW test \in Tests!Test \cup {Tests!NoTest}, NEW ok,
         IsDuration(test) /\ test # activeTest => test.startedAt \notin begun,
         WriteRuntimeTiming(force, test, FALSE, ok), TimingDue(force, test, FALSE) => ok,
         clock' = clock + 1
  PROVE  /\ lastWrite' # Never
         /\ persistedStart' = StartOf(test) /\ StartOf(timingFile'.test) = StartOf(test)
         /\ timingFile'.heartbeat <= lastWrite'
         /\ lastWrite' - timingFile'.heartbeat < TicksPerSecond
         /\ IsDuration(test) /\ (steady \/ test # activeTest) =>
              lastWrite' < clock' /\ clock' - lastWrite' <= HeartbeatPeriod
<1>1. /\ clock \in Nat /\ HeartbeatPeriod \in Nat \ {0} /\ lastWrite \in Nat \cup {Never}
      /\ Never = -1
  BY BoundsAssumption DEF RecordInv, TypeOK, Times, Never
<1>2. StartOf(Timing(test).test) = StartOf(test) /\ Timing(test).heartbeat = Heartbeat
  BY NoTestIsNone DEF StartOf, Timing
<1>3. CASE TimingDue(force, test, FALSE)
  <2>1. timingFile' = Timing(test) /\ lastWrite' = clock /\ persistedStart' = StartOf(test)
    BY <1>3 DEF WriteRuntimeTiming
  <2> QED BY <1>1, <1>2, <2>1, HeartbeatShape
<1>4. CASE ~TimingDue(force, test, FALSE)
  <2>1. UNCHANGED <<timingFile, lastWrite, persistedStart>>
    BY <1>4 DEF WriteRuntimeTiming
  <2>2. StartOf(test) = persistedStart /\ lastWrite # Never /\ ~(clock - lastWrite >= HeartbeatPeriod)
    BY <1>4 DEF TimingDue, TimingChanged
  <2>3. StartOf(timingFile.test) = StartOf(test)
    BY <2>2 DEF MarkerIsRecent
\* A marker of a test that begins now would be one of an earlier test.
  <2>4. IsDuration(test) => test = activeTest
    <3>1. IsDuration(test) => StartOf(timingFile.test) \in Nat
      BY <2>3, NoTestIsNone DEF StartOf, Tests!Test
    <3>2. IsDuration(test) => test.startedAt \in begun
      BY <1>1, <2>3, <3>1 DEF StartOf, RecordInv
    <3> QED BY <3>2
  <2>5. IsDuration(test) /\ steady => lastWrite < clock
    BY <2>4 DEF MarkerIsRecent
  <2> QED BY <1>1, <2>1, <2>2, <2>3, <2>4, <2>5 DEF MarkerIsRecent
<1> QED BY <1>3, <1>4

LEMMA InterruptedShape ==
  ASSUME RecordInv, NEW c \in interrupted
  PROVE  c.startedAt \in Nat /\ c.at \in Nat /\ c.startedAt # Never
BY DEF RecordInv, TypeOK, Times, Never

LEMMA LengthInit == Init => LengthInv
BY NoTestIsNone DEF Init, LengthInv, MarkerIsRecent

LEMMA LengthTick ==
  ASSUME RecordInv, LengthInv, NEW in \in TestInputs, NEW journalOk \in BOOLEAN,
         NEW timingOk \in BOOLEAN, Tick(in, journalOk, timingOk)
  PROVE  LengthInv'
<1> DEFINE test == Tests!ActiveAfter(in)
           keep == KeepMarker(in, journalOk)
<1>1. SUFFICES ASSUME failures' = 0
               PROVE  /\ ~preserve' /\ (up' => storedJournal' = journalFile')
                      /\ MarkerIsRecent'
                      /\ \A c \in interrupted : InterruptedStays(c)'
  <2>1. interrupted' = interrupted
    BY DEF Tick
  <2> QED BY <1>1, <2>1 DEF LengthInv
<1>2. /\ failures = 0 /\ (Ended(in) # <<>> => journalOk)
      /\ TimingDue(FALSE, test, keep) => timingOk
  BY <1>1, FailuresCounted DEF Tick
<1>3. ~preserve /\ (up => storedJournal = journalFile) /\ MarkerIsRecent
      /\ \A c \in interrupted : InterruptedStays(c)
  BY <1>2 DEF LengthInv
<1>4. keep = FALSE
  BY <1>2, <1>3 DEF KeepMarker, RecordInv, TypeOK
<1>5. /\ clock \in Nat /\ TestNow /\ clock' = clock + 1 /\ up /\ activeTest' = test
      /\ steady' = (steady \/ test # activeTest)
      /\ preserve' = keep /\ storedJournal' = JournalAfter(in)
      /\ journalFile' = IF Ended(in) # <<>> /\ journalOk THEN JournalAfter(in) ELSE journalFile
      /\ WriteRuntimeTiming(FALSE, test, keep, timingOk)
  <2>1. clock \in Nat /\ TestNow
    BY BoundsAssumption DEF RecordInv, TypeOK, TestNow, Times
  <2>2. clock' = clock + 1 /\ up
    BY DEF Tick
  <2>3. /\ activeTest' = test /\ preserve' = keep /\ storedJournal' = JournalAfter(in)
        /\ steady' = (steady \/ test # activeTest)
    BY DEF Tick
  <2>4. journalFile' = IF Ended(in) # <<>> /\ journalOk THEN JournalAfter(in) ELSE journalFile
    BY DEF Tick
  <2>5. WriteRuntimeTiming(FALSE, test, keep, timingOk)
    BY DEF Tick
  <2> HIDE DEF test, keep
  <2> QED BY <2>1, <2>2, <2>3, <2>4, <2>5
<1>6. storedJournal' = journalFile' /\ journalFile' = JournalAfter(in)
  BY <1>2, <1>3, <1>5 DEF JournalAfter
<1>7. /\ test \in Tests!Test \cup {Tests!NoTest}
      /\ \/ test = activeTest
         \/ test = Tests!NoTest
         \/ test.startedAt = clock /\ (IsDuration(test) => clock \notin begun)
      /\ begun \subseteq begun'
  <2>1. \/ test = activeTest
        \/ test = Tests!NoTest
        \/ Tests!Starts(in) /\ test \in Tests!Test /\ test.startedAt = clock
    BY <1>5, OneCall
  <2>2. Tests!Starts(in) /\ IsDuration(test) => clock \notin begun
    BY DEF Tick, StartIsNew, StartsDuration
  <2>3. begun \subseteq begun'
    BY DEF Tick
  <2> HIDE DEF test
  <2> QED BY <1>5, <2>1, <2>2, <2>3 DEF TestNow
<1> HIDE DEF test, keep
<1>8. /\ lastWrite' # Never
      /\ persistedStart' = StartOf(test) /\ StartOf(timingFile'.test) = StartOf(test)
      /\ timingFile'.heartbeat <= lastWrite'
      /\ lastWrite' - timingFile'.heartbeat < TicksPerSecond
      /\ IsDuration(test) /\ (steady \/ test # activeTest) =>
           lastWrite' < clock' /\ clock' - lastWrite' <= HeartbeatPeriod
  <2>1. IsDuration(test) /\ test # activeTest => test.startedAt \notin begun
    BY <1>7, NoTestIsNone
  <2>2. WriteRuntimeTiming(FALSE, test, FALSE, timingOk) /\ (TimingDue(FALSE, test, FALSE) => timingOk)
    BY <1>2, <1>4, <1>5
  <2> QED BY <1>3, <1>5, <1>7, <2>1, <2>2, MarkerWritten
<1>9. MarkerIsRecent'
  <2>1. IsDuration(test) /\ steady' => test.startedAt < clock'
    <3>1. CASE test = activeTest
      <4>1. IsDuration(test) => test.startedAt \in Nat
        BY <1>7, NoTestIsNone DEF Tests!Test
      <4>2. steady' => steady
        BY <1>5, <3>1
      <4>3. IsDuration(test) /\ steady => test.startedAt < clock
        BY <1>3, <3>1 DEF MarkerIsRecent
      <4>4. clock' = clock + 1 /\ clock \in Nat
        BY <1>5
      <4> QED BY <4>1, <4>2, <4>3, <4>4
    <3>2. CASE test # activeTest
      <4>1. IsDuration(test) => test.startedAt = clock
        BY <1>7, <3>2, NoTestIsNone
      <4>2. clock < clock'
        BY <1>5
      <4> QED BY <4>1, <4>2
    <3> QED BY <3>1, <3>2
  <2> QED BY <1>5, <1>8, <2>1 DEF MarkerIsRecent, StartOf, IsDuration, Never
<1>10. ASSUME NEW c \in interrupted PROVE InterruptedStays(c)'
  <2>1. InterruptedStays(c) /\ c.startedAt \in Nat /\ c.startedAt # Never
    BY <1>3, InterruptedShape
  <2>2. c.startedAt \in begun'
    BY <1>7, <2>1 DEF InterruptedStays
  <2>3. StartOf(test) # c.startedAt
    BY <1>5, <1>7, <2>1, NoTestIsNone DEF InterruptedStays, StartOf
  <2>4. IsDuration(activeTest') => activeTest'.startedAt # c.startedAt
    BY <1>5, <2>3 DEF StartOf
  <2>5. StartOf(timingFile'.test) # c.startedAt
    BY <1>8, <2>3
  <2>6. ASSUME NEW i \in DOMAIN journalFile', journalFile'[i].status = "PowerLoss",
               journalFile'[i].startedAt = c.startedAt
        PROVE  Confirmed(journalFile'[i], c)
    <3>1. \E j \in DOMAIN journalFile : journalFile'[i] = journalFile[j]
      BY <1>3, <1>5, <1>6, <2>6, JournalGrows
    <3> QED BY <2>1, <2>6, <3>1 DEF InterruptedStays
  <2> QED BY <2>2, <2>4, <2>5, <2>6 DEF InterruptedStays, StartOf, IsDuration, Confirmed
<1> QED BY <1>4, <1>5, <1>6, <1>9, <1>10

\* What the marker says of a test that is running now.
LEMMA MarkerConfirms ==
  ASSUME RecordInv, MarkerIsRecent, IsDuration(activeTest)
  PROVE  /\ StartOf(timingFile.test) = activeTest.startedAt
         /\ Confirmed(RecoveredEntry(timingFile), [startedAt |-> activeTest.startedAt, at |-> clock, steady |-> steady])
<1>1. activeTest \in Tests!Test /\ activeTest.startedAt \in Nat /\ clock \in Nat
  BY NoTestIsNone DEF RecordInv, TypeOK, Times, Tests!Test
<1>2. StartOf(timingFile.test) = activeTest.startedAt
  BY DEF MarkerIsRecent
<1>3. IsDuration(timingFile.test) /\ timingFile.test.startedAt = activeTest.startedAt
  BY <1>1, <1>2 DEF StartOf, Never
<1>4. timingFile.heartbeat \in Nat /\ lastWrite \in Nat
  BY <1>3, NoTestIsNone DEF RecordInv, TypeOK, MarkerIsRecent, Times, NoTiming
<1>5. steady => /\ timingFile.heartbeat <= clock /\ activeTest.startedAt <= clock
                /\ clock - timingFile.heartbeat < HeartbeatPeriod + TicksPerSecond
  BY <1>1, <1>4, BoundsAssumption DEF MarkerIsRecent
<1> DEFINE e == RecoveredEntry(timingFile)
<1>6. /\ e.startedAt = activeTest.startedAt
      /\ e.finishedAt = IF timingFile.heartbeat >= activeTest.startedAt THEN timingFile.heartbeat
                        ELSE activeTest.startedAt
  BY <1>3 DEF RecoveredEntry
<1> HIDE DEF e
<1>7. e.finishedAt >= e.startedAt /\ (steady => e.finishedAt <= clock)
  BY <1>1, <1>4, <1>5, <1>6
<1>8. steady => clock - e.finishedAt < HeartbeatPeriod + TicksPerSecond
  BY <1>1, <1>4, <1>5, <1>6, BoundsAssumption
<1> QED BY <1>2, <1>6, <1>7, <1>8 DEF Confirmed, e

LEMMA LengthCrash ==
  ASSUME RecordInv, LengthInv, up, LoseMemory,
         UNCHANGED <<clock, timingFile, confirmed, begun, clockChanges, failures>>,
         \A i \in DOMAIN journalFile' : \/ journalFile'[i].status = "Ended"
                                        \/ \E j \in DOMAIN storedJournal : journalFile'[i] = storedJournal[j]
  PROVE  LengthInv'
<1>1. /\ up' = FALSE /\ activeTest' = Tests!NoTest /\ preserve' = FALSE
      /\ persistedStart' = Never /\ lastWrite' = Never
  BY DEF LoseMemory
<1>2. SUFFICES ASSUME failures = 0 PROVE \A c \in interrupted' : InterruptedStays(c)'
  BY <1>1, <1>2, NoTestIsNone DEF LengthInv, MarkerIsRecent, IsDuration
<1>3. storedJournal = journalFile /\ MarkerIsRecent /\ \A c \in interrupted : InterruptedStays(c)
  BY <1>2 DEF LengthInv
<1>4. TAKE c \in interrupted'
<1>5. /\ c.startedAt \in begun
      /\ StartOf(timingFile.test) = c.startedAt => Confirmed(RecoveredEntry(timingFile), c)
      /\ \A j \in DOMAIN journalFile :
           journalFile[j].status = "PowerLoss" /\ journalFile[j].startedAt = c.startedAt =>
             Confirmed(journalFile[j], c)
  <2>1. CASE c \in interrupted
    BY <1>3, <2>1 DEF InterruptedStays
  <2>2. CASE c \notin interrupted
    <3>1. /\ IsDuration(activeTest)
          /\ c = [startedAt |-> activeTest.startedAt, at |-> clock, steady |-> steady]
      BY <2>2 DEF LoseMemory
    <3>2. activeTest.startedAt \in begun \ Recorded(journalFile)
      BY <1>3, <3>1 DEF RecordInv
    <3>3. \A j \in DOMAIN journalFile :
            journalFile[j].status = "PowerLoss" => journalFile[j].startedAt \in Recorded(journalFile)
      BY DEF RecordInv, Sound, Recorded
    <3> QED BY <1>3, <3>1, <3>2, <3>3, MarkerConfirms
  <2> QED BY <2>1, <2>2
<1>6. ASSUME NEW i \in DOMAIN journalFile', journalFile'[i].status = "PowerLoss",
             journalFile'[i].startedAt = c.startedAt
      PROVE  Confirmed(journalFile'[i], c)
  BY <1>3, <1>5, <1>6
<1>7. RecoveredEntry(timingFile)' = RecoveredEntry(timingFile)
  BY DEF RecoveredEntry
<1> QED BY <1>1, <1>5, <1>6, <1>7, NoTestIsNone DEF InterruptedStays, StartOf, IsDuration, Confirmed

LEMMA LengthStayOff ==
  ASSUME RecordInv, LengthInv, StayOff
  PROVE  LengthInv'
<1>1. /\ UNCHANGED <<up, activeTest, storedJournal, preserve, persistedStart, lastWrite, journalFile,
                     timingFile, begun, interrupted, failures>>
      /\ ~up
  BY DEF StayOff, memory, files, history, RecordInv, TypeOK, Times
<1>2. activeTest = Tests!NoTest
  BY <1>1 DEF RecordInv
<1>3. ASSUME failures = 0
      PROVE  MarkerIsRecent' /\ \A c \in interrupted' : InterruptedStays(c)'
  <2>1. MarkerIsRecent /\ \A c \in interrupted : InterruptedStays(c)
    BY <1>3 DEF LengthInv
  <2>2. MarkerIsRecent'
    BY <1>1, <1>2, <2>1, NoTestIsNone DEF MarkerIsRecent, IsDuration, StartOf
  <2>3. ASSUME NEW c \in interrupted PROVE InterruptedStays(c)'
    <3>1. InterruptedStays(c) /\ c.startedAt \in Nat
      BY <2>1, InterruptedShape
    <3>2. RecoveredEntry(timingFile)' = RecoveredEntry(timingFile)
      BY <1>1 DEF RecoveredEntry
    <3> QED BY <1>1, <1>2, <3>1, <3>2, NoTestIsNone DEF InterruptedStays, IsDuration, StartOf, Confirmed
  <2> QED BY <1>1, <2>2, <2>3
<1> QED BY <1>1, <1>3 DEF LengthInv

LEMMA LengthStart ==
  ASSUME RecordInv, LengthInv, NEW journalOk \in BOOLEAN, NEW timingOk \in BOOLEAN,
         Start(journalOk, timingOk)
  PROVE  LengthInv'
<1> DEFINE recovers == NeedsRecovery(timingFile, journalFile)
           e        == RecoveredEntry(timingFile)
           keep     == recovers /\ ~journalOk
<1>1. SUFFICES ASSUME failures' = 0
               PROVE  /\ ~preserve' /\ (up' => storedJournal' = journalFile')
                      /\ MarkerIsRecent'
                      /\ \A c \in interrupted : InterruptedStays(c)'
  <2>1. interrupted' = interrupted
    BY DEF Start
  <2> QED BY <1>1, <2>1 DEF LengthInv
<1>2. failures = 0 /\ (recovers => journalOk) /\ (~keep => timingOk)
  BY <1>1, FailuresCounted DEF Start
<1>3. MarkerIsRecent /\ \A c \in interrupted : InterruptedStays(c)
  BY <1>2 DEF LengthInv
<1>4. keep = FALSE /\ timingOk
  BY <1>2
<1>5. /\ clock \in Nat /\ clock' = clock + 1 /\ activeTest' = activeTest /\ activeTest = Tests!NoTest
      /\ preserve' = keep /\ storedJournal' = journalFile'
      /\ journalFile' = IF recovers THEN Trimmed(Append(journalFile, e)) ELSE journalFile
      /\ WriteRuntimeTiming(TRUE, Tests!NoTest, keep, timingOk)
  <2>1. clock \in Nat /\ clock' = clock + 1 /\ activeTest' = activeTest /\ ~up
    BY BoundsAssumption DEF Start, RecordInv, TypeOK, Times
  <2>2. activeTest = Tests!NoTest
    BY <2>1 DEF RecordInv
  <2>3. preserve' = keep /\ WriteRuntimeTiming(TRUE, Tests!NoTest, keep, timingOk)
    BY DEF Start
  <2>4. /\ journalFile' = IF recovers /\ journalOk THEN Trimmed(Append(journalFile, e)) ELSE journalFile
        /\ storedJournal' = journalFile'
    BY DEF Start
  <2> HIDE DEF recovers, e, keep
  <2> QED BY <1>2, <2>1, <2>2, <2>3, <2>4
<1>6. journalFile \in Seq(StoredEntry) /\ Sound(journalFile, begun) /\ begun' = begun
  BY DEF RecordInv, TypeOK, Start
<1>7. ASSUME NEW i \in DOMAIN journalFile'
      PROVE  \/ recovers /\ journalFile'[i] = e
             \/ \E j \in DOMAIN journalFile : journalFile'[i] = journalFile[j]
  <2>1. CASE recovers
    <3>1. /\ e \in StoredEntry /\ e.kind = "Duration"
          /\ e.startedAt \in begun \ Recorded(journalFile)
      <4>1. timingFile # NoTiming
        BY <2>1, NoTestIsNone DEF NeedsRecovery, NoTiming
      <4>2. timingFile.heartbeat \in Nat /\ timingFile.test \in Tests!Test
        BY <2>1, <4>1, NoTestIsNone DEF RecordInv, TypeOK, NeedsRecovery, Times
      <4>3. e \in StoredEntry
        BY <4>2 DEF RecoveredEntry, StoredEntry, Tests!Test, Tests!Kinds
      <4>4. e.startedAt = timingFile.test.startedAt /\ e.kind = "Duration"
        BY DEF RecoveredEntry
      <4> QED BY <2>1, <4>3, <4>4 DEF NeedsRecovery, RecordInv
    <3> HIDE DEF e, recovers
    <3> QED BY <1>5, <1>6, <1>7, <2>1, <3>1, SoundExtended
  <2>2. CASE ~recovers
    BY <1>5, <1>7, <2>2
  <2> QED BY <2>1, <2>2
<1>8. /\ StartOf(timingFile'.test) = Never /\ persistedStart' = Never
      /\ lastWrite' # Never
      /\ timingFile'.heartbeat <= lastWrite'
      /\ lastWrite' - timingFile'.heartbeat < TicksPerSecond
  <2>1. StartOf(Tests!NoTest) = Never
    BY NoTestIsNone DEF StartOf
  <2> HIDE DEF keep
  <2> QED BY <1>3, <1>4, <1>5, <2>1, NoTestIsNone, MarkerWritten
<1>9. MarkerIsRecent'
  BY <1>5, <1>8, NoTestIsNone DEF MarkerIsRecent, StartOf, IsDuration
<1>10. ASSUME NEW c \in interrupted PROVE InterruptedStays(c)'
  <2>1. InterruptedStays(c) /\ c.startedAt \in Nat /\ c.startedAt # Never
    BY <1>3, InterruptedShape
  <2>2. c.startedAt \in begun'
    BY <1>6, <2>1 DEF InterruptedStays
  <2>3. ASSUME NEW i \in DOMAIN journalFile', journalFile'[i].status = "PowerLoss",
               journalFile'[i].startedAt = c.startedAt
        PROVE  Confirmed(journalFile'[i], c)
    <3>1. CASE recovers /\ journalFile'[i] = e
      <4>1. StartOf(timingFile.test) = e.startedAt
        BY <3>1 DEF NeedsRecovery, StartOf, RecoveredEntry
      <4> HIDE DEF recovers
      <4>2. Confirmed(e, c)
        BY <2>1, <2>3, <3>1, <4>1 DEF InterruptedStays
      <4> QED BY <3>1, <4>2
    <3>2. CASE \E j \in DOMAIN journalFile : journalFile'[i] = journalFile[j]
      BY <2>1, <2>3, <3>2 DEF InterruptedStays
    <3> QED BY <1>7, <3>1, <3>2
  <2> HIDE DEF e
  <2> QED BY <1>5, <1>8, <2>1, <2>2, <2>3, NoTestIsNone DEF InterruptedStays, StartOf, IsDuration, Confirmed
<1> QED BY <1>4, <1>5, <1>9, <1>10

LEMMA LengthStep == RecordInv /\ LengthInv /\ [Next]_vars => LengthInv'
<1> SUFFICES ASSUME RecordInv, LengthInv, [Next]_vars PROVE LengthInv'
  OBVIOUS
<1>1. CASE \E in \in TestInputs, journalOk, timingOk \in BOOLEAN : Tick(in, journalOk, timingOk)
  BY <1>1, LengthTick
<1>2. CASE \E in \in TestInputs : CrashInTick(in)
  <2>1. PICK in \in TestInputs : CrashInTick(in)
    BY <1>2
  <2>2. /\ up /\ LoseMemory /\ UNCHANGED <<clock, timingFile, confirmed, begun, clockChanges, failures>>
        /\ journalFile' = JournalAfter(in)
    BY <2>1 DEF CrashInTick
  <2>3. \A i \in DOMAIN JournalAfter(in) :
          \/ JournalAfter(in)[i].status = "Ended"
          \/ \E j \in DOMAIN storedJournal : JournalAfter(in)[i] = storedJournal[j]
    BY JournalGrows
  <2> QED BY <2>2, <2>3, LengthCrash
<1>3. CASE Crash
  <2>1. /\ up /\ LoseMemory /\ UNCHANGED <<clock, timingFile, confirmed, begun, clockChanges, failures>>
        /\ journalFile' = journalFile
    BY <1>3 DEF Crash, files
  <2>2. CASE failures = 0
    <3>1. storedJournal = journalFile
      BY <2>1, <2>2 DEF LengthInv
    <3> QED BY <2>1, <3>1, LengthCrash
  <2>3. CASE failures # 0
    BY <2>1, <2>3 DEF LengthInv
  <2> QED BY <2>2, <2>3
<1>4. CASE StayOff
  BY <1>4, LengthStayOff
<1>7. CASE \E now \in ClockSettings : SetSystemTime(now)
  <2>1. /\ UNCHANGED <<up, activeTest, storedJournal, preserve, persistedStart, lastWrite, journalFile,
                       timingFile, begun, interrupted, failures>>
        /\ IsDuration(activeTest) => ~steady'
    BY <1>7 DEF SetSystemTime, memory, files
  <2>2. RecoveredEntry(timingFile)' = RecoveredEntry(timingFile)
    BY <2>1 DEF RecoveredEntry
  <2> QED BY <2>1, <2>2 DEF LengthInv, MarkerIsRecent, InterruptedStays, IsDuration, StartOf, Confirmed
<1>5. CASE \E journalOk, timingOk \in BOOLEAN : Start(journalOk, timingOk)
  BY <1>5, LengthStart
<1>6. CASE UNCHANGED vars
  <2>1. UNCHANGED <<up, activeTest, storedJournal, preserve, persistedStart, lastWrite, journalFile,
                    timingFile, begun, interrupted, failures, clock, steady>>
    BY <1>6 DEF vars, memory, files, history
  <2>2. RecoveredEntry(timingFile)' = RecoveredEntry(timingFile)
    BY <2>1 DEF RecoveredEntry
  <2> QED BY <2>1, <2>2 DEF LengthInv, MarkerIsRecent, InterruptedStays, IsDuration, StartOf, Confirmed
<1> QED BY <1>1, <1>2, <1>3, <1>4, <1>5, <1>6, <1>7 DEF Next

\* As long as no write fails, recovery never reports a length the test did not
\* run, nor one shorter than it ran by more than the heartbeat's age, of a test
\* during which nobody set the clock; of no test one that ends before it begins.
THEOREM RecoveredLengthsAreTrue == Spec => []RecoveredLengthIsConfirmed
<1>1. LengthInv => RecoveredLengthIsConfirmed
  BY DEF LengthInv, InterruptedStays, RecoveredLengthIsConfirmed, Confirmed
<1> QED BY <1>1, RecordInit, RecordStep, LengthInit, LengthStep, PTL DEF Spec
-----------------------------------------------------------------------------
(* Whatever fails: a test whose marker was written is not forgotten.       *)

\* Until the newer journal is full it has every test of the older one.
Covers(newer, older) ==
  Len(newer) < MaxStoredTestJournalEntries =>
    Len(older) < MaxStoredTestJournalEntries /\ Recorded(older) \subseteq Recorded(newer)

\* The journal in memory has what that on disk has; the marker on disk is that of
\* the running test, or of one that is in the journal, or it is preserved.
KeepInv ==
  /\ up => Covers(storedJournal, journalFile)
  /\ NothingForgotten
  /\ up /\ ~preserve /\ ~JournalIsFull =>
       StartOf(timingFile.test) \in Recorded(journalFile) \cup {Never, StartOf(activeTest)}

LEMMA CoversOneMore ==
  ASSUME NEW entries \in Seq(StoredEntry), NEW e \in StoredEntry
  PROVE  LET new == Trimmed(Append(entries, e))
         IN  /\ Covers(new, entries)
             /\ Len(new) < MaxStoredTestJournalEntries /\ e.kind = "Duration" =>
                  e.startedAt \in Recorded(new)
<1> DEFINE all == Append(entries, e)
           new == Trimmed(all)
           n   == Len(entries)
           max == MaxStoredTestJournalEntries
<1>1. /\ all \in Seq(StoredEntry) /\ Len(all) = n + 1 /\ n \in Nat /\ max \in Nat \ {0}
      /\ \A i \in 1..n : all[i] = entries[i]
      /\ all[n + 1] = e
  BY AppendProperties, BoundsAssumption
<1>2. DOMAIN entries = 1..n /\ DOMAIN all = 1..(n + 1)
  BY <1>1
<1>3. CASE n + 1 <= max
  <2>1. new = all
    BY <1>1, <1>3 DEF Trimmed
  <2>2. Recorded(entries) \subseteq Recorded(all)
    <3> HIDE DEF all, n
    <3> QED BY <1>1, <1>2 DEF Recorded
  <2>3. e.kind = "Duration" => e.startedAt \in Recorded(all)
    <3>1. n + 1 \in DOMAIN all
      BY <1>1, <1>2
    <3> HIDE DEF all, n
    <3> QED BY <1>1, <3>1 DEF Recorded
  <2>4. n < max
    BY <1>1, <1>3
  <2> HIDE DEF all, new
  <2> QED BY <2>1, <2>2, <2>3, <2>4 DEF Covers, new, all
<1>4. CASE ~(n + 1 <= max)
  <2> DEFINE short == SubSeq(all, n + 1 - max + 1, n + 1)
  <2>1. new = short
    BY <1>1, <1>4 DEF Trimmed
  <2>2. n + 1 - max + 1 \in 1..(n + 1) /\ n + 1 \in 1..(n + 1)
    BY <1>1, <1>4
  <2>3. Len(short) = n + 1 - (n + 1 - max + 1) + 1
    <3> HIDE DEF all, n
    <3> QED BY <1>1, <2>2, SubSeqProperties
  <2>4. Len(new) = max
    BY <1>1, <2>1, <2>3
  <2>5. ~(Len(new) < max)
    BY <1>1, <2>4
  <2> HIDE DEF new
  <2> QED BY <2>5 DEF Covers, new, all
<1> QED BY <1>1, <1>3, <1>4

LEMMA JournalCovers ==
  ASSUME RecordInv, NEW in \in TestInputs
  PROVE  /\ Covers(JournalAfter(in), storedJournal)
         /\ Ended(in) # <<>> /\ Len(JournalAfter(in)) < MaxStoredTestJournalEntries =>
              StartOf(activeTest) \in Recorded(JournalAfter(in)) \cup {Never}
<1>1. clock \in Nat /\ TestNow /\ storedJournal \in Seq(StoredEntry)
  BY DEF RecordInv, TypeOK, TestNow, Times
<1>2. CASE Ended(in) = <<>>
  BY <1>2 DEF JournalAfter, Covers
<1>3. CASE Ended(in) # <<>>
  <2>1. PICK e \in StoredEntry : /\ Ended(in) = <<e>> /\ e.status = "Ended"
                                 /\ e.kind = activeTest.kind /\ e.startedAt = activeTest.startedAt
    BY <1>1, <1>3, OneCall
  <2>2. JournalAfter(in) = Trimmed(Append(storedJournal, e))
    <3>1. Append(storedJournal, e) = storedJournal \o <<e>>
      BY <1>1, AppendIsConcat
    <3> QED BY <1>3, <2>1, <3>1 DEF JournalAfter
  <2>3. /\ Covers(JournalAfter(in), storedJournal)
        /\ Len(JournalAfter(in)) < MaxStoredTestJournalEntries /\ e.kind = "Duration" =>
             e.startedAt \in Recorded(JournalAfter(in))
    BY <1>1, <2>2, CoversOneMore
  <2> QED BY <2>1, <2>3 DEF StartOf, IsDuration
<1> QED BY <1>2, <1>3

\* A write leaves the marker, or replaces it by the running test's.
LEMMA MarkerIsKept ==
  ASSUME NEW force, NEW keep, NEW ok, NEW test, ~IsDuration(Tests!NoTest),
         WriteRuntimeTiming(force, test, keep, ok)
  PROVE  \/ /\ StartOf(timingFile'.test) = StartOf(timingFile.test) /\ timingFile' = timingFile
            /\ confirmed' = confirmed
         \/ /\ ~keep /\ StartOf(timingFile'.test) = StartOf(test)
            /\ confirmed' \subseteq confirmed \cup {StartOf(test)}
<1>1. CASE TimingDue(force, test, keep) /\ ok
  <2>1. timingFile' = Timing(test) /\ ~keep
    BY <1>1 DEF WriteRuntimeTiming, TimingDue
  <2>2. StartOf(Timing(test).test) = StartOf(test)
    BY DEF StartOf, Timing
  <2>3. confirmed' \subseteq confirmed \cup {StartOf(test)}
    BY <1>1 DEF WriteRuntimeTiming, StartOf
  <2> QED BY <2>1, <2>2, <2>3
<1>2. CASE ~(TimingDue(force, test, keep) /\ ok)
  BY <1>2 DEF WriteRuntimeTiming
<1> QED BY <1>1, <1>2

LEMMA KeepInit == Init => KeepInv
BY NoTestIsNone DEF Init, KeepInv, NothingForgotten

LEMMA KeepTick ==
  ASSUME RecordInv, KeepInv, NEW in \in TestInputs, NEW journalOk \in BOOLEAN,
         NEW timingOk \in BOOLEAN, Tick(in, journalOk, timingOk)
  PROVE  KeepInv' /\ Covers(journalFile', journalFile)
<1> DEFINE test == Tests!ActiveAfter(in)
           keep == KeepMarker(in, journalOk)
           full == Len(journalFile') >= MaxStoredTestJournalEntries
<1>1. clock \in Nat /\ TestNow
  BY BoundsAssumption DEF RecordInv, TypeOK, TestNow, Times
<1>2. /\ up /\ up' = up /\ activeTest' = test /\ preserve' = keep /\ storedJournal' = JournalAfter(in)
      /\ journalFile' = IF Ended(in) # <<>> /\ journalOk THEN JournalAfter(in) ELSE journalFile
  BY DEF Tick
<1>3. WriteRuntimeTiming(FALSE, test, keep, timingOk)
  BY DEF Tick
<1>4. Covers(JournalAfter(in), storedJournal) /\ Covers(storedJournal, journalFile)
  BY <1>2, JournalCovers DEF KeepInv
<1>5. Covers(JournalAfter(in), journalFile)
  BY <1>4 DEF Covers
<1>6. Covers(journalFile', journalFile) /\ Covers(storedJournal', journalFile')
  BY <1>2, <1>5 DEF Covers
<1>7. /\ journalFile' \in Seq(StoredEntry) /\ journalFile \in Seq(StoredEntry)
      /\ MaxStoredTestJournalEntries \in Nat
  BY <1>2, JournalGrows, BoundsAssumption DEF RecordInv, TypeOK
<1>8. ASSUME ~full
      PROVE  ~JournalIsFull /\ Recorded(journalFile) \subseteq Recorded(journalFile')
  <2>1. Len(journalFile') \in Nat /\ Len(journalFile) \in Nat
    BY <1>7
  <2> QED BY <1>6, <1>7, <1>8, <2>1 DEF Covers, JournalIsFull
<1>9. \/ /\ StartOf(timingFile'.test) = StartOf(timingFile.test) /\ timingFile' = timingFile
         /\ confirmed' = confirmed
      \/ /\ ~keep /\ StartOf(timingFile'.test) = StartOf(test)
         /\ confirmed' \subseteq confirmed \cup {StartOf(test)}
  BY <1>3, NoTestIsNone, MarkerIsKept
\* The marker that was on disk before is the running test's or not needed.
<1>10. ASSUME ~full, ~keep
       PROVE  StartOf(timingFile.test) \in Recorded(journalFile') \cup {Never, StartOf(test)}
  <2>1. ~preserve /\ ~(Ended(in) # <<>> /\ ~journalOk /\ IsDuration(activeTest))
    BY <1>10 DEF KeepMarker
  <2>2. StartOf(timingFile.test) \in Recorded(journalFile) \cup {Never, StartOf(activeTest)}
    BY <1>2, <1>8, <1>10, <2>1 DEF KeepInv
  <2>3. StartOf(activeTest) \in Recorded(journalFile') \cup {Never, StartOf(test)}
    <3>1. CASE test = activeTest
      BY <3>1
    <3>2. CASE activeTest = Tests!NoTest
      BY <3>2, NoTestIsNone DEF StartOf
    <3>3. CASE test # activeTest /\ activeTest # Tests!NoTest
      <4>1. Ended(in) # <<>>
        BY <1>1, <3>3, OneCall
      <4>2. CASE ~journalOk
        BY <2>1, <4>1, <4>2 DEF StartOf
      <4>3. CASE journalOk
        <5>1. journalFile' = JournalAfter(in)
          BY <1>2, <4>1, <4>3
        <5>2. Len(JournalAfter(in)) < MaxStoredTestJournalEntries
          BY <1>7, <1>10, <5>1
        <5> QED BY <4>1, <5>1, <5>2, JournalCovers
      <4> QED BY <4>2, <4>3
    <3> QED BY <3>1, <3>2, <3>3
  <2> QED BY <1>8, <1>10, <2>2, <2>3
<1> HIDE DEF test, keep
<1>11. ASSUME ~full
       PROVE  confirmed' \subseteq Recorded(journalFile') \cup {StartOf(timingFile'.test)}
  <2>1. confirmed \subseteq Recorded(journalFile') \cup {StartOf(timingFile.test)}
    BY <1>8, <1>11 DEF KeepInv, NothingForgotten
  <2>2. Never \notin confirmed
    BY DEF RecordInv, TypeOK, Times, Never
  <2> QED BY <1>9, <1>10, <1>11, <2>1, <2>2
<1>12. ASSUME ~full, ~keep
       PROVE  StartOf(timingFile'.test) \in Recorded(journalFile') \cup {Never, StartOf(test)}
  BY <1>9, <1>10, <1>12
<1>13. NothingForgotten'
  BY <1>11 DEF NothingForgotten, JournalIsFull, Recorded, StartOf, IsDuration
<1>14. up' /\ ~preserve' /\ ~JournalIsFull' =>
         StartOf(timingFile'.test) \in Recorded(journalFile') \cup {Never, StartOf(activeTest')}
  BY <1>2, <1>12 DEF JournalIsFull
<1>15. up' => Covers(storedJournal, journalFile)'
  BY <1>6 DEF Covers, Recorded
<1> QED BY <1>6, <1>13, <1>14, <1>15 DEF KeepInv, Recorded, StartOf, IsDuration, Never

LEMMA KeepCrash ==
  ASSUME RecordInv, KeepInv, up, LoseMemory, UNCHANGED <<clock, timingFile, confirmed, begun, clockChanges, failures>>,
         journalFile' \in Seq(StoredEntry), Covers(journalFile', journalFile)
  PROVE  KeepInv'
<1>1. up' = FALSE
  BY DEF LoseMemory
<1>2. MaxStoredTestJournalEntries \in Nat /\ Len(journalFile') \in Nat /\ Len(journalFile) \in Nat
  BY BoundsAssumption DEF RecordInv, TypeOK
<1>3. ASSUME ~(Len(journalFile') >= MaxStoredTestJournalEntries)
      PROVE  confirmed' \subseteq Recorded(journalFile') \cup {StartOf(timingFile'.test)}
  <2>1. ~JournalIsFull /\ Recorded(journalFile) \subseteq Recorded(journalFile')
    BY <1>2, <1>3 DEF Covers, JournalIsFull
  <2> QED BY <2>1 DEF KeepInv, NothingForgotten
<1>4. NothingForgotten'
  BY <1>3 DEF NothingForgotten, JournalIsFull, Recorded, StartOf, IsDuration
<1> QED BY <1>1, <1>4 DEF KeepInv

LEMMA KeepStart ==
  ASSUME RecordInv, KeepInv, NEW journalOk \in BOOLEAN, NEW timingOk \in BOOLEAN,
         Start(journalOk, timingOk)
  PROVE  /\ KeepInv' /\ Covers(journalFile', journalFile)
         /\ ~preserve' /\ ~(Len(journalFile') >= MaxStoredTestJournalEntries) =>
              StartOf(timingFile.test) \in Recorded(journalFile') \cup {Never}
<1> DEFINE recovers == NeedsRecovery(timingFile, journalFile)
           e        == RecoveredEntry(timingFile)
           keep     == recovers /\ ~journalOk
           full     == Len(journalFile') >= MaxStoredTestJournalEntries
<1>1. /\ journalFile' = IF recovers /\ journalOk THEN Trimmed(Append(journalFile, e)) ELSE journalFile
      /\ storedJournal' = journalFile' /\ preserve' = keep /\ activeTest' = activeTest
  BY DEF Start
<1>2. WriteRuntimeTiming(TRUE, Tests!NoTest, keep, timingOk)
  BY DEF Start
<1>3. journalFile \in Seq(StoredEntry) /\ MaxStoredTestJournalEntries \in Nat
  BY BoundsAssumption DEF RecordInv, TypeOK
<1>4. ASSUME recovers
      PROVE  e \in StoredEntry /\ e.kind = "Duration" /\ e.startedAt = StartOf(timingFile.test)
  <2>1. timingFile # NoTiming
    BY <1>4, NoTestIsNone DEF NeedsRecovery, NoTiming
  <2>2. timingFile.heartbeat \in Nat /\ timingFile.test \in Tests!Test
    BY <1>4, <2>1, NoTestIsNone DEF RecordInv, TypeOK, NeedsRecovery, Times
  <2>3. e \in StoredEntry
    BY <2>2 DEF RecoveredEntry, StoredEntry, Tests!Test, Tests!Kinds
  <2> QED BY <1>4, <2>3 DEF NeedsRecovery, RecoveredEntry, StartOf
<1>5. /\ Covers(journalFile', journalFile) /\ journalFile' \in Seq(StoredEntry)
      /\ ~keep /\ ~full => StartOf(timingFile.test) \in Recorded(journalFile') \cup {Never}
  <2>1. CASE recovers /\ journalOk
    <3>1. journalFile' = Trimmed(Append(journalFile, e)) /\ e \in StoredEntry
      BY <1>1, <1>4, <2>1
    <3>2. /\ Covers(journalFile', journalFile)
          /\ Len(journalFile') < MaxStoredTestJournalEntries /\ e.kind = "Duration" =>
               e.startedAt \in Recorded(journalFile')
      BY <1>3, <3>1, CoversOneMore
    <3>3. journalFile' \in Seq(StoredEntry)
      BY <1>3, <3>1, TrimmedShape, AppendProperties
    <3>4. ~full => Len(journalFile') < MaxStoredTestJournalEntries
      BY <1>3, <3>3
    <3> QED BY <1>4, <2>1, <3>2, <3>3, <3>4
  <2>2. CASE ~recovers
    <3>1. StartOf(timingFile.test) \in Recorded(journalFile) \cup {Never}
      BY <2>2 DEF NeedsRecovery, StartOf
    <3> QED BY <1>1, <1>3, <2>2, <3>1 DEF Covers
  <2>3. CASE keep
    BY <1>1, <1>3, <2>3 DEF Covers
  <2> QED BY <2>1, <2>2, <2>3
<1> HIDE DEF recovers, e
<1>6. ASSUME ~full
      PROVE  ~JournalIsFull /\ Recorded(journalFile) \subseteq Recorded(journalFile')
  <2>1. Len(journalFile') \in Nat /\ Len(journalFile) \in Nat
    BY <1>3, <1>5
  <2> QED BY <1>3, <1>5, <1>6, <2>1 DEF Covers, JournalIsFull
<1>7. \/ /\ StartOf(timingFile'.test) = StartOf(timingFile.test) /\ timingFile' = timingFile
         /\ confirmed' = confirmed
      \/ /\ ~keep /\ StartOf(timingFile'.test) = Never
         /\ confirmed' \subseteq confirmed \cup {Never}
  <2>1. StartOf(Tests!NoTest) = Never
    BY NoTestIsNone DEF StartOf
  <2> HIDE DEF keep
  <2> QED BY <1>2, <2>1, NoTestIsNone, MarkerIsKept
<1>8. Never \notin confirmed /\ Never \notin confirmed'
  <2>1. TypeOK'
    BY RecordStart DEF RecordInv
  <2> QED BY <2>1 DEF RecordInv, TypeOK, Times, Never
<1>9. ASSUME ~full
      PROVE  confirmed' \subseteq Recorded(journalFile') \cup {StartOf(timingFile'.test)}
  <2>1. confirmed \subseteq Recorded(journalFile') \cup {StartOf(timingFile.test)}
    BY <1>6, <1>9 DEF KeepInv, NothingForgotten
  <2> HIDE DEF keep, full
  <2> QED BY <1>5, <1>7, <1>8, <1>9, <2>1
<1>10. NothingForgotten'
  BY <1>9 DEF NothingForgotten, JournalIsFull, Recorded, StartOf, IsDuration
<1>11. ~preserve' /\ ~full => StartOf(timingFile'.test) \in Recorded(journalFile') \cup {Never}
  <2> HIDE DEF keep, full
  <2> QED BY <1>1, <1>5, <1>7
<1>12. Covers(storedJournal, journalFile)'
  BY <1>1, <1>5 DEF Covers, Recorded
<1> QED BY <1>1, <1>5, <1>10, <1>11, <1>12 DEF KeepInv, JournalIsFull, Recorded, StartOf, IsDuration, Never

LEMMA KeepStep == RecordInv /\ KeepInv /\ [Next]_vars => KeepInv'
<1> SUFFICES ASSUME RecordInv, KeepInv, [Next]_vars PROVE KeepInv'
  OBVIOUS
<1>1. CASE \E in \in TestInputs, journalOk, timingOk \in BOOLEAN : Tick(in, journalOk, timingOk)
  BY <1>1, KeepTick
<1>2. CASE \E in \in TestInputs : CrashInTick(in)
  <2>1. PICK in \in TestInputs : CrashInTick(in)
    BY <1>2
  <2>2. /\ up /\ LoseMemory /\ UNCHANGED <<clock, timingFile, confirmed, begun, clockChanges, failures>>
        /\ journalFile' = JournalAfter(in)
    BY <2>1 DEF CrashInTick
  <2>3. Covers(JournalAfter(in), journalFile)
    BY <2>2, JournalCovers DEF KeepInv, Covers
  <2> QED BY <2>2, <2>3, JournalGrows, KeepCrash
<1>3. CASE Crash
  <2>1. /\ up /\ LoseMemory /\ UNCHANGED <<clock, timingFile, confirmed, begun, clockChanges, failures>>
        /\ journalFile' = journalFile
    BY <1>3 DEF Crash, files
  <2>2. Covers(journalFile', journalFile) /\ journalFile' \in Seq(StoredEntry)
    BY <2>1 DEF Covers, RecordInv, TypeOK
  <2> QED BY <2>1, <2>2, KeepCrash
<1>4. CASE StayOff
  BY <1>4 DEF StayOff, memory, files, history, KeepInv, NothingForgotten, JournalIsFull, Covers,
              Recorded, StartOf, IsDuration
<1>7. CASE \E now \in ClockSettings : SetSystemTime(now)
  BY <1>7 DEF SetSystemTime, memory, files, KeepInv, NothingForgotten, JournalIsFull, Covers,
              Recorded, StartOf, IsDuration
<1>5. CASE \E journalOk, timingOk \in BOOLEAN : Start(journalOk, timingOk)
  BY <1>5, KeepStart
<1>6. CASE UNCHANGED vars
  BY <1>6 DEF vars, memory, files, history, KeepInv, NothingForgotten, JournalIsFull, Covers,
              Recorded, StartOf, IsDuration
<1> QED BY <1>1, <1>2, <1>3, <1>4, <1>5, <1>6, <1>7 DEF Next

\* Whatever writes fail and whenever the power goes, a duration test whose marker
\* was once written is in the journal on disk or named by the marker on disk.
THEOREM NothingIsForgotten == Spec => []NothingForgotten
<1>1. KeepInv => NothingForgotten
  BY DEF KeepInv
<1> QED BY <1>1, RecordInit, RecordStep, KeepInit, KeepStep, PTL DEF Spec
-----------------------------------------------------------------------------
(* Without failed writes: an interrupted test is in the journal after the  *)
(* next start.                                                             *)

RecoverInv ==
  failures = 0 /\ ~JournalIsFull =>
    \A c \in interrupted : \/ c.startedAt \in Recorded(journalFile)
                           \/ ~up /\ StartOf(timingFile.test) = c.startedAt

LEMMA RecoverInit == Init => RecoverInv
BY DEF Init, RecoverInv

\* What a step of the running process or its start keeps of the interrupted tests.
LEMMA RecoverKept ==
  ASSUME RecordInv, RecoverInv, interrupted' = interrupted, failures' = 0 => failures = 0,
         journalFile' \in Seq(StoredEntry), Covers(journalFile', journalFile),
         up \/ (failures' = 0 /\ ~(Len(journalFile') >= MaxStoredTestJournalEntries) =>
                  StartOf(timingFile.test) \in Recorded(journalFile') \cup {Never})
  PROVE  RecoverInv'
<1>1. /\ MaxStoredTestJournalEntries \in Nat
      /\ Len(journalFile') \in Nat /\ Len(journalFile) \in Nat
  BY BoundsAssumption DEF RecordInv, TypeOK
<1>2. ASSUME failures' = 0, ~(Len(journalFile') >= MaxStoredTestJournalEntries),
             NEW c \in interrupted
      PROVE  c.startedAt \in Recorded(journalFile')
  <2>1. ~JournalIsFull /\ Recorded(journalFile) \subseteq Recorded(journalFile')
    BY <1>1, <1>2 DEF Covers, JournalIsFull
  <2>2. c.startedAt # Never
    BY InterruptedShape
  <2> QED BY <1>2, <2>1, <2>2 DEF RecoverInv
<1> QED BY <1>2 DEF RecoverInv, JournalIsFull, Recorded, StartOf, IsDuration

LEMMA RecoverCrash ==
  ASSUME RecordInv, LengthInv, RecoverInv, up, LoseMemory,
         UNCHANGED <<clock, timingFile, confirmed, begun, clockChanges, failures>>,
         journalFile' \in Seq(StoredEntry), Covers(journalFile', journalFile)
  PROVE  RecoverInv'
<1>1. /\ MaxStoredTestJournalEntries \in Nat
      /\ Len(journalFile') \in Nat /\ Len(journalFile) \in Nat
  BY BoundsAssumption DEF RecordInv, TypeOK
<1>2. /\ ~up' /\ timingFile' = timingFile /\ failures' = failures
      /\ interrupted' \subseteq interrupted \cup
           {c \in {[startedAt |-> activeTest.startedAt, at |-> clock, steady |-> steady]} :
              IsDuration(activeTest)}
  BY DEF LoseMemory
<1>3. ASSUME failures = 0, ~(Len(journalFile') >= MaxStoredTestJournalEntries),
             NEW c \in interrupted'
      PROVE  c.startedAt \in Recorded(journalFile') \/ StartOf(timingFile.test) = c.startedAt
  <2>1. CASE c \in interrupted
    <3>1. ~JournalIsFull /\ Recorded(journalFile) \subseteq Recorded(journalFile')
      BY <1>1, <1>3 DEF Covers, JournalIsFull
    <3> QED BY <1>3, <2>1, <3>1 DEF RecoverInv
  <2>2. CASE /\ IsDuration(activeTest)
             /\ c = [startedAt |-> activeTest.startedAt, at |-> clock, steady |-> steady]
    <3>1. StartOf(timingFile.test) = activeTest.startedAt
      BY <1>3, <2>2 DEF LengthInv, MarkerIsRecent
    <3> QED BY <2>2, <3>1
  <2> QED BY <1>2, <1>3, <2>1, <2>2
<1> QED BY <1>2, <1>3 DEF RecoverInv, JournalIsFull, Recorded, StartOf, IsDuration

LEMMA RecoverStep == RecordInv /\ LengthInv /\ KeepInv /\ RecoverInv /\ [Next]_vars => RecoverInv'
<1> SUFFICES ASSUME RecordInv, LengthInv, KeepInv, RecoverInv, [Next]_vars PROVE RecoverInv'
  OBVIOUS
<1>0. RecordInv' /\ journalFile' \in Seq(StoredEntry)
  BY RecordStep DEF RecordInv, TypeOK
<1>1. CASE \E in \in TestInputs, journalOk, timingOk \in BOOLEAN : Tick(in, journalOk, timingOk)
  <2>1. PICK in \in TestInputs, journalOk \in BOOLEAN, timingOk \in BOOLEAN :
          Tick(in, journalOk, timingOk)
    BY <1>1
  <2>2. up /\ interrupted' = interrupted /\ (failures' = 0 => failures = 0)
    BY <2>1, FailuresCounted DEF Tick
  <2> QED BY <1>0, <2>1, <2>2, KeepTick, RecoverKept
<1>2. CASE \E in \in TestInputs : CrashInTick(in)
  <2>1. PICK in \in TestInputs : CrashInTick(in)
    BY <1>2
  <2>2. /\ up /\ LoseMemory /\ UNCHANGED <<clock, timingFile, confirmed, begun, clockChanges, failures>>
        /\ journalFile' = JournalAfter(in)
    BY <2>1 DEF CrashInTick
  <2>3. Covers(JournalAfter(in), journalFile)
    BY <2>2, JournalCovers DEF KeepInv, Covers
  <2> QED BY <1>0, <2>2, <2>3, RecoverCrash
<1>3. CASE Crash
  <2>1. /\ up /\ LoseMemory /\ UNCHANGED <<clock, timingFile, confirmed, begun, clockChanges, failures>>
        /\ journalFile' = journalFile
    BY <1>3 DEF Crash, files
  <2>2. Covers(journalFile', journalFile)
    BY <2>1 DEF Covers
  <2> QED BY <1>0, <2>1, <2>2, RecoverCrash
<1>4. CASE StayOff
  BY <1>4 DEF StayOff, memory, files, history, RecoverInv, JournalIsFull, Recorded, StartOf, IsDuration
<1>7. CASE \E now \in ClockSettings : SetSystemTime(now)
  BY <1>7 DEF SetSystemTime, memory, files, RecoverInv, JournalIsFull, Recorded, StartOf, IsDuration
<1>5. CASE \E journalOk, timingOk \in BOOLEAN : Start(journalOk, timingOk)
  <2>1. PICK journalOk \in BOOLEAN, timingOk \in BOOLEAN : Start(journalOk, timingOk)
    BY <1>5
  <2>2. /\ interrupted' = interrupted /\ preserve' = (NeedsRecovery(timingFile, journalFile) /\ ~journalOk)
        /\ CountFailures(Failures(NeedsRecovery(timingFile, journalFile), journalOk,
                                  ~(NeedsRecovery(timingFile, journalFile) /\ ~journalOk), timingOk))
    BY <2>1 DEF Start
  <2>3. failures' = 0 => failures = 0 /\ ~preserve'
    BY <2>2, FailuresCounted
  <2> QED BY <1>0, <2>1, <2>2, <2>3, KeepStart, RecoverKept
<1>6. CASE UNCHANGED vars
  BY <1>6 DEF vars, memory, files, history, RecoverInv, JournalIsFull, Recorded, StartOf, IsDuration
<1> QED BY <1>1, <1>2, <1>3, <1>4, <1>5, <1>6, <1>7 DEF Next

\* As long as no write fails, a duration test that the power cut short at any
\* instant is in the journal once the process runs again.
THEOREM InterruptedTestsAreRecovered == Spec => []RecoveredUnlessWritesFail
<1>1. RecoverInv => RecoveredUnlessWritesFail
  BY DEF RecoverInv, RecoveredUnlessWritesFail, InterruptedIsRecovered
<1> QED BY <1>1, RecordInit, RecordStep, LengthInit, LengthStep, KeepInit, KeepStep,
           RecoverInit, RecoverStep, PTL DEF Spec
=============================================================================
