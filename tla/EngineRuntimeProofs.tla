------------------------- MODULE EngineRuntimeProofs -------------------------
(***************************************************************************)
(* What the tick and the commands promise for every set of lines, every    *)
(* length and every bound.                                                 *)
(***************************************************************************)
EXTENDS EngineRuntime, TLAPS

-----------------------------------------------------------------------------
(* The running test.                                                       *)

\* A manual request is in the commands.
LEMMA ManualRequestShape ==
  ASSUME commands \in Commands, NEW r \in ManualRequests
  PROVE  /\ r.source = "Manual" /\ r.kind \in Tests!Kinds /\ r.seconds \in Nat
         /\ r.kind = "Functional" => commands.functional # NoRequest
         /\ r.kind = "Duration" => commands.duration # NoRequest
<1>1. commands.functional \in Nat \cup {NoRequest} /\ commands.duration \in Nat \cup {NoRequest}
  BY LengthsAssumption DEF Commands
<1>2. CASE /\ commands.functional # NoRequest
           /\ r = [source |-> "Manual", kind |-> "Functional", seconds |-> commands.functional]
  BY <1>1, <1>2 DEF Tests!Kinds
<1>3. CASE /\ commands.duration # NoRequest
           /\ r = [source |-> "Manual", kind |-> "Duration", seconds |-> commands.duration]
  BY <1>1, <1>3 DEF Tests!Kinds
<1> QED BY <1>2, <1>3 DEF ManualRequests

\* The requests of a tick are tests that the priorities can compare.
LEMMA RequestShape ==
  ASSUME commands \in Commands, NEW field \in Field, NEW scheduled \in ScheduledRequests,
         NEW r \in TestInputs(field, scheduled).requests
  PROVE  /\ r.source \in Tests!Sources /\ r.kind \in Tests!Kinds /\ r.seconds \in Nat
         /\ r.source = "Manual" => r \in ManualRequests
<1>1. r \in ManualRequests \cup scheduled
  BY DEF TestInputs
<1>2. CASE r \in ManualRequests
  BY <1>2, ManualRequestShape DEF Tests!Sources
<1>3. CASE r \in scheduled
  <2>1. PICK k \in Tests!Kinds : r = [source |-> "Scheduled", kind |-> k, seconds |-> 0]
    BY <1>3 DEF ScheduledRequests
  <2> QED BY <2>1 DEF Tests!Sources
<1> QED BY <1>1, <1>2, <1>3

\* When anything is requested, the highest request is one of the requests and
\* none is more urgent.
LEMMA HighestRequested ==
  ASSUME NEW in, in.requests # {},
         \A r \in in.requests : r.source \in Tests!Sources /\ r.kind \in Tests!Kinds
  PROVE  /\ Tests!HighestRequested(in) \in in.requests
         /\ \A q \in in.requests : Tests!Priority(q) <= Tests!Priority(Tests!HighestRequested(in))
<1>1. \A q \in in.requests : Tests!Priority(q) \in 1..4
  BY DEF Tests!Priority, Tests!Sources, Tests!Kinds
<1>2. \E r \in in.requests : \A q \in in.requests : Tests!Priority(q) <= Tests!Priority(r)
  <2>1. CASE \E r \in in.requests : Tests!Priority(r) = 4
    BY <1>1, <2>1
  <2>2. CASE (\A q \in in.requests : Tests!Priority(q) # 4) /\ \E r \in in.requests : Tests!Priority(r) = 3
    BY <1>1, <2>2
  <2>3. CASE (\A q \in in.requests : Tests!Priority(q) \notin {3, 4}) /\ \E r \in in.requests : Tests!Priority(r) = 2
    BY <1>1, <2>3
  <2>4. CASE \A q \in in.requests : Tests!Priority(q) \notin {2, 3, 4}
    BY <1>1, <2>4
  <2> QED BY <2>1, <2>2, <2>3, <2>4
<1> QED BY <1>2 DEF Tests!HighestRequested

\* What a tick that starts a test starts is one of its requests, and none of
\* them is more urgent.
LEMMA StartedTest ==
  ASSUME commands \in Commands, clock \in Nat,
         NEW field \in Field, NEW scheduled \in ScheduledRequests,
         Tests!Starts(TestInputs(field, scheduled))
  PROVE  \E r \in TestInputs(field, scheduled).requests :
           /\ Tests!Running(TestInputs(field, scheduled)) = Tests!StartedTest(r, clock)
           /\ Tests!StartedTest(r, clock) \in Tests!Test
           /\ \A q \in TestInputs(field, scheduled).requests : Tests!Priority(q) <= Tests!Priority(r)
<1> DEFINE in == TestInputs(field, scheduled)
           r  == Tests!HighestRequested(in)
<1>1. in.requests # {} /\ in.now = clock
  BY DEF Tests!Starts, TestInputs
<1>2. \A q \in in.requests : q.source \in Tests!Sources /\ q.kind \in Tests!Kinds /\ q.seconds \in Nat
  BY RequestShape
<1>3. r \in in.requests /\ \A q \in in.requests : Tests!Priority(q) <= Tests!Priority(r)
  BY <1>1, <1>2, HighestRequested
<1>4. Tests!Running(in) = Tests!StartedTest(r, clock)
  BY <1>1 DEF Tests!Running
<1>5. Tests!StartedTest(r, clock) \in Tests!Test
  <2> HIDE DEF in, r
  <2>1. Tests!WaitSeconds(r) \in Nat
    BY <1>2, <1>3, LengthsAssumption DEF Tests!WaitSeconds
  <2> QED BY <1>2, <1>3, <2>1 DEF Tests!StartedTest, Tests!Test
<1> QED BY <1>3, <1>4, <1>5

\* What a tick makes of the running test: it stays, ends, or gives way to one of
\* the tick's requests.
LEMMA TestAfter ==
  ASSUME commands \in Commands, clock \in Nat, activeTest \in Tests!Test \cup {Tests!NoTest},
         NEW field \in Field, NEW scheduled \in ScheduledRequests
  PROVE  LET in == TestInputs(field, scheduled)
             after == Tests!ActiveAfter(in)
         IN  /\ after \in Tests!Test \cup {Tests!NoTest}
             /\ field.voltageLost \/ field.fire \/ EmergencyAfter(field) => after = Tests!NoTest
             /\ field.stopButton \/ commands.stopTest => after = Tests!NoTest
             /\ after # Tests!NoTest =>
                  \/ after = activeTest /\ ~Tests!CutShort(in)
                  \/ \E r \in in.requests :
                       /\ after = Tests!StartedTest(r, clock)
                       /\ \A q \in in.requests : Tests!Priority(q) <= Tests!Priority(r)
<1> DEFINE in == TestInputs(field, scheduled)
           after == Tests!ActiveAfter(in)
<1>1. /\ field.voltageLost \/ field.fire \/ EmergencyAfter(field) => Tests!Blocked(in)
      /\ field.stopButton \/ commands.stopTest => in.stopRequested
  BY DEF TestInputs, Tests!Blocked
<1>2. CASE Tests!Starts(in)
  <2>1. PICK r \in in.requests :
          /\ Tests!Running(in) = Tests!StartedTest(r, clock)
          /\ Tests!StartedTest(r, clock) \in Tests!Test
          /\ \A q \in in.requests : Tests!Priority(q) <= Tests!Priority(r)
    BY <1>2, StartedTest
  <2>2. ~Tests!Blocked(in) /\ ~in.stopRequested
    BY <1>2 DEF Tests!Starts
  <2>3. after = Tests!NoTest \/ after = Tests!StartedTest(r, clock)
    BY <2>1 DEF Tests!ActiveAfter
  <2> HIDE DEF in, after
  <2>4. /\ after \in Tests!Test \cup {Tests!NoTest}
        /\ ~(field.voltageLost \/ field.fire \/ EmergencyAfter(field))
        /\ ~(field.stopButton \/ commands.stopTest)
    BY <1>1, <2>1, <2>2, <2>3
  <2> QED BY <2>1, <2>3, <2>4 DEF in, after
<1>3. CASE ~Tests!Starts(in)
  <2>1. after = Tests!NoTest \/ (after = activeTest /\ ~Tests!CutShort(in))
    BY <1>3 DEF Tests!ActiveAfter, Tests!Running
  <2>2. Tests!Blocked(in) \/ in.stopRequested => Tests!CutShort(in) \/ activeTest = Tests!NoTest
    BY DEF Tests!CutShort, Tests!Active
  <2> HIDE DEF in, after
  <2> QED BY <1>1, <2>1, <2>2 DEF in, after
<1> QED BY <1>2, <1>3
-----------------------------------------------------------------------------
(* Type correctness.                                                       *)

LEMMA TypeInit == Init => TypeOK
<1> SUFFICES ASSUME Init PROVE TypeOK
  OBVIOUS
<1> USE BoundsAssumption DEF Init
<1>1. <<>> \in Configurations
  <2>1. <<>> \in [{} -> LineModes]
    OBVIOUS
  <2> QED BY <2>1 DEF Configurations
<1>2. commands \in Commands
  BY DEF NoCommands, Commands, NoRequest
<1>3. lastSnapshot \in [taken : BOOLEAN, mode : Modes, faulty : BOOLEAN,
                        activeTest : Tests!Test \cup {Tests!NoTest},
                        lines : Configurations, on : SUBSET Lines]
  BY <1>1 DEF NoSnapshot, Modes
<1>4. coils \in [mode : BOOLEAN, faultLamp : BOOLEAN, testLamp : BOOLEAN, lines : SUBSET Lines]
  BY DEF NoCoils
<1>5. monitor.testActive \in BOOLEAN /\ DOMAIN monitor.onSince = {}
  OBVIOUS
<1>6. clock \in 0..MaxTime /\ clockChanges \in 0..MaxClockChanges
  OBVIOUS
<1>7. lines \in Configurations /\ fresh = {} /\ emergency \in BOOLEAN /\ setupLine = 0
  OBVIOUS
<1>8. activeTest = Tests!NoTest
  OBVIOUS
<1> QED BY ONLY <1>2, <1>3, <1>4, <1>5, <1>6, <1>7, <1>8 DEF TypeOK

\* The cabinet's mode is one of five.
LEMMA ModeShape ==
  ASSUME NEW field, NEW fire, NEW test, test \in Tests!Test \cup {Tests!NoTest},
         field.voltageLost \in BOOLEAN, fire \in BOOLEAN
  PROVE  /\ Mode(field, fire, test) \in Modes
         /\ field.voltageLost \/ fire => Mode(field, fire, test) \in {"Emergency", "Fire"}
         /\ ~field.voltageLost /\ ~fire =>
              /\ Mode(field, fire, test) \in {"Emergency", "Fire", "Normal"} <=> test = Tests!NoTest
              /\ Mode(field, fire, test) = "ManualTest" <=> test.source = "Manual"
<1>1. test.source \in {"Manual", "Scheduled", "None"} /\ (test = Tests!NoTest <=> test.source = "None")
  BY DEF Tests!Test, Tests!NoTest, Tests!Sources
<1> QED BY <1>1 DEF Mode, Modes

LEMMA FieldShape ==
  ASSUME NEW field \in Field
  PROVE  field.voltageLost \in BOOLEAN /\ field.fire \in BOOLEAN /\ EmergencyAfter(field) \in BOOLEAN
<1>1. \A input : May(input) \subseteq BOOLEAN
  BY DEF May
<1>2. field.voltageLost \in May("voltageLost") /\ field.fire \in May("fire")
  BY DEF Field
<1>3. EmergencyAfter(field) \in BOOLEAN
  BY DEF EmergencyAfter
<1> QED BY <1>1, <1>2, <1>3

LEMMA TickType ==
  ASSUME TypeOK, NEW field \in Field, NEW scheduled \in ScheduledRequests,
         NEW outside, NEW otherFault \in BOOLEAN, Tick(field, scheduled, outside, otherFault)
  PROVE  TypeOK'
<1> DEFINE in == TestInputs(field, scheduled)
           after == Tests!ActiveAfter(in)
<1>1. DOMAIN lines \subseteq Lines
  BY DEF TypeOK, Configurations
<1>2. after \in Tests!Test \cup {Tests!NoTest}
  BY TestAfter, BoundsAssumption DEF TypeOK
<1>3. /\ activeTest' = after /\ fresh' = {} /\ emergency' = EmergencyAfter(field)
      /\ lastSnapshot' = SnapshotAfter(field, after, outside, otherFault)
      /\ coils' = CoilsAfter(field, lastSnapshot')
      /\ commands' = CommandsAfter(field, scheduled)
      /\ monitor' = MonitorAfter(field)
      /\ UNCHANGED <<clock, clockChanges, lines, setupLine>>
  BY DEF Tick
<1> HIDE DEF after
<1>4. \A forced : LinesOn(forced, field) \subseteq DOMAIN lines
  BY DEF LinesOn
<1>5. commands' \in Commands
  <2> DEFINE stop == commands.stopTest /\ Tests!ActiveAfter(in) # Tests!NoTest
  <2>1. stop \in BOOLEAN
    OBVIOUS
  <2>2. commands' = [NoCommands EXCEPT !.stopTest = stop]
    BY <1>3 DEF CommandsAfter
  <2> HIDE DEF stop
  <2>3. commands' = [functional |-> NoRequest, duration |-> NoRequest, stopTest |-> stop,
                     startEmergency |-> FALSE, stopEmergency |-> FALSE]
    BY <2>2, Zenon DEF NoCommands
  <2> QED BY <2>1, <2>3 DEF Commands, NoRequest
<1>6. lastSnapshot' \in [taken : BOOLEAN, mode : Modes, faulty : BOOLEAN,
                         activeTest : Tests!Test \cup {Tests!NoTest},
                         lines : Configurations, on : SUBSET Lines]
  <2>1. Mode(field, field.fire \/ EmergencyAfter(field), after) \in Modes
    BY <1>2, ModeShape, FieldShape
  <2>2. Faulty(field, outside, otherFault) \in BOOLEAN
    BY DEF Faulty
  <2>3. Shown(field, after) \subseteq Lines
    BY <1>1, <1>4 DEF Shown
  <2>4. lines \in Configurations
    BY DEF TypeOK
  <2> QED BY <1>2, <1>3, <2>1, <2>2, <2>3, <2>4 DEF SnapshotAfter
<1>7. coils' \in [mode : BOOLEAN, faultLamp : BOOLEAN, testLamp : BOOLEAN, lines : SUBSET Lines]
  BY <1>1, <1>3 DEF CoilsAfter
<1>8. /\ monitor'.testActive \in BOOLEAN
      /\ DOMAIN monitor'.onSince \subseteq Lines
      /\ \A l \in DOMAIN monitor'.onSince : monitor'.onSince[l] \in 0..MaxTime
  <2>1. clock \in 0..MaxTime /\ \A l \in DOMAIN monitor.onSince : monitor.onSince[l] \in 0..MaxTime
    BY DEF TypeOK
  <2> DEFINE testActive == lastSnapshot.activeTest # Tests!NoTest
             kept == KeptSince(testActive)
  <2>2. \A l \in DOMAIN kept : kept[l] \in 0..MaxTime
    BY <2>1 DEF KeptSince
  <2>3. /\ monitor'.testActive = testActive
        /\ monitor'.onSince = [l \in LinesOn(testActive, field) |->
                                  IF l \in DOMAIN kept THEN kept[l] ELSE clock]
    BY <1>3 DEF MonitorAfter
  <2> HIDE DEF kept
  <2> QED BY <1>1, <1>4, <2>1, <2>2, <2>3
<1>9. /\ clock' \in 0..MaxTime /\ clockChanges' \in 0..MaxClockChanges /\ lines' \in Configurations
      /\ setupLine' \in Lines \cup {0} /\ emergency' \in BOOLEAN
  BY <1>3, FieldShape DEF TypeOK
<1> QED BY <1>2, <1>3, <1>5, <1>6, <1>7, <1>8, <1>9 DEF TypeOK

\* A written coil is a command like the panel's.
LEMMA CommandCases ==
  ASSUME Command
  PROVE  \/ \E seconds \in RequestedSeconds : StartFunctionalTest(seconds) \/ StartDurationTest(seconds)
         \/ \E flag \in {"stopTest", "startEmergency", "stopEmergency"} : SetFlag(flag)
         \/ \E l \in Lines \cup {0}, active \in BOOLEAN : SetLineSetupActive(l, active)
         \/ AddLine
         \/ \E l \in Lines : RemoveLine(l)
         \/ \E l \in Lines, mode \in LineModes : UpdateLine(l, mode)
         \/ \E t \in 0..MaxTime : SetSystemTime(t)
<1>1. StopCurrentTest \/ StartManualEmergency \/ StopManualEmergency =>
        \E flag \in {"stopTest", "startEmergency", "stopEmergency"} : SetFlag(flag)
  BY DEF StopCurrentTest, StartManualEmergency, StopManualEmergency
<1>2. WrittenCoil => \/ StopCurrentTest \/ StartManualEmergency \/ StopManualEmergency
                    \/ \E seconds \in RequestedSeconds : StartFunctionalTest(seconds) \/ StartDurationTest(seconds)
  BY DEF WrittenCoil
<1> QED BY <1>1, <1>2 DEF Command

\* Only a tick changes what the cabinet does and shows.
LEMMA OutputsChangeInTicks ==
  ASSUME Command \/ AdvanceClock \/ UNCHANGED vars
  PROVE  UNCHANGED outputs
<1>1. CASE Command
  BY <1>1, CommandCases DEF StartFunctionalTest, StartDurationTest, SetFlag, SetLineSetupActive,
                            AddLine, RemoveLine, UpdateLine, SetSystemTime
<1>2. CASE AdvanceClock \/ UNCHANGED vars
  BY <1>2 DEF AdvanceClock, vars
<1> QED BY <1>1, <1>2

\* The types of the variables that commands change.
CommandedType ==
  /\ clock \in 0..MaxTime
  /\ clockChanges \in 0..MaxClockChanges
  /\ lines \in Configurations
  /\ commands \in Commands
  /\ fresh \subseteq Tests!Kinds \cup {"Stop"}
  /\ emergency \in BOOLEAN
  /\ setupLine \in Lines \cup {0}

\* What no command touches keeps its type; the rest is checked by command.
LEMMA CommandType ==
  ASSUME TypeOK, Command \/ AdvanceClock \/ UNCHANGED vars
  PROVE  TypeOK'
<1>1. /\ activeTest' = activeTest /\ monitor' = monitor /\ lastSnapshot' = lastSnapshot
      /\ coils' = coils
  BY OutputsChangeInTicks DEF outputs
<1> USE DEF CommandedType
<1>2. CommandedType
  BY DEF TypeOK
<1>3. CommandedType'
  <2> USE <1>2
  <2>1. ASSUME NEW seconds \in RequestedSeconds, StartFunctionalTest(seconds)
        PROVE  CommandedType'
    BY <2>1 DEF StartFunctionalTest, Commands, Tests!Kinds
  <2>2. ASSUME NEW seconds \in RequestedSeconds, StartDurationTest(seconds)
        PROVE  CommandedType'
    BY <2>2, LengthsAssumption DEF StartDurationTest, Commands, Tests!Kinds
  <2>3. ASSUME NEW flag \in {"stopTest", "startEmergency", "stopEmergency"}, SetFlag(flag)
        PROVE  CommandedType'
    BY <2>3 DEF SetFlag, Commands
  <2>4. ASSUME NEW l \in Lines \cup {0}, NEW active \in BOOLEAN, SetLineSetupActive(l, active)
        PROVE  CommandedType'
    BY <2>4 DEF SetLineSetupActive
  <2>5. ASSUME AddLine
        PROVE  CommandedType'
    <3>1. PICK l \in Lines :
            lines' = [k \in DOMAIN lines \cup {l} |-> IF k = l THEN "Constant" ELSE lines[k]]
      BY <2>5 DEF AddLine
    <3>2. PICK L \in SUBSET Lines : lines \in [L -> LineModes]
      BY DEF Configurations
    <3>3. lines' \in [L \cup {l} -> LineModes]
      BY <3>1, <3>2 DEF LineModes
    <3>4. lines' \in Configurations
      BY <3>3 DEF Configurations
    <3> QED BY <2>5, <3>4 DEF AddLine
  <2>6. ASSUME NEW l \in Lines, RemoveLine(l)
        PROVE  CommandedType'
    <3>1. PICK L \in SUBSET Lines : lines \in [L -> LineModes]
      BY DEF Configurations
    <3>2. lines' \in [L \ {l} -> LineModes]
      BY <2>6, <3>1 DEF RemoveLine
    <3>3. lines' \in Configurations
      BY <3>2 DEF Configurations
    <3> QED BY <2>6, <3>3 DEF RemoveLine, SetupLineWithout
  <2>7. ASSUME NEW l \in Lines, NEW mode \in LineModes, UpdateLine(l, mode)
        PROVE  CommandedType'
    <3>1. PICK L \in SUBSET Lines : lines \in [L -> LineModes]
      BY DEF Configurations
    <3>2. lines' \in [L -> LineModes]
      BY <2>7, <3>1 DEF UpdateLine
    <3>3. lines' \in Configurations
      BY <3>2 DEF Configurations
    <3> QED BY <2>7, <3>3 DEF UpdateLine
  <2>8. ASSUME NEW t \in 0..MaxTime, SetSystemTime(t)
        PROVE  CommandedType'
    BY <2>8, BoundsAssumption DEF SetSystemTime
  <2>9. CASE AdvanceClock
    BY <2>9, BoundsAssumption DEF AdvanceClock
  <2>10. CASE UNCHANGED vars
    BY <2>10 DEF vars
  <2>11. CASE Command
    BY <2>1, <2>2, <2>3, <2>4, <2>5, <2>6, <2>7, <2>8, <2>11, CommandCases
  <2> QED BY <2>9, <2>10, <2>11
<1> QED BY <1>1, <1>3 DEF TypeOK

LEMMA TypeStep ==
  ASSUME TypeOK, [Next]_vars
  PROVE  TypeOK'
<1>1. CASE Ticks
  BY <1>1, TickType DEF Ticks
<1> QED BY <1>1, CommandType DEF Next

\* Every variable of the engine keeps its type.
THEOREM TypeCorrect == Spec => []TypeOK
  BY TypeInit, TypeStep, PTL DEF Spec
-----------------------------------------------------------------------------
(* The mode, the test, the coils and the set-up.                           *)

\* The snapshot shows the running test.
SnapshotShowsTest == lastSnapshot.activeTest = activeTest

OutputsInv == SnapshotShowsTest /\ ModeAgreesWithTest /\ TestPowersLines /\ ShownOffIsOff

LEMMA OutputsInit == Init => OutputsInv
  BY DEF Init, NoSnapshot, NoCoils, OutputsInv, SnapshotShowsTest, ModeAgreesWithTest,
         TestPowersLines, ShownOffIsOff, Tests!NoTest

\* A tick makes these true whatever was before: the mode and the test are made
\* from the same inputs, and the coils and the snapshot from the same lines.
LEMMA TickMakesOutputs ==
  ASSUME TypeOK, NEW field \in Field, NEW scheduled \in ScheduledRequests,
         NEW outside, NEW otherFault \in BOOLEAN, Tick(field, scheduled, outside, otherFault)
  PROVE  OutputsInv'
<1> DEFINE after == Tests!ActiveAfter(TestInputs(field, scheduled))
<1>1. /\ activeTest' = after
      /\ lastSnapshot' = SnapshotAfter(field, after, outside, otherFault)
      /\ coils' = CoilsAfter(field, lastSnapshot')
  BY DEF Tick
<1>2. /\ after \in Tests!Test \cup {Tests!NoTest}
      /\ field.voltageLost \/ field.fire \/ EmergencyAfter(field) => after = Tests!NoTest
  BY TestAfter, BoundsAssumption DEF TypeOK
<1> HIDE DEF after
<1>3. SnapshotShowsTest'
  BY <1>1 DEF SnapshotShowsTest, SnapshotAfter
<1>4. ModeAgreesWithTest'
  <2> DEFINE fire == field.fire \/ EmergencyAfter(field)
             mode == Mode(field, fire, after)
  <2>1. lastSnapshot'.mode = mode
    BY <1>1 DEF SnapshotAfter
  <2>2. field.voltageLost \in BOOLEAN /\ fire \in BOOLEAN
    BY FieldShape
  <2>3. CASE field.voltageLost \/ fire
    <3>1. after = Tests!NoTest /\ mode \in {"Emergency", "Fire"}
      BY <1>2, <2>2, <2>3, ModeShape
    <3> QED BY <1>1, <2>1, <3>1 DEF ModeAgreesWithTest, Tests!NoTest
  <2>4. CASE ~field.voltageLost /\ ~fire
    <3>1. /\ mode \in {"Emergency", "Fire", "Normal"} <=> after = Tests!NoTest
          /\ mode = "ManualTest" <=> after.source = "Manual"
      BY <1>2, <2>2, <2>4, ModeShape
    <3> QED BY <1>1, <2>1, <3>1 DEF ModeAgreesWithTest
  <2> QED BY <2>3, <2>4
<1>5. TestPowersLines'
  <2> SUFFICES ASSUME lastSnapshot'.activeTest # Tests!NoTest
               PROVE  coils'.lines = {l \in DOMAIN lastSnapshot'.lines : lastSnapshot'.lines[l] = "Off"}
    BY DEF TestPowersLines
  <2>1. lastSnapshot'.lines = lines
    BY <1>1 DEF SnapshotAfter
  <2>2. coils'.lines = DOMAIN lines \ LinesOn(TRUE, field)
    BY <1>1 DEF CoilsAfter
  <2>3. LinesOn(TRUE, field) = {l \in DOMAIN lines : lines[l] # "Off"}
    BY DEF LinesOn, Enabled
  <2> QED BY <2>1, <2>2, <2>3
<1>6. ShownOffIsOff'
  <2>1. lastSnapshot'.lines = lines /\ lastSnapshot'.on = Shown(field, after)
    BY <1>1 DEF SnapshotAfter
  <2>2. coils'.lines = DOMAIN lines \ LinesOn(after # Tests!NoTest, field)
    BY <1>1 DEF CoilsAfter, SnapshotAfter
  <2>3. LinesOn(after # Tests!NoTest, field) \subseteq Shown(field, after)
    BY DEF Shown, LinesOn
  <2> QED BY <2>1, <2>2, <2>3 DEF ShownOffIsOff
<1> QED BY <1>3, <1>4, <1>5, <1>6 DEF OutputsInv

LEMMA OutputsStep ==
  ASSUME TypeOK, OutputsInv, [Next]_vars
  PROVE  OutputsInv'
<1>1. CASE Ticks
  BY <1>1, TickMakesOutputs DEF Ticks
<1>2. CASE Command \/ AdvanceClock \/ UNCHANGED vars
  <2>1. UNCHANGED outputs
    BY <1>2, OutputsChangeInTicks
  <2> QED BY <2>1 DEF outputs, OutputsInv, SnapshotShowsTest, ModeAgreesWithTest,
                      TestPowersLines, ShownOffIsOff
<1> QED BY <1>1, <1>2 DEF Next

\* The cabinet is never in a test and in an emergency at once.
THEOREM ModeAndTestAgree == Spec => []ModeAgreesWithTest
<1>1. OutputsInv => ModeAgreesWithTest
  BY DEF OutputsInv
<1> QED BY <1>1, OutputsInit, OutputsStep, TypeCorrect, PTL DEF Spec

\* A running test powers all enabled lines and no others.
THEOREM LinesOfATestArePowered == Spec => []TestPowersLines
<1>1. OutputsInv => TestPowersLines
  BY DEF OutputsInv
<1> QED BY <1>1, OutputsInit, OutputsStep, TypeCorrect, PTL DEF Spec

\* No line is shown off that is powered.
THEOREM OffIsNotShownTooEarly == Spec => []ShownOffIsOff
<1>1. OutputsInv => ShownOffIsOff
  BY DEF OutputsInv
<1> QED BY <1>1, OutputsInit, OutputsStep, TypeCorrect, PTL DEF Spec

\* The set-up of a line ends with the line.
LEMMA SetupStep ==
  ASSUME SetupLineExists, [Next]_vars
  PROVE  SetupLineExists'
<1> USE DEF SetupLineExists
<1>1. CASE Ticks
  BY <1>1 DEF Ticks, Tick
<1>2. CASE AdvanceClock \/ UNCHANGED vars
  BY <1>2 DEF AdvanceClock, vars
<1>3. ASSUME NEW l \in Lines \cup {0}, NEW active \in BOOLEAN, SetLineSetupActive(l, active)
      PROVE  SetupLineExists'
  BY <1>3 DEF SetLineSetupActive
<1>4. ASSUME AddLine PROVE SetupLineExists'
  BY <1>4 DEF AddLine
<1>5. ASSUME NEW l \in Lines, RemoveLine(l) PROVE SetupLineExists'
  BY <1>5 DEF RemoveLine, SetupLineWithout
<1>6. ASSUME NEW l \in Lines, NEW mode \in LineModes, UpdateLine(l, mode) PROVE SetupLineExists'
  BY <1>6 DEF UpdateLine
<1>7. CASE Command
  BY <1>3, <1>4, <1>5, <1>6, <1>7, CommandCases
     DEF StartFunctionalTest, StartDurationTest, SetFlag, SetSystemTime
<1> QED BY <1>1, <1>2, <1>7 DEF Next

\* Whatever is added and removed, the line that is forced on is a line.
THEOREM SetupEndsWithItsLine == Spec => []SetupLineExists
<1>1. Init => SetupLineExists
  BY DEF Init, SetupLineExists
<1> QED BY <1>1, SetupStep, PTL DEF Spec
-----------------------------------------------------------------------------
(* What a tick makes of the commands.                                      *)

\* A waiting command was given since the last tick.
CommandsAreFresh ==
  /\ commands.functional # NoRequest => "Functional" \in fresh
  /\ commands.duration # NoRequest => "Duration" \in fresh
  /\ "Stop" \in fresh => commands.stopTest

LEMMA FreshInit == Init => CommandsAreFresh
  BY DEF Init, NoCommands, CommandsAreFresh

LEMMA FreshStep ==
  ASSUME TypeOK, CommandsAreFresh, [Next]_vars
  PROVE  CommandsAreFresh'
<1> USE DEF CommandsAreFresh
<1>1. commands \in Commands
  BY DEF TypeOK
<1>2. ASSUME NEW seconds \in RequestedSeconds, StartFunctionalTest(seconds)
      PROVE  CommandsAreFresh'
  BY <1>1, <1>2 DEF StartFunctionalTest, Commands
<1>3. ASSUME NEW seconds \in RequestedSeconds, StartDurationTest(seconds)
      PROVE  CommandsAreFresh'
  BY <1>1, <1>3 DEF StartDurationTest, Commands
<1>4. ASSUME NEW flag \in {"stopTest", "startEmergency", "stopEmergency"}, SetFlag(flag)
      PROVE  CommandsAreFresh'
  BY <1>1, <1>4 DEF SetFlag, Commands
<1>5. CASE Command
  BY <1>2, <1>3, <1>4, <1>5, CommandCases
     DEF SetLineSetupActive, AddLine, RemoveLine, UpdateLine, SetSystemTime
<1>6. CASE Ticks
  <2>1. fresh' = {} /\ commands'.functional = NoRequest /\ commands'.duration = NoRequest
    BY <1>6 DEF Ticks, Tick, CommandsAfter, NoCommands
  <2> QED BY <2>1
<1>7. CASE AdvanceClock \/ UNCHANGED vars
  BY <1>7 DEF AdvanceClock, vars
<1> QED BY <1>5, <1>6, <1>7 DEF Next

\* Only a tick takes the commands, and only a tick changes the test.
LEMMA TakenInTicks ==
  ASSUME [Next]_vars, activeTest' # activeTest \/ (fresh # {} /\ fresh' = {})
  PROVE  Ticks
<1>1. CASE Command
  <2>1. activeTest' = activeTest
    BY <1>1, OutputsChangeInTicks DEF outputs
  <2>2. fresh \subseteq fresh'
    BY <1>1, CommandCases DEF StartFunctionalTest, StartDurationTest, SetFlag, SetLineSetupActive,
                              AddLine, RemoveLine, UpdateLine, SetSystemTime
  <2> QED BY <2>1, <2>2
<1>2. CASE AdvanceClock \/ UNCHANGED vars
  BY <1>2 DEF AdvanceClock, vars, outputs
<1> QED BY <1>1, <1>2 DEF Next

\* A manual test starts only in the first tick after its command.
THEOREM ManualStartsAreFresh == Spec => ManualStartIsFresh
<1>1. ASSUME TypeOK, CommandsAreFresh, [Next]_vars,
             activeTest' # activeTest, activeTest'.source = "Manual"
      PROVE  activeTest'.kind \in fresh
  <2>1. PICK field \in Field, scheduled \in ScheduledRequests :
          activeTest' = Tests!ActiveAfter(TestInputs(field, scheduled))
    BY <1>1, TakenInTicks DEF Ticks, Tick
  <2>2. activeTest' # Tests!NoTest
    BY <1>1 DEF Tests!NoTest
  <2>3. PICK r \in TestInputs(field, scheduled).requests : activeTest' = Tests!StartedTest(r, clock)
    BY <1>1, <2>1, <2>2, TestAfter, BoundsAssumption DEF TypeOK
  <2>4. activeTest'.source = r.source /\ activeTest'.kind = r.kind
    BY <2>3 DEF Tests!StartedTest
  <2>5. r \in ManualRequests
    BY <1>1, <2>4, RequestShape DEF TypeOK
  <2> QED BY <1>1, <2>4, <2>5, ManualRequestShape DEF TypeOK, CommandsAreFresh, Tests!Kinds
<1> QED BY <1>1, FreshInit, FreshStep, TypeCorrect, PTL DEF Spec, ManualStartIsFresh

\* The tick after a stop ends without a test and without a command.
THEOREM StopsLeaveNothing == Spec => StopLeavesNothing
<1>1. ASSUME TypeOK, CommandsAreFresh, [Next]_vars, fresh' = {}, "Stop" \in fresh
      PROVE  activeTest' = Tests!NoTest /\ commands' = NoCommands
  <2>1. PICK field \in Field, scheduled \in ScheduledRequests :
          /\ activeTest' = Tests!ActiveAfter(TestInputs(field, scheduled))
          /\ commands' = CommandsAfter(field, scheduled)
    BY <1>1, TakenInTicks DEF Ticks, Tick
  <2>2. commands.stopTest
    BY <1>1 DEF CommandsAreFresh
  <2>3. Tests!ActiveAfter(TestInputs(field, scheduled)) = Tests!NoTest
    BY <1>1, <2>2, TestAfter, BoundsAssumption DEF TypeOK
  <2>4. commands' = [NoCommands EXCEPT !.stopTest = FALSE]
    BY <2>1, <2>3 DEF CommandsAfter
  <2> QED BY <2>1, <2>3, <2>4 DEF NoCommands
<1> QED BY <1>1, FreshInit, FreshStep, TypeCorrect, PTL DEF Spec, StopLeavesNothing

\* The test a tick leaves running is at least as urgent as each manual request.
THEOREM NothingLessUrgentRuns == Spec => NoLessUrgentRuns
<1>1. ASSUME TypeOK, [Next]_vars, fresh # {}, fresh' = {}, activeTest' # Tests!NoTest
      PROVE  \A r \in ManualRequests : Tests!Rank(activeTest') >= Tests!Rank(r)
  <2>1. PICK field \in Field, scheduled \in ScheduledRequests :
          activeTest' = Tests!ActiveAfter(TestInputs(field, scheduled))
    BY <1>1, TakenInTicks DEF Ticks, Tick
  <2> DEFINE in == TestInputs(field, scheduled)
  <2>2. /\ \A r \in in.requests : r.source \in Tests!Sources /\ r.kind \in Tests!Kinds
        /\ ManualRequests \subseteq in.requests
    BY <1>1, RequestShape DEF TypeOK, TestInputs
  <2>3. \/ activeTest' = activeTest /\ ~Tests!CutShort(in)
        \/ \E r \in in.requests :
             /\ activeTest' = Tests!StartedTest(r, clock)
             /\ \A q \in in.requests : Tests!Priority(q) <= Tests!Priority(r)
    BY <1>1, <2>1, TestAfter, BoundsAssumption DEF TypeOK
  <2> HIDE DEF in
  <2> DEFINE IsHighest(t) == /\ t.source \in Tests!Sources /\ t.kind \in Tests!Kinds
                             /\ \A q \in in.requests : Tests!Priority(q) <= Tests!Priority(t)
  <2>4. IsHighest(activeTest')
    <3>1. CASE activeTest' = activeTest /\ ~Tests!CutShort(in)
      <4>1. activeTest \in Tests!Test
        BY <1>1, <3>1 DEF TypeOK
      <4>2. in.requests # {} => ~(Tests!Priority(Tests!HighestRequested(in)) > Tests!Priority(activeTest))
        BY <1>1, <3>1 DEF Tests!CutShort, Tests!Active, Tests!Preempted
      <4>3. \A q \in in.requests \cup {activeTest} : Tests!Priority(q) \in Nat
        BY <2>2, <4>1 DEF Tests!Priority
      <4>4. in.requests # {} => /\ Tests!HighestRequested(in) \in in.requests
                               /\ \A q \in in.requests :
                                    Tests!Priority(q) <= Tests!Priority(Tests!HighestRequested(in))
        BY <2>2, HighestRequested
      <4>5. \A q \in in.requests : Tests!Priority(q) <= Tests!Priority(activeTest)
        BY <4>2, <4>3, <4>4
      <4> QED BY <3>1, <4>1, <4>5 DEF Tests!Test
    <3>2. ASSUME NEW r \in in.requests, activeTest' = Tests!StartedTest(r, clock),
                 \A q \in in.requests : Tests!Priority(q) <= Tests!Priority(r)
          PROVE  IsHighest(activeTest')
      <4>1. activeTest'.source = r.source /\ activeTest'.kind = r.kind
        BY <3>2 DEF Tests!StartedTest
      <4>2. Tests!Priority(activeTest') = Tests!Priority(r)
        BY <4>1 DEF Tests!Priority
      <4> QED BY <2>2, <3>2, <4>1, <4>2
    <3> QED BY <2>3, <3>1, <3>2
  <2>5. \A t : t.source \in Tests!Sources /\ t.kind \in Tests!Kinds => Tests!Rank(t) = Tests!Priority(t)
    BY DEF Tests!Rank, Tests!Priority, Tests!Sources, Tests!Kinds
  <2>6. \A t : Tests!Priority(t) \in Nat
    BY DEF Tests!Priority
  <2> QED BY <2>2, <2>4, <2>5, <2>6
<1> QED BY <1>1, TypeCorrect, PTL DEF Spec, NoLessUrgentRuns
-----------------------------------------------------------------------------
(* The warm-up of the lines.                                               *)

\* If the clock is not set back: a line whose warm-up is kept has been powered
\* at least as long.
WarmUpIsPowered ==
  clockChanges = 0 =>
    /\ \A l \in DOMAIN powered : powered[l] \in Nat /\ powered[l] <= clock
    /\ monitor.testActive = (lastSnapshot.activeTest # Tests!NoTest) =>
         \A l \in DOMAIN monitor.onSince : l \in DOMAIN powered /\ powered[l] <= monitor.onSince[l]
    /\ hasty = {}

LEMMA WarmUpTick ==
  ASSUME TypeOK, SnapshotShowsTest, WarmUpIsPowered,
         NEW field \in Field, NEW scheduled \in ScheduledRequests,
         NEW outside, NEW otherFault \in BOOLEAN, Tick(field, scheduled, outside, otherFault)
  PROVE  WarmUpIsPowered'
<1> DEFINE before == lastSnapshot.activeTest # Tests!NoTest
           after  == activeTest' # Tests!NoTest
           kept   == KeptSince(before)
<1>1. /\ monitor'.testActive = before
      /\ monitor'.onSince = [l \in LinesOn(before, field) |-> IF l \in DOMAIN kept THEN kept[l] ELSE clock]
      /\ monitor' = MonitorAfter(field)
  BY DEF Tick, MonitorAfter
<1>2. /\ clock' = clock /\ clockChanges' = clockChanges
      /\ lastSnapshot'.activeTest = activeTest'
      /\ coils'.lines = DOMAIN lines \ LinesOn(after, field)
      /\ powered' = PoweredAfter(activeTest', coils')
      /\ hasty' = {l \in LineFaults(field, outside) : ~WarmedUp(l)}
  BY DEF Tick, CoilsAfter, SnapshotAfter
<1>3. powered' = [l \in LinesOn(after, field) |->
                    IF l \in DOMAIN powered /\ before = after THEN powered[l] ELSE clock]
  <2>1. DOMAIN lines \ coils'.lines = LinesOn(after, field)
    BY <1>2 DEF LinesOn
  <2>2. before = (activeTest # Tests!NoTest)
    BY DEF SnapshotShowsTest
  <2> QED BY <1>2, <2>1, <2>2 DEF PoweredAfter
<1>4. \A l \in DOMAIN kept : monitor.testActive = before /\ l \in DOMAIN monitor.onSince /\ kept[l] = monitor.onSince[l]
  BY DEF KeptSince
<1>5. clock \in Nat /\ \A l \in DOMAIN monitor.onSince : monitor.onSince[l] \in Nat
  BY BoundsAssumption DEF TypeOK
<1> HIDE DEF kept, before, after
<1>6. SUFFICES ASSUME clockChanges = 0
               PROVE  /\ \A l \in DOMAIN powered' : powered'[l] \in Nat /\ powered'[l] <= clock
                      /\ before = after =>
                           \A l \in DOMAIN monitor'.onSince :
                             l \in DOMAIN powered' /\ powered'[l] <= monitor'.onSince[l]
                      /\ hasty' = {}
  BY <1>1, <1>2 DEF WarmUpIsPowered, before, after
<1>7. \A l \in DOMAIN powered : powered[l] \in Nat /\ powered[l] <= clock
  BY <1>6 DEF WarmUpIsPowered
<1>8. \A l \in DOMAIN kept : l \in DOMAIN powered /\ powered[l] <= kept[l] /\ kept[l] \in Nat
  BY <1>4, <1>5, <1>6 DEF WarmUpIsPowered, before
<1>9. \A l \in DOMAIN powered' : powered'[l] \in Nat /\ powered'[l] <= clock
  BY <1>3, <1>5, <1>7
<1>10. before = after =>
         \A l \in DOMAIN monitor'.onSince : l \in DOMAIN powered' /\ powered'[l] <= monitor'.onSince[l]
  BY <1>1, <1>3, <1>5, <1>7, <1>8
<1>11. hasty' = {}
  <2>1. SUFFICES ASSUME NEW l \in LineFaults(field, outside)
                 PROVE  WarmedUp(l)
    BY <1>2
  <2>2. l \in LinesOn(before, field) /\ clock - monitor'.onSince[l] >= OperationalWarmupSeconds
    BY <1>1, <2>1 DEF LineFaults
  <2>3. l \in DOMAIN kept /\ monitor'.onSince[l] = kept[l]
    BY <1>1, <1>5, <2>2, LengthsAssumption
  <2> QED BY <1>5, <1>7, <1>8, <2>2, <2>3, LengthsAssumption DEF WarmedUp
<1> QED BY <1>9, <1>10, <1>11

LEMMA WarmUpStep ==
  ASSUME TypeOK, SnapshotShowsTest, WarmUpIsPowered, [Next]_vars
  PROVE  WarmUpIsPowered'
<1>1. CASE Ticks
  BY <1>1, WarmUpTick DEF Ticks
<1>2. CASE Command \/ AdvanceClock \/ UNCHANGED vars
  <2>1. UNCHANGED <<powered, monitor, lastSnapshot, hasty>>
    BY <1>2, OutputsChangeInTicks DEF outputs
  <2>2. \/ clock' \in {clock, clock + 1} /\ clockChanges' = clockChanges
        \/ clockChanges' = clockChanges + 1
    BY <1>2, CommandCases DEF StartFunctionalTest, StartDurationTest, SetFlag, SetLineSetupActive,
         AddLine, RemoveLine, UpdateLine, SetSystemTime, AdvanceClock, vars
  <2>3. clock \in Nat /\ clockChanges \in Nat
    BY BoundsAssumption DEF TypeOK
  <2> QED BY <2>1, <2>2, <2>3 DEF WarmUpIsPowered
<1> QED BY <1>1, <1>2 DEF Next

\* No line is called faulty for its power before its warm-up.
THEOREM FaultsNeedWarmup == Spec => []FaultNeedsWarmup
<1>1. Init => WarmUpIsPowered
  BY DEF Init, WarmUpIsPowered
<1>2. OutputsInv => SnapshotShowsTest
  BY DEF OutputsInv
<1>3. WarmUpIsPowered => FaultNeedsWarmup
  BY DEF WarmUpIsPowered, FaultNeedsWarmup
<1> QED BY <1>1, <1>2, <1>3, WarmUpStep, OutputsInit, OutputsStep, TypeCorrect, PTL DEF Spec
=============================================================================
