---------------------------- MODULE EngineRuntime ----------------------------
(***************************************************************************)
(* The engine's event loop (src/src/EngineRuntime.cpp): commands of the    *)
(* panel (IPC), the web page and the Modbus TCP master set flags and edit  *)
(* the lines; a 500 ms tick turns the flags, the field inputs and the      *)
(* schedule into the running test, the cabinet's mode, the published       *)
(* snapshot and the relay coils.  Every handler runs to its end on one     *)
(* thread, so each is one action; what interleaves is their order.         *)
(*                                                                         *)
(* The tick also feeds the test journal, the recovery marker and the       *)
(* maintenance check.  Nothing here reads those back but the fault lamp:   *)
(* they are the subject of DurationRecovery and LineConfiguration.  Of the *)
(* cabinet's faults those of the lines' powers come from the line monitor; *)
(* all others are one free input of the tick.                              *)
(***************************************************************************)
EXTENDS Integers, Sequences

CONSTANTS
  Lines,                    \* indexes a line may have
  RequestedSeconds,         \* lengths a command may carry; 0 means "the default"
  FunctionalWarmupSeconds,
  DefaultDurationSeconds,
  OperationalWarmupSeconds, \* LineOperationalMonitorConfig::warmupSeconds
  ActiveInputs,             \* bound: the cabinet inputs that ever become active
  LastRequest,              \* bound: nobody asks for a test after this second
  MaxTime,                  \* bound: the last second of the clock
  MaxClockChanges           \* bound: how often the operator sets the clock back

VARIABLES
  clock,         \* the system clock, in seconds
  clockChanges,  \* how often it was set back (not in the code)
  lines,         \* LineManager::m_lines: the mode of each configured line
  commands,      \* the flags the command handlers leave for the tick
  fresh,         \* manual tests and stop asked for since the last tick (not in the code)
  emergency,     \* ManualEmergencyController::m_active
  setupLine,     \* m_hmiSetupLineIndex; 0 is no line
  activeTest,    \* TestController::m_activeTest
  monitor,       \* LineOperationalMonitor: [onSince, testActive]
  lastSnapshot,  \* m_lastSnapshot
  coils,         \* m_lastRelayBytes: the energised coils
  powered,       \* since when each line is on, and no test started or ended (not in the code)
  hasty          \* lines the last tick called faulty that had no full warm-up (not in the code)

outputs == <<activeTest, monitor, lastSnapshot, coils, powered, hasty>>
vars    == <<clock, clockChanges, lines, commands, fresh, emergency, setupLine, outputs>>

\* The journal is not this module's: only the operators that choose the
\* running test are used.
Tests == INSTANCE TestController
  WITH journal <- <<>>, started <- <<>>, MaxTests <- 0

ASSUME LengthsAssumption ==
  /\ RequestedSeconds \subseteq Nat
  /\ FunctionalWarmupSeconds \in Nat \ {0}
  /\ DefaultDurationSeconds \in Nat \ {0}
  /\ OperationalWarmupSeconds \in Nat \ {0}

ASSUME BoundsAssumption ==
  /\ LastRequest \in Nat
  /\ MaxTime \in Nat
  /\ LastRequest <= MaxTime
  /\ MaxClockChanges \in Nat
-----------------------------------------------------------------------------
(* Lines, modes, commands.                                                 *)

LineModes == {"Constant", "NonConstant", "Off"}

Modes == {"Normal", "Emergency", "Fire", "ManualTest", "ScheduledTest"}

\* A manual request is the requested length, or NoRequest.
NoRequest == -1

Commands == [functional : RequestedSeconds \cup {NoRequest},
             duration : (RequestedSeconds \cup {NoRequest}) \ {0},
             stopTest : BOOLEAN, startEmergency : BOOLEAN, stopEmergency : BOOLEAN]

NoCommands == [functional |-> NoRequest, duration |-> NoRequest, stopTest |-> FALSE,
               startEmergency |-> FALSE, stopEmergency |-> FALSE]

May(input) == {FALSE} \cup {(input \in ActiveInputs)}

\* What the WaveShare inputs say when a tick reads them.  An input of a module
\* that does not answer counts as inactive, so a lost module is a field whose
\* inputs are all FALSE.
Field == [voltageLost : May("voltageLost"), fire : May("fire"), startButton : May("startButton"),
          stopButton : May("stopButton"), requestInputs : SUBSET Lines]

ManualRequests ==
  (IF commands.functional = NoRequest THEN {}
   ELSE {[source |-> "Manual", kind |-> "Functional", seconds |-> commands.functional]})
  \cup
  (IF commands.duration = NoRequest THEN {}
   ELSE {[source |-> "Manual", kind |-> "Duration", seconds |-> commands.duration]})

\* TestScheduleManager::evaluate returns at most one request.
ScheduledRequests ==
  {{}} \cup {{[source |-> "Scheduled", kind |-> k, seconds |-> 0]} : k \in Tests!Kinds}
-----------------------------------------------------------------------------
(* One tick.                                                               *)

\* Start and stop are both levels; when both are asked for, stop wins.
EmergencyAfter(field) ==
  /\ emergency \/ field.startButton \/ commands.startEmergency
  /\ ~(field.stopButton \/ commands.stopEmergency)

TestInputs(field, scheduled) ==
  [now |-> clock,
   voltageControlOk |-> ~field.voltageLost,
   fireInputActive |-> field.fire \/ EmergencyAfter(field),
   stopRequested |-> field.stopButton \/ commands.stopTest,
   requests |-> ManualRequests \cup scheduled,
   readings |-> [l \in Lines |-> "Within"]]

\* StateEngine::resolveMode.
Mode(field, fire, test) ==
  CASE field.voltageLost -> "Emergency"
    [] ~field.voltageLost /\ fire -> "Fire"
    [] ~field.voltageLost /\ ~fire /\ test.source = "Manual" -> "ManualTest"
    [] ~field.voltageLost /\ ~fire /\ test.source = "Scheduled" -> "ScheduledTest"
    [] OTHER -> "Normal"

Enabled(l) == lines[l] # "Off"

\* LineManager::evaluate: the outputs of the lines, all enabled ones on if forced.
LinesOn(forced, field) ==
  {l \in DOMAIN lines :
     /\ Enabled(l)
     /\ \/ forced
        \/ setupLine = l
        \/ lines[l] = "Constant"
        \/ l \in field.requestInputs}

\* Faulty: the outputs are shown as they were before this tick's test.
ShownBeforeTest(field, test) ==
  LinesOn(lastSnapshot.activeTest # Tests!NoTest, field)

\* The snapshot takes the outputs as they were computed at the head of the
\* tick, forced by the test of the previous snapshot, and then forces them for
\* the test of this one.
Shown(field, test) ==
  LinesOn(lastSnapshot.activeTest # Tests!NoTest \/ test # Tests!NoTest, field)

\* Faulty: a line that stays on keeps its warm-up when a test starts or ends.
WarmSince(testActive) == monitor.onSince

\* A test that starts or ends restarts the warm-up of every line.
KeptSince(testActive) ==
  IF testActive = monitor.testActive THEN monitor.onSince ELSE <<>>

\* LineOperationalMonitor::evaluate, on the outputs at the head of the tick.
MonitorAfter(field) ==
  LET testActive == lastSnapshot.activeTest # Tests!NoTest
      kept == KeptSince(testActive)
  IN  [testActive |-> testActive,
       onSince |-> [l \in LinesOn(testActive, field) |->
                      IF l \in DOMAIN kept THEN kept[l] ELSE clock]]

\* Lines that have been on for the warm-up and whose power is not within the
\* tolerance: outside, or not measured.
LineFaults(field, outside) ==
  LET since == MonitorAfter(field).onSince
  IN  {l \in DOMAIN since \cap outside : clock - since[l] >= OperationalWarmupSeconds}

\* StateEngine::collectFaults: the lines' faults and any other.
Faulty(field, outside, otherFault) == otherFault \/ LineFaults(field, outside) # {}

\* StateEngine::evaluate.
SnapshotAfter(field, test, outside, otherFault) ==
  [taken |-> TRUE,
   mode |-> Mode(field, field.fire \/ EmergencyAfter(field), test),
   faulty |-> Faulty(field, outside, otherFault),
   activeTest |-> test,
   lines |-> lines,
   on |-> Shown(field, test)]

\* Faulty: the lines keep the outputs the test of the previous tick asked for.
CoilsOfLastTest(field, snapshot) ==
  [mode |-> snapshot.mode # "Normal",
   faultLamp |-> ~(snapshot.mode = "Emergency" \/ snapshot.faulty),
   testLamp |-> snapshot.activeTest # Tests!NoTest,
   lines |-> DOMAIN lines \ LinesOn(lastSnapshot.activeTest # Tests!NoTest, field)]

\* driveRelays.  The fault lamp and the lines hang on normally closed
\* contacts: an energised coil is a lamp, or a line, that is off.
CoilsAfter(field, snapshot) ==
  [mode |-> snapshot.mode # "Normal",
   faultLamp |-> ~(snapshot.mode = "Emergency" \/ snapshot.faulty),
   testLamp |-> snapshot.activeTest # Tests!NoTest,
   lines |-> DOMAIN lines \ LinesOn(snapshot.activeTest # Tests!NoTest, field)]

\* Faulty: a manual request that could not start its test waits for the next tick.
CommandsKeptUntilStarted(field, scheduled) ==
  LET in == TestInputs(field, scheduled)
  IN  IF Tests!Starts(in) THEN NoCommands
      ELSE [NoCommands EXCEPT !.functional = commands.functional, !.duration = commands.duration]

\* Faulty: a consumed request is left as a length of zero.
CommandsZeroed(field, scheduled) ==
  [NoCommands EXCEPT !.functional = 0, !.duration = 0]

\* Every tick consumes the commands: both manual requests whether or not one
\* could start, the stop because it leaves no test running.
CommandsAfter(field, scheduled) ==
  LET in == TestInputs(field, scheduled)
  IN  [NoCommands EXCEPT !.stopTest = commands.stopTest /\ Tests!ActiveAfter(in) # Tests!NoTest]
-----------------------------------------------------------------------------
NoSnapshot == [taken |-> FALSE, mode |-> "Normal", faulty |-> FALSE,
               activeTest |-> Tests!NoTest, lines |-> <<>>, on |-> {}]

NoCoils == [mode |-> FALSE, faultLamp |-> FALSE, testLamp |-> FALSE, lines |-> {}]

Configurations == UNION {[L -> LineModes] : L \in SUBSET Lines}

Init ==
  /\ clock = 0
  /\ clockChanges = 0
  /\ lines \in Configurations
  /\ commands = NoCommands
  /\ fresh = {}
  /\ emergency = FALSE
  /\ setupLine = 0
  /\ activeTest = Tests!NoTest
  /\ monitor = [onSince |-> <<>>, testActive |-> FALSE]
  /\ lastSnapshot = NoSnapshot
  /\ coils = NoCoils
  /\ powered = <<>>
  /\ hasty = {}

\* What the coils that a tick commands do to the lines.
PoweredAfter(test, commanded) ==
  LET flips == (test = Tests!NoTest) # (activeTest = Tests!NoTest)
  IN  [l \in DOMAIN lines \ commanded.lines |->
         IF l \in DOMAIN powered /\ ~flips THEN powered[l] ELSE clock]

WarmedUp(l) == l \in DOMAIN powered /\ clock - powered[l] >= OperationalWarmupSeconds

Tick(field, scheduled, outside, otherFault) ==
  LET in == TestInputs(field, scheduled)
      snapshot == SnapshotAfter(field, Tests!ActiveAfter(in), outside, otherFault)
  IN  /\ clock > LastRequest => scheduled = {}
      /\ emergency' = EmergencyAfter(field)
      /\ activeTest' = Tests!ActiveAfter(in)
      /\ commands' = CommandsAfter(field, scheduled)
      /\ fresh' = {}
      /\ lastSnapshot' = snapshot
      /\ coils' = CoilsAfter(field, snapshot)
      /\ monitor' = MonitorAfter(field)
      /\ powered' = PoweredAfter(snapshot.activeTest, coils')
      /\ hasty' = {l \in LineFaults(field, outside) : ~WarmedUp(l)}
      /\ UNCHANGED <<clock, clockChanges, lines, setupLine>>

\* The powers of the lines are within their tolerances but for those outside.
Ticks == \E field \in Field, scheduled \in ScheduledRequests,
            outside \in SUBSET DOMAIN lines, otherFault \in BOOLEAN :
           Tick(field, scheduled, outside, otherFault)
-----------------------------------------------------------------------------
(* The command handlers.  start() ends with a tick before the event loop   *)
(* runs, so none comes before the first snapshot.                          *)

Serving == lastSnapshot.taken

StartFunctionalTest(seconds) ==
  /\ Serving
  /\ clock <= LastRequest
  /\ commands' = [commands EXCEPT !.functional = seconds]
  /\ fresh' = fresh \cup {"Functional"}
  /\ UNCHANGED <<clock, clockChanges, lines, emergency, setupLine, outputs>>

StartDurationTest(seconds) ==
  /\ Serving
  /\ clock <= LastRequest
  /\ seconds > 0
  /\ commands' = [commands EXCEPT !.duration = seconds]
  /\ fresh' = fresh \cup {"Duration"}
  /\ UNCHANGED <<clock, clockChanges, lines, emergency, setupLine, outputs>>

SetFlag(flag) ==
  /\ Serving
  /\ commands' = [commands EXCEPT ![flag] = TRUE]
  /\ fresh' = IF flag = "stopTest" THEN fresh \cup {"Stop"} ELSE fresh
  /\ UNCHANGED <<clock, clockChanges, lines, emergency, setupLine, outputs>>

StopCurrentTest      == SetFlag("stopTest")
StartManualEmergency == SetFlag("startEmergency")
StopManualEmergency  == SetFlag("stopEmergency")

\* A coil the Modbus TCP master writes with 1 is a command without a length.
WrittenCoil ==
  \/ StartManualEmergency
  \/ StopManualEmergency
  \/ StopCurrentTest
  \/ 0 \in RequestedSeconds /\ StartFunctionalTest(0)
  \/ DefaultDurationSeconds \in RequestedSeconds /\ StartDurationTest(DefaultDurationSeconds)

\* The panel opens and closes the card of a line; 0 stands for a row below the
\* first.  A row past the last one changes nothing.
SetLineSetupActive(l, active) ==
  /\ Serving
  /\ l \in DOMAIN lines \cup {0}
  /\ setupLine' = IF active /\ l # 0 THEN l
                  ELSE IF l \in {0, setupLine} THEN 0 ELSE setupLine
  /\ UNCHANGED <<clock, clockChanges, lines, commands, fresh, emergency, outputs>>

\* makeNextLine and addLine: the free index comes first, a constant line.
AddLine ==
  /\ Serving
  /\ \E l \in Lines \ DOMAIN lines :
       /\ \A k \in Lines \ DOMAIN lines : l <= k
       /\ lines' = [k \in DOMAIN lines \cup {l} |-> IF k = l THEN "Constant" ELSE lines[k]]
  /\ UNCHANGED <<clock, clockChanges, commands, fresh, emergency, setupLine, outputs>>

\* Faulty: the set-up outlives its line.
SetupLineKept(l) == setupLine

SetupLineWithout(l) == IF setupLine = l THEN 0 ELSE setupLine

RemoveLine(l) ==
  /\ Serving
  /\ l \in DOMAIN lines
  /\ lines' = [k \in DOMAIN lines \ {l} |-> lines[k]]
  /\ setupLine' = SetupLineWithout(l)
  /\ UNCHANGED <<clock, clockChanges, commands, fresh, emergency, outputs>>

UpdateLine(l, mode) ==
  /\ Serving
  /\ l \in DOMAIN lines
  /\ lines' = [lines EXCEPT ![l] = mode]
  /\ UNCHANGED <<clock, clockChanges, commands, fresh, emergency, setupLine, outputs>>

SetSystemTime(t) ==
  /\ Serving
  /\ clockChanges < MaxClockChanges
  /\ t < clock
  /\ clock' = t
  /\ clockChanges' = clockChanges + 1
  /\ UNCHANGED <<lines, commands, fresh, emergency, setupLine, outputs>>

\* The tick is twice as frequent as the second: a command does not wait for
\* one longer than that.
AdvanceClock ==
  /\ Serving
  /\ clock < MaxTime
  /\ commands = NoCommands
  /\ clock' = clock + 1
  /\ UNCHANGED <<clockChanges, lines, commands, fresh, emergency, setupLine, outputs>>

Command ==
  \/ WrittenCoil
  \/ \E seconds \in RequestedSeconds : StartFunctionalTest(seconds) \/ StartDurationTest(seconds)
  \/ StopCurrentTest
  \/ StartManualEmergency
  \/ StopManualEmergency
  \/ \E l \in Lines \cup {0}, active \in BOOLEAN : SetLineSetupActive(l, active)
  \/ AddLine
  \/ \E l \in Lines : RemoveLine(l)
  \/ \E l \in Lines, mode \in LineModes : UpdateLine(l, mode)
  \/ \E t \in 0..MaxTime : SetSystemTime(t)

Next == Ticks \/ Command \/ AdvanceClock

Spec == Init /\ [][Next]_vars

\* The timer fires every 500 ms, and time passes: commands may come in every
\* tick, each delays AdvanceClock to the next tick, and none stops the clock.
FairSpec == Spec /\ WF_vars(Ticks) /\ SF_vars(AdvanceClock)
-----------------------------------------------------------------------------
(* Properties.                                                             *)

\* Every variable has its type.
TypeOK ==
  /\ clock \in 0..MaxTime
  /\ clockChanges \in 0..MaxClockChanges
  /\ lines \in Configurations
  /\ commands \in Commands
  /\ fresh \subseteq Tests!Kinds \cup {"Stop"}
  /\ emergency \in BOOLEAN
  /\ setupLine \in Lines \cup {0}
  /\ activeTest \in Tests!Test \cup {Tests!NoTest}
  /\ lastSnapshot \in [taken : BOOLEAN, mode : Modes, faulty : BOOLEAN,
                       activeTest : Tests!Test \cup {Tests!NoTest},
                       lines : Configurations, on : SUBSET Lines]
  /\ coils \in [mode : BOOLEAN, faultLamp : BOOLEAN, testLamp : BOOLEAN, lines : SUBSET Lines]
  /\ monitor.testActive \in BOOLEAN
  /\ DOMAIN monitor.onSince \subseteq Lines
  /\ \A l \in DOMAIN monitor.onSince : monitor.onSince[l] \in 0..MaxTime

\* No test survives the tick that sees the voltage lost or a fire, and none
\* starts in it: the cabinet is never in a test and in an emergency at once,
\* although the mode is resolved by StateEngine and the test by TestController
\* from inputs of their own.
ModeAgreesWithTest ==
  /\ lastSnapshot.mode \in {"Emergency", "Fire", "Normal"} <=> activeTest = Tests!NoTest
  /\ lastSnapshot.mode = "ManualTest" <=> activeTest.source = "Manual"

\* A manual test starts only in the first tick after its command: a command
\* given during a fire, or beaten by a more urgent one, is dropped and starts
\* nothing later (tick clears both requests whatever became of them).
ManualStartIsFresh ==
  [][activeTest' # activeTest /\ activeTest'.source = "Manual" => activeTest'.kind \in fresh]_vars

\* A stop leaves no test and no start behind: whatever was running, and
\* whatever other requests wait for the same tick, the tick after the stop ends
\* without a test, without a request and without the stop itself.
StopLeavesNothing ==
  [][fresh' = {} /\ "Stop" \in fresh
       => activeTest' = Tests!NoTest /\ commands' = NoCommands]_vars

\* When a tick ends with a test running, the test is at least as urgent, in the
\* documented order, as every manual request the tick consumed.
NoLessUrgentRuns ==
  [][fresh # {} /\ fresh' = {} /\ activeTest' # Tests!NoTest
       => \A r \in ManualRequests : Tests!Rank(activeTest') >= Tests!Rank(r)]_vars

\* A running test ends: the clock reaches its due time, even if the operator
\* sets the clock back meanwhile.
TestEnds == activeTest # Tests!NoTest ~> activeTest = Tests!NoTest

\* As long as the last tick left a test running, the coils it commanded power
\* every line that was enabled, and only those.
TestPowersLines ==
  lastSnapshot.activeTest # Tests!NoTest =>
    coils.lines = {l \in DOMAIN lastSnapshot.lines : lastSnapshot.lines[l] = "Off"}

\* A line the panel shows off has been commanded off.
ShownOffIsOff ==
  DOMAIN lastSnapshot.lines \ lastSnapshot.on \subseteq coils.lines

\* docs/line-operational-monitor.md: a line that was just switched on warms up
\* and is not faulty.  No tick calls a line faulty for its power that the coils
\* have not kept on for the whole warm-up, or in whose warm-up a test started or
\* ended: although the monitor sees the outputs as computed at the head of a
\* tick, for the test of the tick before, and the coils follow at its end.  A
\* clock set back tells nothing of how long a line has been on.
FaultNeedsWarmup == clockChanges = 0 => hasty = {}

\* The line forced on for its set-up is a line of the cabinet: removing it
\* ends the set-up, so that a line added later under its index is not forced.
SetupLineExists == setupLine \in DOMAIN lines \cup {0}
=============================================================================
