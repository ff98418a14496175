SPECIFICATION Spec
CONSTANTS
  RequestedSeconds = {0}
  FunctionalWarmupSeconds = 1
  DefaultDurationSeconds = 3
  TicksPerSecond = 2
  HeartbeatPeriod = 2
  MaxStoredTestJournalEntries = 10
  MaxTime = 7
  ClockSettings = {1, 5}
  MaxClockChanges = 1
  MaxCrashes = 2
  MaxFailures = 1
CHECK_DEADLOCK FALSE
INVARIANT InterruptedIsRecovered
