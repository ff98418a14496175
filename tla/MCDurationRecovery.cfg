SPECIFICATION Spec
CONSTANTS
  RequestedSeconds = {0}
  FunctionalWarmupSeconds = 1
  DefaultDurationSeconds = 3
  TicksPerSecond = 2
  HeartbeatPeriod = 2
  MaxStoredTestJournalEntries = 3
  MaxTime = 5
  ClockSettings = {1,3}
  MaxClockChanges = 1
  MaxCrashes = 2
  MaxFailures = 1
INVARIANTS TypeOK RecordedOnce NothingForgotten RecoveredLengthIsConfirmed RecoveredUnlessWritesFail
CHECK_DEADLOCK FALSE
