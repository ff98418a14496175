SPECIFICATION Spec
CONSTANTS
  MaxLines = 2
  FirstModulePoints = 1
  ModulePoints = 2
  DefaultCount = 1
  DayLength = 2
  LineLimitDays = 0
  LongTestLimitDays = 0
  MaxStoredTestJournalEntries = 2
  FirstFiles <- Files
  FirstJournals <- Journals
  MaxTime = 3
  MaxTests = 2
  MaxEdits = 2
  MaxFileErrors = 1
  MaxClockChanges = 1
INVARIANTS TypeOK PointsDistinct MaintenanceIsCurrent FailureStaysVisible
