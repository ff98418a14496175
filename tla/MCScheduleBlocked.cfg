SPECIFICATION Spec
CONSTANTS
  DayLength = 6
  WeekLength = 3
  MonthStart <- ShortMonths
  Window = 2
  DedupeTime = 4
  OfferedEntries <- Offered
  SettableTimes <- Settable
  MaxEntries = 2
  MaxDisturbances = 2
  MaxFileErrors = 1
PROPERTY DueIsAlwaysAsked
CHECK_DEADLOCK FALSE
