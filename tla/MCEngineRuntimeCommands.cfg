SPECIFICATION FairSpec
CONSTANTS
  Lines = {}
  RequestedSeconds = {0, 2}
  FunctionalWarmupSeconds = 1
  DefaultDurationSeconds = 2
  OperationalWarmupSeconds = 1
  ActiveInputs = {"voltageLost", "fire", "startButton", "stopButton"}
  LastRequest = 1
  MaxTime = 3
  MaxClockChanges = 1
INVARIANTS TypeOK ModeAgreesWithTest
PROPERTIES ManualStartIsFresh StopLeavesNothing NoLessUrgentRuns TestEnds
