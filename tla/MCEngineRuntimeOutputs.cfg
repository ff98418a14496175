SPECIFICATION Spec
CONSTANTS
  Lines = {1}
  RequestedSeconds = {}
  FunctionalWarmupSeconds = 1
  DefaultDurationSeconds = 2
  OperationalWarmupSeconds = 1
  ActiveInputs = {"voltageLost", "fire"}
  LastRequest = 1
  MaxTime = 2
  MaxClockChanges = 0
INVARIANTS TestPowersLines ShownOffIsOff SetupLineExists FaultNeedsWarmup
