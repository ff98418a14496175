SPECIFICATION Spec
CONSTANTS
  Lines = {1}
  RequestedSeconds = {0, 1}
  FunctionalWarmupSeconds = 1
  DefaultDurationSeconds = 2
  MaxTime = 3
  MaxTests = 2
INVARIANTS
  TypeOK
  RecordedInOrder
  CompletedRanInFull
PROPERTY
  ImplementsLifecycle
