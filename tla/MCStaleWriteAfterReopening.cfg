SPECIFICATION Spec
CONSTANTS
  ModuleCount = 2
  Bytes = {1, 255}
  OfflineFailureThreshold = 2
INVARIANT QueuedWriteIsLatest
