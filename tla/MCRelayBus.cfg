SPECIFICATION FairSpec
CONSTANTS
  ModuleCount = 2
  Bytes = {0, 1}
  OfflineFailureThreshold = 2
INVARIANTS TypeOK QueuesStayShort QueuedWriteIsLatest WrittenIsApplied OnlineIsEarned
PROPERTIES WritesGoFirst RelaysFollow
