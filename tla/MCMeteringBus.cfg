SPECIFICATION FairSpec
CONSTANTS
  Polled = {"AmcPower", "AmcVoltage", "BmsBasic"}
  OfflineFailureThreshold = 2
  Grace = 2
  MaxAnswersDue = 2
INVARIANTS TypeOK InLineOnce ShownComesFromDevice PowersAreRecent
PROPERTIES EveryPollIsServed SilenceIsShown
