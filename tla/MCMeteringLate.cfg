SPECIFICATION Spec
CONSTANTS
  Polled = {"AmcPower", "AmcVoltage", "BmsBasic"}
  OfflineFailureThreshold = 2
  Grace = 2
  MaxAnswersDue = 2
INVARIANT ShownComesFromRequest
