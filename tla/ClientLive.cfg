SPECIFICATION FairSpec
CONSTANTS
  MaxTrickles = 0
  MaxChanges = 2
  MaxPings = 1
  Faults = {"joinError", "answerError", "disconnect", "signal"}
PROPERTIES
  SubscriberCatchesUp
  SignalEndsClient
CHECK_DEADLOCK FALSE
