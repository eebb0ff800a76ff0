SPECIFICATION Spec
CONSTANTS
  MaxTrickles = 1
  MaxChanges = 0
  MaxPings = 0
  Faults = {}
INVARIANT
  JoinErrorMeansNotJoined
CHECK_DEADLOCK FALSE
