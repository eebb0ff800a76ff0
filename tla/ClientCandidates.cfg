SPECIFICATION FairSpec
CONSTANTS
  MaxTrickles = 1
  MaxChanges = 1
  MaxPings = 0
  Faults = {"joinError", "disconnect", "answerError", "descriptionError"}
INVARIANTS
  TypeOK
  AnswerFitsOffer
  NoStrandedCandidate
  LateCandidatesAccepted
PROPERTIES
  CallsReturn
  PublishIsNegotiated
  SubscriberCatchesUp
CHECK_DEADLOCK FALSE
