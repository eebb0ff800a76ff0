SPECIFICATION FairSpec
CONSTANTS
  c1 = c1
  c2 = c2
  s1 = s1
  s2 = s2
  None = None
  Conns = {c1, c2}
  Sids = {s1, s2}
  Sid <- OneSid
  UrlSid <- OtherUrl
  MaxRequests = 2
  Faults = {"joinError", "upgradeError", "iceFailure"}
INVARIANTS
  TypeOK
  UnregistersOwnSession
  PeersMeet
  JoinedSessionsGoAway
PROPERTIES
  LostConnectionIsCleanedUp
  ImplementsRegistry
CHECK_DEADLOCK FALSE
