SPECIFICATION Spec
CONSTANTS
  c1 = c1
  c2 = c2
  u1 = u1
  u2 = u2
  None = None
  Conns = {c1, c2}
  Uids = {u1, u2}
  Uid <- OwnUids
  Metas = {"m1"}
  Cap = 1
  MaxSessions = 2
  MaxRevision = 2
  Faults = {}
INVARIANTS
  PresenceFollowsPeers
CHECK_DEADLOCK FALSE
