SPECIFICATION Spec
CONSTANTS
  c1 = c1
  c2 = c2
  u1 = u1
  u2 = u2
  None = None
  Conns = {c1, c2}
  Uids = {u1}
  Uid <- SharedUid
  Metas = {"m1"}
  Cap = 1
  MaxSessions = 1
  MaxRevision = 2
  Faults = {}
INVARIANTS
  PeerIsListening
CHECK_DEADLOCK FALSE
