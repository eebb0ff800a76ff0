SPECIFICATION FairSpec
CONSTANTS
  c1 = c1
  c2 = c2
  c3 = c3
  nA = nA
  nB = nB
  s1 = s1
  None = None
  Conns = {c1, c2}
  Nodes = {nA, nB}
  Sids = {s1}
  Home <- Home2
  Sid <- OneSid
  Faults = {"timeout", "leaseLoss", "lockLoss", "crash", "joinError"}
PROPERTIES
  EveryCallReturns
  DeadNodeIsReplaced
CHECK_DEADLOCK FALSE
