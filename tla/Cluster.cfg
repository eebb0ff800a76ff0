SPECIFICATION FairSpec
CONSTANTS
  c1 = c1
  c2 = c2
  nA = nA
  nA2 = nA2
  nB = nB
  eA = eA
  eB = eB
  s1 = s1
  None = None
  Clients = {c1, c2}
  Nodes = {nA, nA2, nB}
  Endpoints = {eA, eB}
  Sids = {s1}
  Endpoint <- EndpointOf
  Sid <- OneSid
  Started = {nA, nB}
  Owners = {nB, None}
  Crashing = {nA}
  Signalled = {nA}
  Lapsing = {nB}
  Failing = {nA}
  MaxHops = 3
INVARIANTS
  TypeOK
  NoProxyLoop
  PeersOfOneTermMeet
  DrainCutsOffNobody
PROPERTIES
  EveryClientIsAnswered
  DrainEnds
CHECK_DEADLOCK FALSE
