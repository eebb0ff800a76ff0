SPECIFICATION Spec
CONSTANTS
  c1 = c1
  c2 = c2
  c3 = c3
  nA = nA
  nB = nB
  s1 = s1
  None = None
  Conns = {c1, c2, c3}
  Nodes = {nA, nB}
  Sids = {s1}
  Home <- Home3
  Sid <- OneSid
  Faults = {"timeout", "leaseLoss", "crash", "joinError"}
SYMMETRY Symmetry3
INVARIANTS
  TypeOK
  OneInCriticalSection
  KeyHasKeeper
  ClosesOwnSession
  GaugeCountsSessions
  NoResidue
PROPERTIES
  ImplementsDirectory
  ImplementsRegistry
CHECK_DEADLOCK FALSE
