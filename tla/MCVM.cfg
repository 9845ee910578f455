CONSTANTS
  h1 = h1
  h2 = h2
  v1 = v1
  v2 = v2
  c1 = c1
  c2 = c2
  c3 = c3
  None = None
  Hosts <- TwoHosts
  VMs <- TwoVMs
  Comps <- ThreeComps
  MaxInvokes = 3
SPECIFICATION FairSpec
INVARIANTS
  NoAssertFires
  RunsOnce
  NoStrayWrite
  NeverStranded
  DoneMeansAnswered
PROPERTIES
  EveryInvokeEnds
  KeepsPromise
CHECK_DEADLOCK FALSE
