CONSTANTS
  t1 = t1
  t2 = t2
  None = None
  Threads <- MCThreads
  NPages = 7
  MaxSize = 2
SPECIFICATION Spec
INVARIANTS
  GuardsProtected
  NoTrespass
PROPERTY FailedCreateRestores
CHECK_DEADLOCK FALSE
