CONSTANTS
  h1 = h1
  h2 = h2
  t1 = t1
  t2 = t2
  None = None
  Hosts <- MCHosts
  Threads <- MCThreads
  MaxStarts = 2
  MaxYields = 2
SPECIFICATION Spec
SYMMETRY Symmetry
INVARIANTS
  RunningIsExecuting
  ReturnsToCaller
  NoLostProgress
  NoDeadStack
CHECK_DEADLOCK FALSE
