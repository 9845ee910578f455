CONSTANTS
  Frames = {f1, f2, f3, f4}
  Voids = {f3, f4}
  Host = Host
  Null = Null
  Noop = Noop
SPECIFICATION Spec
INVARIANTS
  ControlIsChained
  FuturesOwnFrames
  SeesOutcome
PROPERTIES
  BehavesLikeCalls
  EverythingEnds
CHECK_DEADLOCK FALSE
