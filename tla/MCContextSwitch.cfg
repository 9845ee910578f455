CONSTANTS
  Archs = {"x64", "arm64"}
  VMs = {"v1", "v2"}
  Base = 64
  Size = 288
  Frames = {0, 64}
  MaxCalls = 3
SPECIFICATION Spec
INVARIANTS
  ArrivesAtTarget
  CalleeSavedSurvive
PROPERTY EverySwitchArrives
CHECK_DEADLOCK FALSE
