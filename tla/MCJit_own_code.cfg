CONSTANTS
  Archs = {"x64", "aarch64", "x86"}
  Modules <- OneAndTwo
  Names = {"f", "g", "h"}
  Natives <- ThreeNatives
  Addresses = {"p1", "p2", "p3"}
  VMs = {1, 2}
  MaxCompiles = 3
  MaxFailures = 1
SPECIFICATION Spec
INVARIANT RunsOwnCode
CHECK_DEADLOCK FALSE
