CONSTANTS
  Archs = {"x64", "arm64"}
  LocalTypes <- TwoI32
  NParams = 2
  Results <- OneI32
  Regs <- FourRegs
  NoReg = NoReg
  SizeMod = 64
  Modulus = 16
  Consts = {1, 2}
  Args = {0, 4}
  Ops <- ReadOps
  MaxBody = 6
  DeadCode = FALSE
SPECIFICATION Spec
INVARIANT ResultCorrect
CHECK_DEADLOCK FALSE
