CONSTANTS
  Archs = {"x64", "arm64"}
  LocalTypes <- I32AndI64
  NParams = 1
  Results <- OneI32
  Regs <- TwoRegs
  NoReg = NoReg
  SizeMod = 64
  Modulus = 4
  Consts = {3}
  Args = {1}
  Ops <- AllOps
  MaxBody = 7
  DeadCode = FALSE
SPECIFICATION Spec
INVARIANTS
  ValidatedNeverStuck
  MemoryIsPeak
  NoFault
  RegistersTracked
  SpillsInFrame
CHECK_DEADLOCK FALSE
