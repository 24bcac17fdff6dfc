SPECIFICATION Spec
CONSTANTS
  Regs = {8, 13, 14}
  Words = 32
  Data = {31}
  Bases = {14}
  GuestPsr <- MCPsr
  Lists <- MCLists
  Configs <- MCConfigs
  RamAddr = {1}
  Files <- MCFiles
  MaxInsns = 2
INVARIANTS MapAgrees
PROPERTIES ImplementsRegisters ResetHandsOver UserConfined
