SPECIFICATION FairSpec
CONSTANTS
  PBUS_BUF_SIZE = 32
  LR_INPUT_MAX_DEVICES = 3
  RAM_SIZE = 3
  Rams <- MCRam
  Ports <- MCPorts
  Lengths <- MCLengths
  MaxOps = 5
  MaxNow = 3
INVARIANTS PendingIsOwed BusyIsBounded PortImage
PROPERTY EngineRests
