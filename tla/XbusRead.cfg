SPECIFICATION FairSpec
CONSTANTS
  DiscBlocks = 2
  SectorBytes = 2
  SectorCycles = 1
  MaxBlocks = 2
  CommandBytes = 2
  MaxDma = 2
  GuestCommands <- ReadSide
  PollWrites <- Unmasked
  GuestUnits = {"0x00"}
INVARIANTS ReadAccounting StatusAfterTransfer Paced
PROPERTY ReadArrives
