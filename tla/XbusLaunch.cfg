SPECIFICATION Spec
CONSTANTS
  DiscBlocks = 1
  SectorBytes = 1
  SectorCycles = 1
  MaxBlocks = 1
  CommandBytes = 3
  MaxDma = 1
  GuestCommands <- LaunchSide
  PollWrites <- Unmasked
  GuestUnits = {"0x00", "0x80", "absent"}
INVARIANTS LaunchResponseReadable
PROPERTY MediaChangeIsLatched
