SPECIFICATION Spec
CONSTANTS
  Discs <- MCDiscs
  Lengths <- MCLengths
  Sectors <- MCSectors
  CUE_MAX_TRACKS = 2
  CUE_MAX_FILES = 2
INVARIANTS StreamsOwned LayoutTrue ReadsItsFrame ReadsInFull
