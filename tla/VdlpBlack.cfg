SPECIFICATION Spec
CONSTANTS
  Blocks = 3
  Entries <- MCEntries
  Vrams <- MCVrams
  Heads = {0, 1}
  Bitmaps = 32
  PIXELS_PER_LINE_MODULO <- MCModulo
  Scanlines = 13
  First = 9
  End = 12
  Width = 1
  Formats = {"0RGB1555"}
  MaxFields = 2
  MaxWrites = 3
INVARIANT FrameLaidOut
