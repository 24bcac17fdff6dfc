SPECIFICATION FairSpec
CONSTANTS
  One = 2
  Step = 2
  SndFreq = 2
  M25mFreq = 8
  SlotTicks = 2
  Timers = 2
  DefaultSlack = 2
  Freqs = {4, 6}
  Regions <- mc_Regions
  Slacks = {0}
  TimerMax = 1
  ExecCycles = {3}
  Buffers = {0, 8}
  Lengths = {0, 2}
  VintLines = {0, 1}
  IntBits = {0, 10, 31}
  Programs <- mc_Programs
INVARIANTS CyclesConserved NoBacklog SamplesInOrder
PROPERTIES CascadeCountsAsOne VintOncePerField FrameEnds
