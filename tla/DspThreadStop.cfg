SPECIFICATION Spec
CONSTANTS
  BufSize = 2
  WakeBatch = 2
  MaxTicks = 2
INVARIANT
  StopsOnceEveryTickHasRun
