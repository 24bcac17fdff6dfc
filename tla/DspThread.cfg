SPECIFICATION FairSpec
CONSTANTS
  BufSize = 4
  WakeBatch = 2
  MaxTicks = 5
INVARIANTS ParkedIsCaughtUp JoinNeverSleeps SpansDisjoint
PROPERTIES ImplementsStream WokenTicksRun DestroyReturns
