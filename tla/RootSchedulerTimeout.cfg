SPECIFICATION FairSpec
CONSTANTS
  r1 = r1
  r2 = r2
  Roots = {r1}
  NoRoot = NoRoot
  Applications <- MCWaiting
  MaxTime = 5
  LastUpdateTime = 3
PROPERTIES SuspendedLevelsTimeOut
CHECK_DEADLOCK FALSE
