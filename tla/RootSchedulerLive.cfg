SPECIFICATION FairSpec
CONSTANTS
  r1 = r1
  r2 = r2
  Roots = {r1}
  NoRoot = NoRoot
  Applications <- MCStarving
  MaxTime = 6
  LastUpdateTime = 3
PROPERTIES UpdatesAreCommitted
CHECK_DEADLOCK FALSE
