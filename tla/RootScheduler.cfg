SPECIFICATION Spec
CONSTANTS
  r1 = r1
  r2 = r2
  Roots = {r1, r2}
  NoRoot = NoRoot
  Applications <- MCApplications
  MaxTime = 3
  LastUpdateTime = 3
INVARIANTS RootsWithWorkWait WorkIsReachable
PROPERTIES LevelsAreKept
CHECK_DEADLOCK FALSE
