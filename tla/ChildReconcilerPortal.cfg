SPECIFICATION Spec
CONSTANTS
  Values <- MCValues
  MaxLength = 1
  EmptyPortals = TRUE
INVARIANT RemovedFromParent
