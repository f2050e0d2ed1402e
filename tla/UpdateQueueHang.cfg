SPECIFICATION QueueSpec
CONSTANTS
  UpdateLevels = {1, 2}
  MaxUpdates = 3
  MaxCaptured = 1
INVARIANTS
  CommitsEnd
CHECK_DEADLOCK FALSE
