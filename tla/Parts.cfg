SPECIFICATION PartsSpec
CONSTANTS
  Parts = {"levels", "batches", "tracing", "cache", "subscription", "queue"}
  Times = {1, 2, 3, 4}
  MaxBatches = 2
  MaxChildren = 3
  MaxLevel = 4
  MaxQueue = 3
  MaxInteractions = 2
  MaxWraps = 2
  MaxUpdatesTraced = 2
  MaxDepth = 3
  TraceLevels = {1, 2}
  Keys = {1, 2, 3}
  Limits = {1, 2}
  MaxResults = 3
  A = A
  B = B
  Sources = {A, B}
  Stubborn = {B}
  NoSource = NoSource
  MaxChanges = 2
  MaxPendingUpdates = 2
  UpdateLevels = {1, 2}
  MaxUpdates = 3
  MaxCaptured = 1
INVARIANTS
  LevelsInv
  WorkIsKept
  InteractionsComplete
  UsedEntriesAreKept
  ShowsItsSource
  NothingIsLost
PROPERTIES
  OnlyCommitsForget
  CallbacksRunWithTheirUpdate
CHECK_DEADLOCK FALSE
