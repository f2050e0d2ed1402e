SPECIFICATION FairSchedulerSpec
CONSTANTS
  RequestTimes <- MCRequestTimes
  Immediate = Immediate
  UserBlocking = UserBlocking
  Normal = Normal
  Idle = Idle
  Timeout <- MCTimeout
  CustomTimeouts <- MCCustomTimeouts
  HandlerPriorities <- MCHandlerPriorities
  MayThrow = TRUE
  MaxTime = 1
  MaxCallbacks = 3
  MaxDepth = 3
INVARIANTS
  OvertakenOnlyByUrgent
  NoLostWork
  ContextIsRestored
PROPERTIES
  WorkIsCalled
CHECK_DEADLOCK FALSE
