SPECIFICATION FairSpec
CONSTANTS
  RequestTimes <- MCRequestTimes
  InitialFrameTime = 4
  MinFrameTime = 2
  FrameLag = 1
  MaxTime = 8
  MaxMessages = 2
INVARIANTS
  TypeOK
  HostInv
PROPERTIES
  FrameTimeAdaptsDownwards
  ImplementsContract
  RequestIsServed
CHECK_DEADLOCK FALSE
