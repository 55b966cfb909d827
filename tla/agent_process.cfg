SPECIFICATION FairSpec
CONSTANTS
  Code = code
  SessionId = {code}
  Segment <- Segments
  None = None
  MaxUsize = 31
  MaxBody = 3
  MaxResponse = 14
  InputCapacity = 1
  StatusCapacity = 1
  PtyCapacity = 1
  DefaultServer <- LocalServer
  Commands <- ByName
  Replies <- Responses
  Bounds <- Instances
CHECK_DEADLOCK FALSE
INVARIANT TypeOK
INVARIANT ResponseIsRead
INVARIANT SameSession
INVARIANT HostRestored
PROPERTY OutputFlows
PROPERTY LockIsFreed
PROPERTY Exits
