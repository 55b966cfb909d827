SPECIFICATION FairSpec
CONSTANTS
  Viewer = {v1}
  Size = {A}
  None = None
  ChunkLen = {1}
  Capacity = 2
  MaxQueue = 2
  Turn = 1
  Rounds = 2
  MaxRequests = 2
  SlowResizes = TRUE
  MaxStream = 3
  MaxJoins = 1
  MaxUnderWay = 1
CHECK_DEADLOCK FALSE
PROPERTY Reconnects
