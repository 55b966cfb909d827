SPECIFICATION Spec
CONSTANTS
  Viewer = {v1}
  Size = {A, B}
  None = None
  ChunkLen = {1}
  Capacity = 4
  MaxQueue = 2
  Turn = 1
  Rounds = 2
  MaxRequests = 2
  SlowResizes = TRUE
  MaxStream = 3
  MaxJoins = 1
  MaxUnderWay = 1
CHECK_DEADLOCK FALSE
INVARIANT DimensionsAreHosts
