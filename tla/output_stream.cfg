SPECIFICATION Spec
CONSTANTS
  Viewer = {v1}
  Size = {A, B}
  None = None
  ChunkLen = {2}
  Capacity = 3
  MaxQueue = 2
  Turn = 2
  Rounds = 1
  MaxRequests = 1
  SlowResizes = TRUE
  MaxStream = 4
  MaxJoins = 1
  MaxUnderWay = 1
CHECK_DEADLOCK FALSE
SYMMETRY Symmetry
INVARIANTS TypeOK NoGap QueueBounded EndIsComplete CachedSizeIsHosts
PROPERTY NeverBack
