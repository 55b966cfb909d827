SPECIFICATION Spec
CONSTANTS
  None = None
  HostSock = {h1}
  ViewerSock = {v1, v2}
  Viewer = {alice, bob}
  Details = {}
  LeaseAsks = {0}
  PendingTimeout = 1
  MinLease = 1
  MaxLease = 2
  HostGrace = 2
  IdleTTL = 3
  MaxTTL = 4
  RenewThreshold = 1
  MaxTime = 3
  MaxGeneration = 2
SYMMETRY SocketSymmetry
INVARIANTS
  ControlNeedsHost
  InputNeedsLease
  NoOrphanSocket
  ControlIsTold
PROPERTIES
  LeaseNotExtended
  ControlSpec
