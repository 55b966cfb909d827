SPECIFICATION Spec
CONSTANTS
  None = None
  HostSock = {h1}
  ViewerSock = {v1}
  Viewer = {alice}
  Details = {size}
  LeaseAsks = {0}
  PendingTimeout = 1
  MinLease = 1
  MaxLease = 2
  HostGrace = 2
  IdleTTL = 3
  MaxTTL = 4
  RenewThreshold = 1
  MaxTime = 3
  MaxGeneration = 2
INVARIANTS
  HostLossIsTold
