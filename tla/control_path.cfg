SPECIFICATION FairSpec
CONSTANTS
  Viewer = {v1, v2}
  None = None
  MaxFrame = 6
  Scrollback = 1
  ControlCapacity = 1
  StatusCapacity = 1
  Bounds <- Instances
CHECK_DEADLOCK FALSE
INVARIANT TypeOK
INVARIANT OnlyAnswersApprove
INVARIANT PromptIsLive
INVARIANT HidesOnlyAnswered
INVARIANT BellRingsOnce
INVARIANT LostDecisionsAreLate
PROPERTY GrantIsApproved
PROPERTY HostIsTold
PROPERTY DecisionEnds
