CONSTANTS
  near = near
  far = far
  Confs <- Workloads
SPECIFICATION FairSpec
CHECK_DEADLOCK FALSE
INVARIANTS
  FencedOrder
  SendQueueOrder
  ResourcesExact
  ToldWhenDone
PROPERTY
  EventuallyTold
