SPECIFICATION FairSpec
CONSTANTS
  Msgs = {create, input, bad}
  NonDroppable = {create}
  Unserializable = {bad}
  ScanFile = input
  Limit = 2
  MayOOM = TRUE
  MaxAccepted = 4
  MaxRequests = 2
CHECK_DEADLOCK FALSE
INVARIANTS
  NoLostWakeup QueueIsFaithful
PROPERTIES
  ImplementsPort NothingIsForgotten
