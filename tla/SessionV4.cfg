SPECIFICATION FairSpec
CONSTANTS
  Streams = {1, 2}
  MaxMsgs = 2
  Cap = 1
  Confs <- AllKinds
  None = None
CHECK_DEADLOCK FALSE
INVARIANTS InOrder OneOwner ClosedIsClean
PROPERTIES EveryMessageSettles
