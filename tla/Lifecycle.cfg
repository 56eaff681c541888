SPECIFICATION Spec
CONSTANTS
  Sessions = {1, 2, 3}
  Managers = {1, 2, 3, 4}
  Tasks = {"a", "b"}
  ChanCap = 1
  SockCap = 2
  BufCap = 3
  PoolCap = 1
  MaxStreams = 2
  Confs <- AllKinds
  None = None
CHECK_DEADLOCK FALSE
INVARIANTS FramesAreWhole NoDeadManager OneUser
PROPERTIES WakeupArrives QueuedSendReturns DeadIsReplaced
