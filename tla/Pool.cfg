SPECIFICATION PoolSpec
CONSTANTS
  N = 4
  Tasks = {1, 2, 3}
  Roles <- OneOrAllPop
  Retries = 2
  Caps <- MCCaps
  Class <- MCClass
  Heap = {11, 12, 13}
  HeapCap = 4
  MaxFallback = 3
  QueueCap = 1
  Leases = {1, 2}
  Confs <- AllKinds
  None = None
CHECK_DEADLOCK FALSE
INVARIANTS ChainIsWhole OneHand LeaseIsStable ReadsWhatWasSent
