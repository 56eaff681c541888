CONSTANTS
  Producers = {p1, p2, p3}
  Cap = 2
  MaxPos = 4
  None = None
SPECIFICATION FairSpec
CHECK_DEADLOCK FALSE
INVARIANTS Fifo NoLostWakeup
PROPERTIES EveryPutIsPopped
