SPECIFICATION Spec
CONSTANTS
  Streams = {1, 2}
  MaxMsgs = 2
  Cap = 2
  Confs <- BothRoutes
  None = None
CHECK_DEADLOCK FALSE
INVARIANTS InOrderWithFallback
