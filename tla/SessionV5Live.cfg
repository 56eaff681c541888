SPECIFICATION FairSpec
CONSTANTS
  Streams = {1, 2}
  Cap = 2
  Confs <- Short
  None = None
CHECK_DEADLOCK FALSE
PROPERTIES EveryMessageArrives DrainEnds
