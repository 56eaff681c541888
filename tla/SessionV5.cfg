SPECIFICATION Spec
CONSTANTS
  Streams = {1, 2}
  Cap = 2
  Confs <- AllKinds
  None = None
CHECK_DEADLOCK FALSE
INVARIANTS InOrder OneOwner
PROPERTIES BatchStaysInItsLife
