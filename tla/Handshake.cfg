SPECIFICATION FairSpec
CONSTANTS
  Confs <- AllConfs
  Shapes <- AllShapes
CHECK_DEADLOCK FALSE
INVARIANTS Wired SameWords NoMutualWait NoSilentDowngrade PoolGivenBack
PROPERTIES EveryHandshakeReturns
