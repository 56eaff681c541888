SPECIFICATION FairSpec
CONSTANTS
    Writers = {w1}
    RqCap = 1
    Confs <- AllKinds
    QueueCap = 1
    Watched = 1
INVARIANTS
    OneHand
    ReferredIsLive
    Tiled
    RefusesOnlyWhenFull
PROPERTIES
    ReleasedIsReclaimed
CHECK_DEADLOCK FALSE
