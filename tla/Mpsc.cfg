CONSTANTS
  Producers = {p1, p2}
  Values = {a, b}
  Cap = 2
  MaxPos = 4
  None = None
SPECIFICATION FairSpec
INVARIANTS NoSlotRace
PROPERTIES ImplementsClaimQueue EveryClaimIsPopped
