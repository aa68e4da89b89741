SPECIFICATION FairSpec
CONSTANTS
  Parks = {p, q}
  None = None
  MaxCrashes = 1
  MaxFaults = 1
  MaxLocks = 1
INVARIANTS TypeOK HeldIsThere NoneForgotten
PROPERTIES OthersStay MoveEnds
