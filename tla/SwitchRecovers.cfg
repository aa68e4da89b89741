SPECIFICATION FairSpec
CONSTANTS
  Accounts = {a, b}
  Nobody = nobody
  Locking = TRUE
  Pieces = TRUE
  Failing = {"unlink", "item"}
  MaxLogins = 2
  MaxNames = 3
  MaxCrashes = 1
  MaxFaults = 1
  MaxOutside = 0
PROPERTIES RecoveryEnds LeftoversGo
