SPECIFICATION FairSpec
CONSTANTS
  Accounts = {"w", "h"}
  Sessions = {"work", "home", "work2"}
  Owner <- MCOwner
  Items <- MCItems
  InUse = "work"
  Parked = "home"
  None = None
  MaxNames = 4
  MaxOpens = 1
  MaxMishaps = 1
INVARIANTS TypeOK ParksWhole NotMixed EveryFolderNamed NoSessionLost InUseTrue
PROPERTIES OnlyForgottenDeleted MoveEnds
