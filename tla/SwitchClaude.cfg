SPECIFICATION Spec
CONSTANTS
  Accounts = {a, b}
  Nobody = nobody
  Locking = TRUE
  Pieces = TRUE
  Failing = {"read", "write", "save", "list", "journal"}
  MaxLogins = 2
  MaxNames = 3
  MaxCrashes = 2
  MaxFaults = 1
  MaxOutside = 1
CONSTRAINT Mishaps
SYMMETRY AccountSymmetry
INVARIANTS TypeOK Accounted ParksTrue InUseTrue
PROPERTIES WritesOverWhatItRead Custodied LiveNotRenewed
