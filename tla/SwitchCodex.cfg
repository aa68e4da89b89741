SPECIFICATION Spec
CONSTANTS
  Accounts = {a, b}
  Nobody = nobody
  Locking = FALSE
  Pieces = FALSE
  Failing = {"read", "write", "save", "list", "journal"}
  MaxLogins = 2
  MaxNames = 3
  MaxCrashes = 1
  MaxFaults = 1
  MaxOutside = 2
SYMMETRY AccountSymmetry
INVARIANTS NothingLost NoTwinAtRest
CONSTRAINT Mishaps
