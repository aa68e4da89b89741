SPECIFICATION Spec
CONSTANTS
  Accounts = {a, b}
  Nobody = nobody
  Locking = TRUE
  Pieces = FALSE
  Failing = {"write"}
  MaxLogins = 2
  MaxNames = 3
  MaxCrashes = 1
  MaxFaults = 1
  MaxOutside = 0
PROPERTIES GivenUpIsKept
