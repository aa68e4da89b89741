SPECIFICATION Spec
CONSTANTS
  a = a
  b = b
  Accounts = {a, b}
  Nobody = nobody
  First = a
  FirstLate = {0}
  Weekless = {b}
  Offset <- MCOffset
  Length <- MCLength
  Orders = {"resets-soonest"}
  Percents = {0, 1}
  Share = 1
  Same = 2
  Jitter = 1
  Settling = 1
  Retry = 1
  RetryMost = 2
  Attempts = 2
  Fresh = 2
  Lasting = 1
  Start = 6
  End = 8
  MaxReadings = 1
  MaxEvents = 2
INVARIANTS LeftOnce TriedAtMost SaidOnce
CHECK_DEADLOCK FALSE
