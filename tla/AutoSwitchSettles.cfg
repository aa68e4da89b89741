SPECIFICATION Spec
CONSTANTS
  a = a
  b = b
  Accounts = {a, b, c}
  Nobody = nobody
  First = a
  FirstLate = {0}
  Weekless = {b, c}
  Offset <- MCOffset
  Length <- MCLength
  Orders = {"most-left", "resets-soonest"}
  Percents = {0, 1}
  Share = 1
  Same = 2
  Jitter = 1
  Settling = 1
  Retry = 1
  RetryMost = 2
  Attempts = 2
  Fresh = 2
  Lasting = 1
  Start = 6
  End = 8
  MaxReadings = 0
  MaxEvents = 1
PROPERTIES LeftAlone
CHECK_DEADLOCK FALSE
