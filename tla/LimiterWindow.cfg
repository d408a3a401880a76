CONSTANTS
  Client = {c1}
  FailLimit = 3
  FailWindow = 2
  LockoutTime = 3
  MaxNow = 6
SPECIFICATION LimiterSpec
PROPERTIES FailuresLockOut
CHECK_DEADLOCK FALSE
