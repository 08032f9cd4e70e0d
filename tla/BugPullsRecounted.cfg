SPECIFICATION PullsSpec
CONSTANTS
  NumPulls = 2
  PullsPerPage = 1
  PageCaps = {2, 3}
  RetainDays = 1
  LastDay = 4
  MaxLosses = 0
  MaxCrashes = 0
INVARIANTS
  PullsCountedOnce
CHECK_DEADLOCK FALSE
