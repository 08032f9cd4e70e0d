SPECIFICATION Spec
CONSTANTS
  Repos <- MCRepos
  Limit = 5
  Floor = 3
  PollCost = 1
  MaxRetry = 1
  MaxMishaps = 1
  NumPulls = 2
  PullsPerPage = 1
  PageCaps = {2, 3}
  RetainDays = 1
  LastDay = 3
  MaxLosses = 1
  MaxCrashes = 1
  TokenLife = 12
  AuthEarly = 1
  LibraryEarly = 0
INVARIANTS
  TypeOK
  QuotaSpared
  PullsAccountedFor
PROPERTIES
  AllServed
  AllStored
  TokenRecovers
CHECK_DEADLOCK FALSE
