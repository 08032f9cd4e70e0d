SPECIFICATION RetentionSpec
CONSTANTS
  DatedRuns = {r1, r2}
  Sessions = {poller, backfiller}
  Retention = 3
  Margin = 2
  Lags = {0, 1}
  Delay = 1
  LastTick = 4
INVARIANTS
  RetentionTypeOK
  EachRunCounted
  PrunedJobsCounted
PROPERTIES
  FollowsLedger
CHECK_DEADLOCK FALSE
