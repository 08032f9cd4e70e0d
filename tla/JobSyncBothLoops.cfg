SPECIFICATION FairSpec
CONSTANTS
  NumRuns = 2
  MaxVersion = 2
  MaxUpdates = 3
  RunsPerPage = 1
  MaxPages = 2
  PageBound = 3
  JobsPerRun = 1
  JobBudget = 1
  Workers = {"poller", "backfiller"}
  Poison = {}
  Faults = {"transport", "body", "storage", "crash"}
  MaxFaults = 1
INVARIANTS TypeOK MarkedWasAnswered
PROPERTIES EventuallyAllMarked WalkCompletes
