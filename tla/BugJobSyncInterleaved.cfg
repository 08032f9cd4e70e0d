SPECIFICATION Spec
CONSTANTS
  NumRuns = 1
  MaxVersion = 2
  MaxUpdates = 2
  RunsPerPage = 1
  MaxPages = 1
  PageBound = 1
  JobsPerRun = 2
  JobBudget = 1
  Workers = {"poller", "backfiller"}
  Poison = {}
  Faults = {}
  MaxFaults = 0
INVARIANT UnqueuedHasJobs
