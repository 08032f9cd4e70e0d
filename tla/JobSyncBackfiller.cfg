SPECIFICATION Spec
CONSTANTS
  NumRuns = 3
  MaxVersion = 2
  MaxUpdates = 4
  RunsPerPage = 2
  MaxPages = 2
  PageBound = 3
  JobsPerRun = 2
  JobBudget = 1
  Workers = {"backfiller"}
  Poison = {}
  Faults = {"transport", "crash", "evict"}
  MaxFaults = 2
INVARIANTS MarkedJobsStored UnchangedPageIsStored
PROPERTY NeverGoesBack
