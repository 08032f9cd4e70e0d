SPECIFICATION FairSpec
CONSTANTS
  Names = {"dns", "tunnel"}
  Callers = {"main"}
  MaxLoops = 3
  Restarts = FALSE
INVARIANTS DeregisteredIsStopped
PROPERTY StopReturns
