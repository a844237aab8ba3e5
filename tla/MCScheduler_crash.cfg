SPECIFICATION Spec
CONSTANTS
  Jobs = {j1}
  Workers = {w1}
  NoJob = NoJob
  PreflightLead = 1
  StaleAfter = 1
  MaxTime = 3
  MaxUpserts = 1
  MaxRequeues = 0
  MaxCrashes = 1
INVARIANTS
  FutureActionsAreKept
CHECK_DEADLOCK FALSE
