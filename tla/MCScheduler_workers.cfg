SPECIFICATION Spec
CONSTANTS
  Jobs = {j1, j2}
  Workers = {w1, w2}
  NoJob = NoJob
  PreflightLead = 1
  StaleAfter = 1
  MaxTime = 3
  MaxUpserts = 3
  MaxRequeues = 1
  MaxCrashes = 1
INVARIANTS
  TypeOK
  SoleRunner
  FiresOncePerQueueing
  AttemptsAreExecutions
  RunsInTime
PROPERTIES
  ImplementsDispatch
SYMMETRY Symmetry
CHECK_DEADLOCK FALSE
