SPECIFICATION Spec
CONSTANTS
  Keys = {k1, k2}
  NoRow = NoRow
  MaxAttempts = 2
  BatchSize = 2
  MaxEnqueues = 4
  MaxAborts = 2
INVARIANTS
  TypeOK
  SettledForCause
  BoundedTries
  BatchIsPending
PROPERTIES
  EveryRowSettles
  ImplementsDelivery
CHECK_DEADLOCK FALSE
