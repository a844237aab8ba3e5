\* Three workers, and failures told apart up to two.
\* CHECK_DEADLOCK is off: the program ends.
SPECIFICATION Spec
CONSTANTS
  collector = collector
  notifier = notifier
  maintenance = maintenance
  Workers <- MCWorkers
  MaxFailures = 2
INVARIANTS
  TypeOK
  RegistryIsHonest
  NothingRunsOn
PROPERTIES
  LivesUntilTheSignal
CHECK_DEADLOCK FALSE
