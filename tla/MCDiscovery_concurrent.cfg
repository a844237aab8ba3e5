SPECIFICATION Spec
CONSTANTS
  Collectors = {c1, c2}
  Vouchers = {v1}
  Versions = {a, b}
  NoVersion = NoVersion
  MaxBatch = 2
  MaxRuns = 3
  MaxFaults = 1
SYMMETRY Symmetry
INVARIANTS
  TypeOK
  NothingLostWithoutFault
  AnnouncedIsStored
  HealthyMeansStored
CHECK_DEADLOCK FALSE
