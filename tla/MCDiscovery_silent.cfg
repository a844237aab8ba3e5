SPECIFICATION Spec
CONSTANTS
  Collectors = {c1}
  Vouchers = {v1}
  Versions = {a, b}
  NoVersion = NoVersion
  MaxBatch = 1
  MaxRuns = 2
  MaxFaults = 1
SYMMETRY Symmetry
INVARIANTS
  NoSilentChange
CHECK_DEADLOCK FALSE
