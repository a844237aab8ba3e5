SPECIFICATION Spec
CONSTANTS
  Probers = {p1}
  Claimers = {c1}
  Owners = {}
INVARIANTS
  ClosedUnlessHealthy
