SPECIFICATION Spec
CONSTANTS
  Probers = {p1, p2}
  Claimers = {c1}
  Owners = {w1}
INVARIANTS
  TypeOK
  GateAgreesAtRest
  OpenOnOldNewsOnly
