SPECIFICATION Spec
CONSTANTS
  Vouchers = {v1, v2}
  NoVoucher = NoVoucher
  MaxCalls = 4
  MaxInFlight = 1
  MaxAttempts = 2
  DiagnosticBudget = 2
  AutoClaimEnabled = TRUE
  TrustedSource = TRUE
  Retention = FALSE
  Results <- TerminalResults
  Probes <- Healthy
SYMMETRY Symmetry
INVARIANTS
  GaplessTrail
  BudgetIsACap
PROPERTIES
  SavedIsFinal
CHECK_DEADLOCK FALSE
