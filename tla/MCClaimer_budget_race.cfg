SPECIFICATION Spec
CONSTANTS
  Vouchers = {v1}
  NoVoucher = NoVoucher
  MaxCalls = 2
  MaxInFlight = 2
  MaxAttempts = 1
  DiagnosticBudget = 1
  AutoClaimEnabled = TRUE
  TrustedSource = TRUE
  Retention = FALSE
  Results <- RacingResults
  Probes <- Healthy
INVARIANT BudgetIsACap
CHECK_DEADLOCK FALSE
