SPECIFICATION Spec
CONSTANTS
  Vouchers = {v1}
  NoVoucher = NoVoucher
  MaxCalls = 4
  MaxInFlight = 2
  MaxAttempts = 2
  DiagnosticBudget = 2
  AutoClaimEnabled = TRUE
  TrustedSource = TRUE
  Retention = TRUE
  Results <- RacingResults
  Probes <- Healthy
INVARIANTS
  TypeOK
  EveryRequestRecorded
  NoRequestAfterRecordedSuccess
  BoundedOvershoot
  StatusHasEvidence
  ReviewNeedsTrail
CHECK_DEADLOCK FALSE
