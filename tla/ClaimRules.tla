----------------------------- MODULE ClaimRules -----------------------------
(***************************************************************************)
(* The pure rules the claimer is built from: the classification of claim   *)
(* responses and the retry step each one calls for, the voucher status     *)
(* machine, and the claim policy.                                          *)
(* Reasons, delays and scores are abstracted: a decision is its kind, a    *)
(* retry step is its kind, and a score is "below the minimum" or not.      *)
(***************************************************************************)
EXTENDS Integers, SessionRules

CONSTANTS
  MaxAttempts,       \* ClaimServiceConfig.max_attempts
  DiagnosticBudget,  \* ClaimServiceConfig.diagnostic_budget
  AutoClaimEnabled,  \* ClaimServiceConfig.auto_claim_enabled
  TrustedSource      \* ClaimService.trusted_source

ASSUME RulesAssumption ==
  /\ MaxAttempts \in Nat
  /\ DiagnosticBudget \in Nat
  /\ AutoClaimEnabled \in BOOLEAN
  /\ TrustedSource \in BOOLEAN

-----------------------------------------------------------------------------
(* Claim results *)

ResultClass ==
  { "Success", "AlreadySaved", "NotActive", "Expired", "Exhausted",
    "Ineligible", "InvalidVoucher", "SessionExpired", "VerificationRequired",
    "RateLimited", "TransientFailure", "UnknownResponse" }

SuccessEquivalent == {"Success", "AlreadySaved"}

NoRetry ==
  SuccessEquivalent \union {"Expired", "Exhausted", "Ineligible", "InvalidVoucher"}

PausesSession == {"SessionExpired", "VerificationRequired"}

RetriesWithBackoff == {"RateLimited", "TransientFailure"}

\* Mutant: the first unknown response already exhausts the diagnostic budget.
NextStepHasty(class, index) ==
  CASE class \in NoRetry       -> "Terminal"
    [] class = "NotActive"     -> "RescheduleAtStart"
    [] class \in PausesSession -> "PauseForSession"
    [] class = "UnknownResponse"    -> "ReviewRequired"
    [] class \in RetriesWithBackoff -> "RetryAfter"

\* What follows the attempt number index (from 0) that ended with class.
NextStep(class, index) ==
  CASE class \in NoRetry       -> "Terminal"
    [] class = "NotActive"     -> "RescheduleAtStart"
    [] class \in PausesSession -> "PauseForSession"
    [] class = "UnknownResponse" ->
         IF index + 1 >= DiagnosticBudget THEN "ReviewRequired" ELSE "RetryAfter"
    [] class \in RetriesWithBackoff ->
         IF index + 1 >= MaxAttempts THEN "Terminal" ELSE "RetryAfter"

-----------------------------------------------------------------------------
(* Session reports *)

\* Mutant: the class of the response is taken for a session state.
SessionAfterRaw(class) == class

\* The state a claim response forces on the session manager.
SessionAfter(class) ==
  IF class = "VerificationRequired" THEN "VerificationRequired" ELSE "Expired"

-----------------------------------------------------------------------------
(* Voucher status *)

VoucherStatus ==
  { "Discovered", "Validated", "Eligible", "Scheduled", "Claiming", "Saved",
    "Exhausted", "Ineligible", "Expired", "ReviewRequired" }

\* The status a classified attempt writes, or "Kept" when it writes none.
StatusAfter(class, step) ==
  CASE class \in SuccessEquivalent -> "Saved"
    [] class \in {"Exhausted", "Expired", "Ineligible"} -> class
    [] OTHER -> IF step = "ReviewRequired" THEN "ReviewRequired" ELSE "Kept"

-----------------------------------------------------------------------------
(* Claim policy *)

Window == {"Upcoming", "Active", "Ended"}

PolicyInputs ==
  [ excluded : BOOLEAN, succeeded : BOOLEAN, session : SessionState,
    identifiers : BOOLEAN, window : Window, used : Nat, belowMinimum : BOOLEAN ]

\* Mutant: the policy forgets that the voucher is already claimed.
RefusedForgetful(i) == ~AutoClaimEnabled \/ i.excluded \/ ~TrustedSource

Refused(i) == ~AutoClaimEnabled \/ i.excluded \/ i.succeeded \/ ~TrustedSource

\* Mutant: off by one, one attempt more than the budget.
BudgetSpentLate(used) == used > MaxAttempts

BudgetSpent(used) == used >= MaxAttempts

\* The branches in the code's order; the two deferrals for an unusable and
\* for an unproven session give the same decision.
Evaluate(i) ==
  IF Refused(i) THEN "Deny"
  ELSE IF NeedsManualAction(i.session) THEN "ManualReview"
  ELSE IF BlocksClaims(i.session) \/ ~AllowsClaims(i.session) THEN "Defer"
  ELSE IF ~i.identifiers \/ i.window = "Ended" THEN "Deny"
  ELSE IF i.window = "Upcoming" THEN "Defer"
  ELSE IF BudgetSpent(i.used) \/ i.belowMinimum THEN "Deny"
  ELSE "Allow"

=============================================================================
