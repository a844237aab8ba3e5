---------------------------- MODULE SessionRules ----------------------------
(***************************************************************************)
(* The states of the Shopee session and what each means for claiming.      *)
(***************************************************************************)

SessionState ==
  { "Unknown", "Healthy", "Degraded", "Expired", "LoginRequired",
    "VerificationRequired", "Disabled" }

BlocksClaims(s) == s \in {"Expired", "LoginRequired", "VerificationRequired", "Disabled"}

AllowsClaims(s) == s = "Healthy"

NeedsManualAction(s) == s \in {"LoginRequired", "VerificationRequired"}

=============================================================================
