------------------------------ MODULE Messages ------------------------------
(***************************************************************************)
(* What the owner hears: which message an event becomes (format.rs), how   *)
(* one send behaves against the Telegram API (telegram.rs, error.rs), and  *)
(* which conditions raise an alert (alerts.rs).  A message is its category *)
(* and the statements in it that depend on the event; wording, scrubbing   *)
(* and truncation are left out.  Delays are in milliseconds.               *)
(***************************************************************************)
EXTENDS Planning, SessionRules, Question

CONSTANTS
  Replies,          \* what the API may answer to one request
  MaxSends,         \* RetryPolicy.max_attempts
  BaseDelay, MaxDelay,   \* RetryPolicy.base_delay and max_delay
  MaxHonoured,      \* MAX_HONOURED_RETRY_AFTER
  ClaimBudget, UnknownBudget,  \* max_attempts and diagnostic_budget of the claimer
  ShownVouchers,    \* vouchers a message is enriched with
  Inputs,           \* AlertInputs, the collector's last success by its age
  Thresholds,       \* AlertThresholds
  AlertTimes,       \* moments of evaluation, not always in order
  MaxRounds         \* bound: evaluations in a row

\* A hint is a number of seconds, the terms of a voucher passed the validation
\* of the intake, and the cooldown of the thresholds is half an hour.
ASSUME MessagesAssumption ==
  /\ MaxSends \in Nat \ {0}
  /\ {BaseDelay, MaxDelay, MaxHonoured} \subseteq Nat
  /\ \A r \in Replies : /\ r.status \in Nat /\ r.ok \in BOOLEAN
                        /\ {r.hint, r.header} \subseteq Nat \union {None}
  /\ \A v \in ShownVouchers : /\ {v.amount, v.cap} \subseteq Nat \union {None}
                              /\ v.percent \in (1..100) \union {None}
  /\ Thresholds.cooldown \in Nat \ {0}
  /\ AlertTimes \subseteq Int

Claims == INSTANCE ClaimRules WITH
  MaxAttempts <- ClaimBudget, DiagnosticBudget <- UnknownBudget,
  AutoClaimEnabled <- TRUE, TrustedSource <- TRUE

-----------------------------------------------------------------------------
(* telegram.rs: a reply is [status, ok, hint, header], its status 0 when    *)
(* the request or the reading of its body failed.                           *)

ClassifyReply(r) ==
  CASE r.status = 0 -> "Transport"
    [] r.status \in 200..299 /\ r.ok -> "Ok"
    [] r.status = 429 -> "RateLimited"
    [] r.status \in {401, 403} -> "Unauthorized"
    [] r.status \in 400..499 \ {401, 403, 429} -> "InvalidRequest"
    [] r.status \in 500..599 -> "Upstream"
    [] OTHER -> "UnknownResponse"

\* Mutant: an answer that was not understood is asked for again.
IsRetryableUnlessRefused(class) ==
  class \in {"Transport", "RateLimited", "Upstream", "UnknownResponse"}

IsRetryable(class) == class \in {"Transport", "RateLimited", "Upstream"}

\* NotifierError::retry_after: the body's hint before the header's.
RetryAfter(r) ==
  IF ClassifyReply(r) = "RateLimited" THEN Otherwise(r.hint, r.header) ELSE None

DelayFor(attempt) == Min2(BaseDelay * 2 ^ Min2(attempt - 1, 16), MaxDelay)

\* Mutant: the backoff bounds the hint.
WaitBackedOff(r, attempt) ==
  IF Stated(RetryAfter(r)) THEN Min2(1000 * RetryAfter(r), DelayFor(attempt)) ELSE DelayFor(attempt)

\* The wait between the failed attempt and the next.
Wait(r, attempt) ==
  IF Stated(RetryAfter(r)) THEN Min2(1000 * RetryAfter(r), MaxHonoured) ELSE DelayFor(attempt)

\* One request after the other until a reply that settles it or the budget is
\* spent.
Send(rs) ==
  LET last  == CHOOSE n \in 1..MaxSends :
                 /\ n = MaxSends \/ ~IsRetryable(ClassifyReply(rs[n]))
                 /\ \A i \in 1..(n - 1) : IsRetryable(ClassifyReply(rs[i]))
      class == ClassifyReply(rs[last])
  IN [requests |-> last,
      waits    |-> [i \in 1..(last - 1) |-> Wait(rs[i], i)],
      result   |-> IF IsRetryable(class) THEN "RetriesExhausted" ELSE class]

-----------------------------------------------------------------------------
(* format.rs *)

\* Mutant: only a terminal step ends the attempts.
ClaimEventLiteral(class, index) ==
  IF class \in Claims!SuccessEquivalent
  THEN [kind |-> "ClaimSucceeded", alreadySaved |-> class = "AlreadySaved"]
  ELSE [kind |-> "ClaimFailed", terminal |-> Claims!NextStep(class, index) = "Terminal"]

\* ClaimService::build_event for the attempt number index.
ClaimEvent(class, index) ==
  IF class \in Claims!SuccessEquivalent
  THEN [kind |-> "ClaimSucceeded", alreadySaved |-> class = "AlreadySaved"]
  ELSE [kind |-> "ClaimFailed",
        terminal |-> Claims!NextStep(class, index) \in {"Terminal", "ReviewRequired"}]

SessionEvent(to) == [kind |-> "SessionStateChanged", to |-> to]

\* Mutant: only an expired login renders as one.
SessionCategoryLiteral(s) ==
  CASE s = "VerificationRequired" -> "VerificationRequired"
    [] s \in {"Expired", "LoginRequired"} -> "SessionExpired"
    [] OTHER -> "SessionState"

SessionCategory(s) ==
  CASE s = "VerificationRequired" -> "VerificationRequired"
    [] s \in {"Expired", "LoginRequired", "Disabled"} -> "SessionExpired"
    [] OTHER -> "SessionState"

CategoryFor(e) ==
  CASE e.kind = "ClaimSucceeded" -> "ClaimSuccess"
    [] e.kind = "ClaimFailed" -> "ClaimFailure"
    [] e.kind = "SessionStateChanged" -> SessionCategory(e.to)

IsAlert(category) == category \in {"ClaimFailure", "SessionExpired", "VerificationRequired"}

\* The statements of the rendered message.
Render(e) ==
  CASE e.kind = "ClaimSucceeded" -> {IF e.alreadySaved THEN "WasSaved" ELSE "Saved"}
    [] e.kind = "ClaimFailed" -> {IF e.terminal THEN "NoFurtherAttempts" ELSE "WillRetry"}
    [] CategoryFor(e) = "VerificationRequired" -> {"ClaimingPaused", "CompleteVerification"}
    [] CategoryFor(e) = "SessionExpired" -> {"ClaimingPaused", "LogInAgain"}
    [] OTHER -> {}

\* Mutant: the amount is shown first.
DiscountLineByAmount(v) ==
  CASE Stated(v.amount)  -> [kind |-> "Amount", amount |-> v.amount]
    [] Stated(v.percent) -> [kind |-> "Percent", percent |-> v.percent, max |-> v.cap]
    [] v.discount = "FreeShipping" -> [kind |-> "FreeShipping"]
    [] OTHER -> [kind |-> "Nothing"]

\* discount_line of the voucher block, and its window line.
DiscountLine(v) ==
  CASE Stated(v.percent) -> [kind |-> "Percent", percent |-> v.percent, max |-> v.cap]
    [] Stated(v.amount) /\ ~Stated(v.percent) -> [kind |-> "Amount", amount |-> v.amount]
    [] ~Stated(v.amount) /\ ~Stated(v.percent) /\ v.discount = "FreeShipping" -> [kind |-> "FreeShipping"]
    [] OTHER -> [kind |-> "Nothing"]

-----------------------------------------------------------------------------
(* alerts.rs: an input is [collectorAge, claimAtRisk, lag, database,        *)
(* unknowns, failures, restarts], thresholds likewise.                      *)

AlertKind ==
  {"NoCollectorRun", "SessionUnhealthyNearClaim", "SchedulerLagHigh", "DatabaseUnavailable",
   "RepeatedUnknownResponses", "NotifierDeliveryFailing", "ProcessRestartLoop"}

Raised(i) ==
  (IF ~Stated(i.collectorAge) \/ i.collectorAge > Thresholds.collectorStale THEN {"NoCollectorRun"} ELSE {})
    \union (IF i.claimAtRisk THEN {"SessionUnhealthyNearClaim"} ELSE {})
    \union (IF Stated(i.lag) /\ i.lag > Thresholds.lag THEN {"SchedulerLagHigh"} ELSE {})
    \union (IF ~i.database THEN {"DatabaseUnavailable"} ELSE {})
    \union (IF i.unknowns >= Thresholds.unknowns THEN {"RepeatedUnknownResponses"} ELSE {})
    \union (IF i.failures >= Thresholds.failures THEN {"NotifierDeliveryFailing"} ELSE {})
    \union (IF i.restarts >= Thresholds.restarts THEN {"ProcessRestartLoop"} ELSE {})

PastCooldown(last, kind, now) ==
  kind \in DOMAIN last => now - last[kind] >= Thresholds.cooldown

Firing(last, round) == {k \in Raised(round.inputs) : PastCooldown(last, k, round.at)}

\* Mutant: the cooldown starts over while the condition lasts.
LastFiredRestarting(last, round) ==
  LET raised == Raised(round.inputs)
  IN [k \in raised \union DOMAIN last |-> IF k \in raised THEN round.at ELSE last[k]]

\* Mutant: a condition that has cleared starts anew.
LastFiredForgetting(last, round) ==
  [k \in Raised(round.inputs) |-> IF k \in Firing(last, round) THEN round.at ELSE last[k]]

LastFired(last, round) ==
  LET firing == Firing(last, round)
  IN [k \in firing \union DOMAIN last |-> IF k \in firing THEN round.at ELSE last[k]]

-----------------------------------------------------------------------------
AboutAlerts == question.about = "alerts"

AskSend == \E rs \in [1..MaxSends -> Replies] : question' = [about |-> "send", replies |-> rs]

AskMessage ==
  \/ \E s \in SessionState : question' = [about |-> "sessionMessage", to |-> s]
  \/ \E class \in Claims!ResultClass, index \in 0..(ClaimBudget - 1) :
       question' = [about |-> "claimMessage", class |-> class, index |-> index]
  \/ \E v \in ShownVouchers, spend \in 0..8 :
       question' = [about |-> "voucherMessage", v |-> v, spend |-> spend]

\* A new evaluator: last is its last_fired, log what each call returned.
AskAlerts ==
  question' = [about |-> "alerts", rounds |-> << >>, last |-> [k \in {} |-> 0], log |-> << >>]

\* AlertEvaluator::evaluate, called again.
EvaluateAlerts ==
  /\ AboutAlerts /\ Len(question.rounds) < MaxRounds
  /\ \E at \in AlertTimes, inputs \in Inputs :
       LET round == [at |-> at, inputs |-> inputs]
       IN question' = [about  |-> "alerts",
                       rounds |-> Append(question.rounds, round),
                       last   |-> LastFired(question.last, round),
                       log    |-> Append(question.log, Firing(question.last, round))]

-----------------------------------------------------------------------------
AboutSend == question.about = "send"

\* Of the requests of one send, the API answers at most one with a success
\* status that could be read: a message it has taken is not sent again, even
\* when the envelope makes no sense (telegram.rs:222).
TakenIsNotSentAgain ==
  AboutSend =>
    LET rs == question.replies
    IN Cardinality({i \in 1..Send(rs).requests : rs[i].status \in 200..299}) <= 1

\* A send comes back to a platform that asked for a pause no earlier than it
\* asked, or than the longest pause a send honours, and holds the worker for no
\* more than that pause per retry (telegram.rs:34).
CooldownIsKept ==
  AboutSend =>
    LET waits == Send(question.replies).waits
    IN \A i \in DOMAIN waits :
         /\ waits[i] <= Max2(MaxHonoured, MaxDelay)
         /\ Stated(RetryAfter(question.replies[i])) =>
              waits[i] >= Min2(1000 * RetryAfter(question.replies[i]), MaxHonoured)

\* The message of a session change says that claiming is paused, and is an
\* alert, for exactly the states in which the claimer refuses for good, and
\* asks the owner to act in each that waits for the owner (format.rs:122).
PauseIsSaid ==
  question.about = "sessionMessage" =>
    LET e == SessionEvent(question.to)
    IN /\ "ClaimingPaused" \in Render(e) <=> BlocksClaims(question.to)
       /\ IsAlert(CategoryFor(e)) <=> BlocksClaims(question.to)
       /\ NeedsManualAction(question.to) =>
            Render(e) \intersect {"CompleteVerification", "LogInAgain"} # {}

\* A claim that gave the voucher its final status is not announced as one that
\* will be retried, and SAVED and the message of a success go together
\* (service.rs:289, format.rs:217).
FinalStatusIsNotRetried ==
  question.about = "claimMessage" =>
    LET e      == ClaimEvent(question.class, question.index)
        status == Claims!StatusAfter(question.class, Claims!NextStep(question.class, question.index))
    IN /\ status # "Kept" => "WillRetry" \notin Render(e)
       /\ status = "Saved" <=> CategoryFor(e) = "ClaimSuccess"

\* The discount the owner reads is never less than what the planner counts on,
\* and where the owner reads free shipping the planner counts shipping.
ShownDiscountIsCountedOn ==
  question.about = "voucherMessage" =>
    LET line    == DiscountLine(question.v)
        counted == Estimate(question.v, question.spend)
    IN CASE line.kind = "Percent" ->
              /\ counted <= Rounded(question.spend * line.percent, 100)
              /\ Stated(line.max) => counted <= line.max
         [] line.kind = "Amount" -> counted <= line.amount
         [] line.kind = "FreeShipping" -> TargetsShipping(question.v)
         [] OTHER -> TRUE

Rounds == question.rounds
Log    == question.log

\* Two alerts of a kind are a cooldown apart, whether the condition lasted,
\* cleared and came back, or the clock was set back in between.
AlertsAreApart ==
  AboutAlerts =>
    \A i, j \in 1..Len(Rounds) :
      i < j /\ Log[i] \intersect Log[j] # {} => Rounds[j].at - Rounds[i].at >= Thresholds.cooldown

\* A condition that is found raised has been told within the last cooldown,
\* while the clock goes forward: suppression never silences it for longer.
RaisedIsTold ==
  AboutAlerts /\ (\A i, j \in 1..Len(Rounds) : i < j => Rounds[i].at <= Rounds[j].at) =>
    \A j \in 1..Len(Rounds) : \A kind \in Raised(Rounds[j].inputs) :
      \E i \in 1..j : kind \in Log[i] /\ Rounds[j].at - Rounds[i].at < Thresholds.cooldown

-----------------------------------------------------------------------------
(* What the repository says and the program does not do *)

\* notifier/format.rs:221: the claimer will try again within its budget.
RetryIsWithinBudget ==
  question.about = "claimMessage"
    /\ "WillRetry" \in Render(ClaimEvent(question.class, question.index)) =>
      ~Claims!BudgetSpent(question.index + 1)

=============================================================================
