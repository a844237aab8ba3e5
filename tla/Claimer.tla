------------------------------- MODULE Claimer -------------------------------
(***************************************************************************)
(* ClaimService::attempt_claim: any number of callers, each taking the     *)
(* call through its await points one at a time, over one claim_attempts    *)
(* table, one vouchers.status column and one SessionManager.               *)
(*                                                                         *)
(* A call is numbered in the order in which it reads the clock, so call    *)
(* numbers order the started_at column, and since a call inserts at most   *)
(* one row, the row a call inserts is named by the number of the call.     *)
(* pc[c] is the await point call c has reached:                            *)
(*   idle -> fetched -> checked -> counted -> allowed -> gated -> begun    *)
(*        -> answered -> recorded -> applied -> done                       *)
(***************************************************************************)
EXTENDS ClaimRules, FiniteSets

CONSTANTS
  Vouchers,      \* the vouchers stored
  NoVoucher,     \* the target of a call that has not started
  MaxCalls,      \* bound: how many times attempt_claim is called
  MaxInFlight,   \* how many calls the callers overlap; 1 is one worker
  Results,       \* the classifications the executor may answer with
  Probes,        \* the states other parts of the program observe a session in
  Retention      \* whether the retention pass ever removes claim attempts

Calls == 1..MaxCalls

ASSUME ClaimerAssumption ==
  /\ NoVoucher \notin Vouchers
  /\ MaxCalls \in Nat
  /\ MaxInFlight \in Nat \ {0}
  /\ Results \subseteq ResultClass
  /\ Probes \subseteq SessionState
  /\ Retention \in BOOLEAN

VARIABLES
  pc,        \* await point of each call
  target,    \* the voucher of each call
  known,     \* already_succeeded, as the call read it
  used,      \* attempts_used, as the call read it; retry_index of its row
  answer,    \* result_class of the call
  ledger,    \* claim_attempts: "absent", "intent", a result class, or "pruned"
  status,    \* vouchers.status
  session,   \* SessionManager's current state
  sent,      \* history: the calls whose request reached the executor
  before     \* history: for each call, the successes recorded when it started

locals  == <<target, known, used, answer>>
history == <<sent, before>>
vars    == <<pc, locals, ledger, status, session, history>>

PC == { "idle", "fetched", "checked", "counted", "allowed", "gated", "begun",
        "answered", "recorded", "applied", "done" }

LedgerState == ResultClass \union {"absent", "intent", "pruned"}

InFlight == {c \in Calls : pc[c] \notin {"idle", "done"}}

\* The stored attempts of voucher v, completed or not.
Rows(v) == {c \in Calls : target[c] = v /\ ledger[c] \notin {"absent", "pruned"}}

\* The stored attempts of v that has_successful_attempt counts.
Successes(v) == {c \in Rows(v) : ledger[c] \in SuccessEquivalent}

Goto(c, label) == pc' = [pc EXCEPT ![c] = label]

-----------------------------------------------------------------------------

Init ==
  /\ pc = [c \in Calls |-> "idle"]
  /\ target = [c \in Calls |-> NoVoucher]
  /\ known = [c \in Calls |-> FALSE]
  /\ used = [c \in Calls |-> 0]
  /\ answer = [c \in Calls |-> "TransientFailure"]
  /\ ledger = [c \in Calls |-> "absent"]
  /\ status = [v \in Vouchers |-> "Discovered"]
  /\ session = "Unknown"
  /\ sent = {}
  /\ before = [c \in Calls |-> {}]

\* The call reads the clock and fetches the voucher.
Start(c, v) ==
  /\ pc[c] = "idle"
  /\ \A d \in Calls : d < c => pc[d] # "idle"
  /\ Cardinality(InFlight) < MaxInFlight
  /\ Goto(c, "fetched")
  /\ target' = [target EXCEPT ![c] = v]
  /\ before' = [before EXCEPT ![c] = Successes(v)]
  /\ UNCHANGED <<known, used, answer, ledger, status, session, sent>>

CheckSuccess(c) ==
  /\ pc[c] = "fetched"
  /\ Goto(c, "checked")
  /\ known' = [known EXCEPT ![c] = (Successes(target[c]) # {})]
  /\ UNCHANGED <<target, used, answer, ledger, status, session, history>>

\* Mutant: only completed attempts count against the budget.
CountCompleted(c) ==
  /\ pc[c] = "checked"
  /\ Goto(c, "counted")
  /\ used' = [used EXCEPT ![c] =
       Cardinality({d \in Rows(target[c]) : ledger[d] # "intent"})]
  /\ UNCHANGED <<target, known, answer, ledger, status, session, history>>

CountAttempts(c) ==
  /\ pc[c] = "checked"
  /\ Goto(c, "counted")
  /\ used' = [used EXCEPT ![c] = Cardinality(Rows(target[c]))]
  /\ UNCHANGED <<target, known, answer, ledger, status, session, history>>

\* The session is read here, and everything else the policy looks at was read
\* before. What the caller passes and what the voucher row said is chosen here.
Decide(c) ==
  /\ pc[c] = "counted"
  /\ \E excluded, identifiers, belowMinimum \in BOOLEAN, window \in Window :
       LET inputs == [ excluded |-> excluded, succeeded |-> known[c],
                       session |-> session, identifiers |-> identifiers,
                       window |-> window, used |-> used[c],
                       belowMinimum |-> belowMinimum ]
       IN  Goto(c, IF Evaluate(inputs) = "Allow" THEN "allowed" ELSE "done")
  /\ UNCHANGED <<locals, ledger, status, session, history>>

\* The second look at the session, immediately before the attempt is stored.
PassGate(c) ==
  /\ pc[c] = "allowed"
  /\ Goto(c, IF AllowsClaims(session) THEN "gated" ELSE "done")
  /\ UNCHANGED <<locals, ledger, status, session, history>>

\* Mutant: the attempt is not stored before the request goes out.
BeginUnrecorded(c) ==
  /\ pc[c] = "gated"
  /\ Goto(c, "begun")
  /\ UNCHANGED <<locals, ledger, status, session, history>>

BeginAttempt(c) ==
  /\ pc[c] = "gated"
  /\ Goto(c, "begun")
  /\ ledger' = [ledger EXCEPT ![c] = "intent"]
  /\ UNCHANGED <<locals, status, session, history>>

\* The executor sends the request and classifies the answer; its own
\* execution error is classified as a transient failure.
Execute(c) ==
  /\ pc[c] = "begun"
  /\ Goto(c, "answered")
  /\ sent' = sent \union {c}
  /\ \E class \in Results \union {"TransientFailure"} :
       answer' = [answer EXCEPT ![c] = class]
  /\ UNCHANGED <<target, known, used, ledger, status, session, before>>

\* Mutant: the status is written before the attempt is completed.
CompleteLater(c) ==
  /\ pc[c] = "answered"
  /\ Goto(c, "recorded")
  /\ UNCHANGED <<locals, ledger, status, session, history>>

CompleteAttempt(c) ==
  /\ pc[c] = "answered"
  /\ Goto(c, "recorded")
  /\ ledger' = [ledger EXCEPT ![c] = answer[c]]
  /\ UNCHANGED <<locals, status, session, history>>

ApplyStatus(c) ==
  /\ pc[c] = "recorded"
  /\ Goto(c, "applied")
  /\ LET new == StatusAfter(answer[c], NextStep(answer[c], used[c]))
     IN  status' = IF new = "Kept" THEN status
                   ELSE [status EXCEPT ![target[c]] = new]
  /\ UNCHANGED <<locals, ledger, session, history>>

\* A session-affecting answer is reported to the session manager; the call
\* returns its outcome.
Finish(c) ==
  /\ pc[c] = "applied"
  /\ Goto(c, "done")
  /\ session' = IF answer[c] \in PausesSession THEN SessionAfter(answer[c]) ELSE session
  /\ UNCHANGED <<locals, ledger, status, history>>

\* The call ends where it stands: a storage error, an executor error that is
\* not an execution error, or the caller's task dropped at an await point.
Abandon(c) ==
  /\ pc[c] \in PC \ {"idle", "done", "applied"}
  /\ Goto(c, "done")
  /\ UNCHANGED <<locals, ledger, status, session, history>>

\* The process stops and starts again: calls and session state are lost.
Crash ==
  /\ pc' = [c \in Calls |-> IF c \in InFlight THEN "done" ELSE pc[c]]
  /\ session' = "Unknown"
  /\ UNCHANGED <<locals, ledger, status, history>>

\* The session manager observes state s: a probe, the owner, another caller.
ObserveSession(s) ==
  /\ session' = s
  /\ UNCHANGED <<pc, locals, ledger, status, history>>

\* The retention pass removes the attempts up to call k, all of them older
\* than the retention period and so long returned.
Prune(k) ==
  /\ Retention
  /\ \A d \in 1..k : pc[d] = "done"
  /\ ledger' = [d \in Calls |-> IF d <= k /\ ledger[d] # "absent" THEN "pruned"
                                ELSE ledger[d]]
  /\ UNCHANGED <<pc, locals, status, session, history>>

Step(c) ==
  \/ CheckSuccess(c) \/ CountAttempts(c) \/ Decide(c) \/ PassGate(c)
  \/ BeginAttempt(c) \/ Execute(c) \/ CompleteAttempt(c) \/ ApplyStatus(c)
  \/ Finish(c)

Next ==
  \/ \E c \in Calls : (\E v \in Vouchers : Start(c, v)) \/ Step(c) \/ Abandon(c)
  \/ Crash
  \/ \E s \in Probes : ObserveSession(s)
  \/ \E k \in Calls : Prune(k)

Spec == Init /\ [][Next]_vars

-----------------------------------------------------------------------------
(* Properties *)

\* Every variable holds a value of its type.
TypeOK ==
  /\ pc \in [Calls -> PC]
  /\ target \in [Calls -> Vouchers \union {NoVoucher}]
  /\ known \in [Calls -> BOOLEAN]
  /\ used \in [Calls -> Nat]
  /\ answer \in [Calls -> ResultClass]
  /\ ledger \in [Calls -> LedgerState]
  /\ status \in [Vouchers -> VoucherStatus]
  /\ session \in SessionState
  /\ sent \in SUBSET Calls
  /\ before \in [Calls -> SUBSET Calls]

\* "Durable attempt intent before sending": whatever crashes, errors and
\* cancellations happen around the request, no request was ever sent that the
\* claim_attempts table does not hold (or held until retention removed it).
EveryRequestRecorded == \A c \in sent : ledger[c] # "absent"

\* A call that starts when a success is on record for its voucher sends
\* nothing, unless retention has since removed the record.
NoRequestAfterRecordedSuccess ==
  \A c \in sent : \A d \in before[c] : ledger[d] = "pruned"

\* The number of stored attempts of a voucher overshoots the retry budget by
\* at most the number of other calls in flight: read-then-insert races cost one
\* attempt per racing caller and no more, whatever crashes in between.
BoundedOvershoot ==
  \A v \in Vouchers : Cardinality(Rows(v)) <= MaxAttempts + MaxInFlight - 1

\* A status that the claimer wrote is backed by an attempt whose recorded
\* result asks for that status: status never runs ahead of the attempt trail.
StatusHasEvidence ==
  \A v \in Vouchers : status[v] # "Discovered" =>
    \E c \in Calls :
      /\ target[c] = v
      /\ \/ ledger[c] = "pruned"
         \/ /\ ledger[c] \in ResultClass
            /\ StatusAfter(ledger[c], NextStep(ledger[c], used[c])) = status[v]

\* A voucher is parked for review only when the diagnostic budget has really
\* been spent: the trail holds that many attempts.
ReviewNeedsTrail ==
  \A v \in Vouchers :
    (status[v] = "ReviewRequired" /\ \A c \in Calls : ledger[c] # "pruned")
      => Cardinality(Rows(v)) >= DiagnosticBudget

\* One caller at a time: the attempts of a voucher carry the retry indices
\* 0, 1, 2, ... without a gap or a repetition, across crashes and errors.
GaplessTrail ==
  \A v \in Vouchers : {used[c] : c \in Rows(v)} = 0..(Cardinality(Rows(v)) - 1)

\* One caller at a time, attempts never pruned: a voucher stays Saved, and is
\* not claimed again (idempotency.rs:169).
SavedIsFinal ==
  /\ [][\A v \in Vouchers : status[v] = "Saved" => status'[v] = "Saved"]_status
  /\ [][\A c \in sent' \ sent : status[target[c]] # "Saved"]_sent

-----------------------------------------------------------------------------
(* What the repository says of the program and the program does not do *)

\* Tests: the retry budget caps the requests at max_attempts.
BudgetIsACap == \A v \in Vouchers : Cardinality(Rows(v)) <= MaxAttempts

=============================================================================
