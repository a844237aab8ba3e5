---------------------------- MODULE ClaimerProofs ----------------------------
(***************************************************************************)
(* Theorems of Claimer, for any set of vouchers, any number of calls, any  *)
(* overlap, with crashes, abandoned calls and retention.                   *)
(***************************************************************************)
EXTENDS Claimer, FiniteSetTheorems, TLAPS

USE DEF Calls

-----------------------------------------------------------------------------
(* The operators of ClaimRules return what they should *)

LEMMA StatusAfterType ==
  ASSUME NEW class \in ResultClass, NEW step
  PROVE  StatusAfter(class, step) \in VoucherStatus \union {"Kept"}
BY DEF StatusAfter, VoucherStatus, SuccessEquivalent

LEMMA SessionAfterType ==
  ASSUME NEW class
  PROVE  SessionAfter(class) \in SessionState
BY DEF SessionAfter, SessionState

\* The policy allows a claim only if none is on record, the session is
\* positively healthy and the budget is not spent.
LEMMA AllowImplies ==
  ASSUME NEW inputs, Evaluate(inputs) = "Allow"
  PROVE  /\ ~inputs.succeeded
         /\ AllowsClaims(inputs.session)
         /\ ~BudgetSpent(inputs.used)
BY DEF Evaluate, Refused

-----------------------------------------------------------------------------
(* Type correctness *)

LEMMA RowsFinite ==
  ASSUME NEW v
  PROVE  /\ IsFiniteSet(Calls)
         /\ IsFiniteSet(Rows(v)) /\ Cardinality(Rows(v)) \in Nat
<1>1. IsFiniteSet(Calls)
  BY ClaimerAssumption, FS_Interval
<1>2. Rows(v) \in SUBSET Calls
  BY DEF Rows
<1> QED BY <1>1, <1>2, FS_Subset, FS_CardinalityType

\* Every reachable state is well typed.
THEOREM TypeCorrect == Spec => []TypeOK
<1>1. Init => TypeOK
  BY ClaimerAssumption
     DEF Init, TypeOK, PC, ResultClass, LedgerState, VoucherStatus, SessionState
<1>2. TypeOK /\ [Next]_vars => TypeOK'
  <2> SUFFICES ASSUME TypeOK, [Next]_vars PROVE TypeOK'
    OBVIOUS
  <2> USE DEF TypeOK, Goto, locals, history
  <2>1. ASSUME NEW c \in Calls, NEW v \in Vouchers, Start(c, v) PROVE TypeOK'
    BY <2>1 DEF Start, PC, Successes, Rows
  <2>2. ASSUME NEW c \in Calls, CheckSuccess(c) PROVE TypeOK'
    BY <2>2 DEF CheckSuccess, PC
  <2>3. ASSUME NEW c \in Calls, CountAttempts(c) PROVE TypeOK'
    <3>1. Cardinality(Rows(target[c])) \in Nat
      BY RowsFinite
    <3> QED BY <2>3, <3>1 DEF CountAttempts, PC
  <2>4. ASSUME NEW c \in Calls, Decide(c) PROVE TypeOK'
    BY <2>4 DEF Decide, PC
  <2>5. ASSUME NEW c \in Calls, PassGate(c) PROVE TypeOK'
    BY <2>5 DEF PassGate, PC
  <2>6. ASSUME NEW c \in Calls, BeginAttempt(c) PROVE TypeOK'
    BY <2>6 DEF BeginAttempt, PC, LedgerState
  <2>7. ASSUME NEW c \in Calls, Execute(c) PROVE TypeOK'
    BY <2>7, ClaimerAssumption DEF Execute, PC, ResultClass
  <2>8. ASSUME NEW c \in Calls, CompleteAttempt(c) PROVE TypeOK'
    BY <2>8 DEF CompleteAttempt, PC, LedgerState
  <2>9. ASSUME NEW c \in Calls, ApplyStatus(c) PROVE TypeOK'
    BY <2>9, StatusAfterType DEF ApplyStatus, PC
  <2>10. ASSUME NEW c \in Calls, Finish(c) PROVE TypeOK'
    BY <2>10, SessionAfterType DEF Finish, PC
  <2>11. ASSUME NEW c \in Calls, Abandon(c) PROVE TypeOK'
    BY <2>11 DEF Abandon, PC
  <2>12. CASE Crash
    BY <2>12 DEF Crash, PC, SessionState
  <2>13. ASSUME NEW s \in Probes, ObserveSession(s) PROVE TypeOK'
    BY <2>13, ClaimerAssumption DEF ObserveSession
  <2>14. ASSUME NEW k \in Calls, Prune(k) PROVE TypeOK'
    BY <2>14 DEF Prune, LedgerState
  <2>15. CASE UNCHANGED vars
    BY <2>15 DEF vars
  <2> QED
    BY <2>1, <2>2, <2>3, <2>4, <2>5, <2>6, <2>7, <2>8, <2>9, <2>10, <2>11,
       <2>12, <2>13, <2>14, <2>15 DEF Next, Step
<1> QED BY <1>1, <1>2, PTL DEF Spec

-----------------------------------------------------------------------------
(* The trail: what a call's row says at each await point *)

Early == {"idle", "fetched", "checked", "counted", "allowed", "gated"}

\* The inductive strengthening of EveryRequestRecorded: before begin_attempt a
\* call has neither row nor request, then its row is an intent, then its result.
Trail ==
  \A c \in Calls :
    /\ pc[c] \in Early => ledger[c] = "absent" /\ c \notin sent
    /\ pc[c] \in {"begun", "answered"} => ledger[c] = "intent"
    /\ pc[c] \in {"recorded", "applied"} => ledger[c] = answer[c]
    /\ c \in sent => ledger[c] # "absent"

THEOREM TrailInvariant == Spec => []Trail
<1>1. Init => Trail
  BY DEF Init, Trail
<1>2. TypeOK /\ Trail /\ [Next]_vars => Trail'
  <2> SUFFICES ASSUME TypeOK, Trail, [Next]_vars,
                      NEW d \in Calls
               PROVE  /\ pc'[d] \in Early => ledger'[d] = "absent" /\ d \notin sent'
                      /\ pc'[d] \in {"begun", "answered"} => ledger'[d] = "intent"
                      /\ pc'[d] \in {"recorded", "applied"} => ledger'[d] = answer'[d]
                      /\ d \in sent' => ledger'[d] # "absent"
    BY DEF Trail
  <2> DEFINE Goal == /\ pc'[d] \in Early => ledger'[d] = "absent" /\ d \notin sent'
                     /\ pc'[d] \in {"begun", "answered"} => ledger'[d] = "intent"
                     /\ pc'[d] \in {"recorded", "applied"} => ledger'[d] = answer'[d]
                     /\ d \in sent' => ledger'[d] # "absent"
  <2> SUFFICES Goal
    OBVIOUS
  <2> USE DEF TypeOK, Trail, Early, Goto, locals, history
  <2>1. ASSUME NEW c \in Calls, NEW v \in Vouchers, Start(c, v) PROVE Goal
    BY <2>1 DEF Start
  <2>2. ASSUME NEW c \in Calls, CheckSuccess(c) \/ CountAttempts(c) PROVE Goal
    BY <2>2 DEF CheckSuccess, CountAttempts
  <2>3. ASSUME NEW c \in Calls, Decide(c) \/ PassGate(c) PROVE Goal
    BY <2>3 DEF Decide, PassGate
  <2>4. ASSUME NEW c \in Calls, BeginAttempt(c) PROVE Goal
    BY <2>4 DEF BeginAttempt
  <2>5. ASSUME NEW c \in Calls, Execute(c) PROVE Goal
    BY <2>5 DEF Execute
  <2>6. ASSUME NEW c \in Calls, CompleteAttempt(c) PROVE Goal
    <3>1. answer[c] # "absent"
      BY DEF ResultClass
    <3> QED BY <2>6, <3>1 DEF CompleteAttempt
  <2>7. ASSUME NEW c \in Calls, ApplyStatus(c) \/ Finish(c) \/ Abandon(c) PROVE Goal
    BY <2>7 DEF ApplyStatus, Finish, Abandon
  <2>8. CASE Crash
    BY <2>8 DEF Crash, InFlight
  <2>9. ASSUME NEW s \in Probes, ObserveSession(s) PROVE Goal
    BY <2>9 DEF ObserveSession
  <2>10. ASSUME NEW k \in Calls, Prune(k) PROVE Goal
    BY <2>10 DEF Prune
  <2>11. CASE UNCHANGED vars
    BY <2>11 DEF vars
  <2> QED
    BY <2>1, <2>2, <2>3, <2>4, <2>5, <2>6, <2>7, <2>8, <2>9, <2>10, <2>11
    DEF Next, Step
<1> QED BY <1>1, <1>2, TypeCorrect, PTL DEF Spec

\* No request is ever sent without a durable attempt: EveryRequestRecorded
\* holds for any number of overlapping calls, crashes and abandoned calls.
THEOREM RequestsAreRecorded == Spec => []EveryRequestRecorded
<1>1. TypeOK /\ Trail => EveryRequestRecorded
  BY DEF Trail, EveryRequestRecorded, TypeOK
<1> QED BY <1>1, TrailInvariant, TypeCorrect, PTL

-----------------------------------------------------------------------------
(* Nothing is sent after a success on record *)

\* The call is past the idempotency check, which found no success.
Unsuccessful(c) ==
  \/ pc[c] \in {"checked", "counted"} /\ ~known[c]
  \/ pc[c] \in {"allowed", "gated", "begun", "answered", "recorded", "applied"}
  \/ c \in sent

\* The successes a call found on record at its start are rows of its voucher
\* and stay successes until pruned; past the check they can only be pruned.
NoStaleSuccess ==
  \A c \in Calls :
    /\ \A d \in before[c] :
         target[d] = target[c] /\ ledger[d] \in SuccessEquivalent \union {"pruned"}
    /\ Unsuccessful(c) => \A d \in before[c] : ledger[d] = "pruned"

THEOREM NoStaleSuccessInvariant == Spec => []NoStaleSuccess
<1>1. Init => NoStaleSuccess
  BY DEF Init, NoStaleSuccess
<1>2. TypeOK /\ Trail /\ NoStaleSuccess /\ [Next]_vars => NoStaleSuccess'
  <2> SUFFICES ASSUME TypeOK, Trail, NoStaleSuccess, [Next]_vars
               PROVE  NoStaleSuccess'
    OBVIOUS
  <2> USE DEF TypeOK, NoStaleSuccess, Unsuccessful, Goto, locals, history
  <2>1. ASSUME NEW c \in Calls, NEW v \in Vouchers, Start(c, v) PROVE NoStaleSuccess'
    <3>1. ledger[c] = "absent" /\ c \notin sent
      BY <2>1 DEF Start, Trail, Early
    <3>2. \A d \in Calls : c \notin before[d]
      BY <3>1 DEF SuccessEquivalent
    <3>3. \A d \in Successes(v) : d # c /\ target[d] = v /\ ledger[d] \in SuccessEquivalent
      BY <3>1 DEF Successes, Rows
    <3>4. Successes(v) \subseteq Calls
      BY DEF Successes, Rows
    <3> QED BY <2>1, <3>1, <3>2, <3>3, <3>4 DEF Start
  <2>2. ASSUME NEW c \in Calls, CheckSuccess(c) PROVE NoStaleSuccess'
    <3>1. ~known'[c] => \A d \in before[c] : ledger[d] = "pruned"
      BY <2>2 DEF CheckSuccess, Successes, Rows, SuccessEquivalent
    <3> QED BY <2>2, <3>1 DEF CheckSuccess
  <2>3. ASSUME NEW c \in Calls, CountAttempts(c) PROVE NoStaleSuccess'
    BY <2>3 DEF CountAttempts
  <2>4. ASSUME NEW c \in Calls, Decide(c) PROVE NoStaleSuccess'
    <3>1. pc'[c] = "allowed" => ~known[c]
      BY <2>4, AllowImplies DEF Decide
    <3>2. pc'[c] \in {"allowed", "done"}
      BY <2>4 DEF Decide
    <3> QED BY <2>4, <3>1, <3>2 DEF Decide
  <2>5. ASSUME NEW c \in Calls, PassGate(c) PROVE NoStaleSuccess'
    BY <2>5 DEF PassGate
  <2>6. ASSUME NEW c \in Calls, BeginAttempt(c) PROVE NoStaleSuccess'
    <3>1. ledger[c] = "absent"
      BY <2>6 DEF BeginAttempt, Trail, Early
    <3>2. \A d \in Calls : c \notin before[d]
      BY <3>1 DEF SuccessEquivalent
    <3> QED BY <2>6, <3>2 DEF BeginAttempt
  <2>7. ASSUME NEW c \in Calls, Execute(c) PROVE NoStaleSuccess'
    BY <2>7 DEF Execute
  <2>8. ASSUME NEW c \in Calls, CompleteAttempt(c) PROVE NoStaleSuccess'
    <3>1. ledger[c] = "intent"
      BY <2>8 DEF CompleteAttempt, Trail
    <3>2. \A d \in Calls : c \notin before[d]
      BY <3>1 DEF SuccessEquivalent
    <3> QED BY <2>8, <3>2 DEF CompleteAttempt
  <2>9. ASSUME NEW c \in Calls, ApplyStatus(c) \/ Finish(c) \/ Abandon(c)
        PROVE NoStaleSuccess'
    <3>1. CASE ApplyStatus(c)
      BY <3>1 DEF ApplyStatus
    <3>2. CASE Finish(c)
      BY <3>2 DEF Finish
    <3>3. CASE Abandon(c)
      BY <3>3 DEF Abandon
    <3> QED BY <2>9, <3>1, <3>2, <3>3
  <2>10. CASE Crash
    BY <2>10 DEF Crash
  <2>11. ASSUME NEW s \in Probes, ObserveSession(s) PROVE NoStaleSuccess'
    BY <2>11 DEF ObserveSession
  <2>12. ASSUME NEW k \in Calls, Prune(k) PROVE NoStaleSuccess'
    <3>1. \A d \in Calls : /\ ledger[d] \in SuccessEquivalent \union {"pruned"}
                              => ledger'[d] \in SuccessEquivalent \union {"pruned"}
                          /\ ledger[d] = "pruned" => ledger'[d] = "pruned"
      BY <2>12 DEF Prune
    <3>2. \A d \in Calls : before[d] \subseteq Calls
      OBVIOUS
    <3> QED BY <2>12, <3>1, <3>2 DEF Prune
  <2>13. CASE UNCHANGED vars
    BY <2>13 DEF vars
  <2> QED
    BY <2>1, <2>2, <2>3, <2>4, <2>5, <2>6, <2>7, <2>8, <2>9, <2>10, <2>11,
       <2>12, <2>13 DEF Next, Step
<1> QED BY <1>1, <1>2, TypeCorrect, TrailInvariant, PTL DEF Spec

\* A call that starts when a success is on record sends nothing, unless
\* retention removed the record: the idempotency guard of attempt_claim.
THEOREM SuccessIsNotRepeated == Spec => []NoRequestAfterRecordedSuccess
<1>1. TypeOK /\ NoStaleSuccess => NoRequestAfterRecordedSuccess
  BY DEF TypeOK, NoStaleSuccess, Unsuccessful, NoRequestAfterRecordedSuccess
<1> QED BY <1>1, NoStaleSuccessInvariant, TypeCorrect, PTL

-----------------------------------------------------------------------------
(* The status column follows the trail *)

\* Row c is evidence for status st: it is gone, or its result asks for st.
Evidence(c, st) ==
  \/ ledger[c] = "pruned"
  \/ /\ ledger[c] \in ResultClass
     /\ StatusAfter(ledger[c], NextStep(ledger[c], used[c])) = st

\* A step that leaves the statuses alone and every row that may serve as
\* evidence (a completed or pruned one) keeps StatusHasEvidence.
LEMMA EvidenceKept ==
  ASSUME StatusHasEvidence, status' = status,
         \A c \in Calls : ledger[c] \in ResultClass \union {"pruned"} =>
            /\ target'[c] = target[c] /\ used'[c] = used[c]
            /\ ledger'[c] \in {ledger[c], "pruned"}
  PROVE  StatusHasEvidence'
BY DEF StatusHasEvidence

\* Status never runs ahead of the attempt trail.
THEOREM StatusFollowsTrail == Spec => []StatusHasEvidence
<1>1. Init => StatusHasEvidence
  BY DEF Init, StatusHasEvidence
<1>2. TypeOK /\ Trail /\ StatusHasEvidence /\ [Next]_vars => StatusHasEvidence'
  <2> SUFFICES ASSUME TypeOK, Trail, StatusHasEvidence, [Next]_vars
               PROVE  StatusHasEvidence'
    OBVIOUS
  <2> USE DEF TypeOK, Goto, locals, history
  <2> DEFINE Frame == /\ status' = status
                      /\ \A c \in Calls : ledger[c] \in ResultClass \union {"pruned"} =>
                           /\ target'[c] = target[c] /\ used'[c] = used[c]
                           /\ ledger'[c] \in {ledger[c], "pruned"}
  <2>0. "absent" \notin ResultClass /\ "intent" \notin ResultClass
    BY DEF ResultClass
  <2>1. ASSUME NEW c \in Calls, NEW v \in Vouchers, Start(c, v) PROVE Frame
    BY <2>0, <2>1 DEF Start, Trail, Early
  <2>2. ASSUME NEW c \in Calls, CheckSuccess(c) \/ Decide(c) \/ PassGate(c)
                                \/ Execute(c) \/ Finish(c) \/ Abandon(c)
        PROVE Frame
    BY <2>2 DEF CheckSuccess, Decide, PassGate, Execute, Finish, Abandon
  <2>3. ASSUME NEW c \in Calls, CountAttempts(c) PROVE Frame
    BY <2>0, <2>3 DEF CountAttempts, Trail, Early
  <2>4. ASSUME NEW c \in Calls, BeginAttempt(c) PROVE Frame
    BY <2>0, <2>4 DEF BeginAttempt, Trail, Early
  <2>5. ASSUME NEW c \in Calls, CompleteAttempt(c) PROVE Frame
    BY <2>0, <2>5 DEF CompleteAttempt, Trail
  <2>6. ASSUME NEW c \in Calls, ApplyStatus(c) PROVE StatusHasEvidence'
    <3>1. ledger[c] = answer[c] /\ answer[c] \in ResultClass
      BY <2>6 DEF ApplyStatus, Trail
    <3>2. ASSUME NEW v \in Vouchers, status'[v] # "Discovered"
          PROVE  \E d \in Calls : target'[d] = v /\ Evidence(d, status[v])'
      <4>1. CASE status'[v] = status[v]
        <5>1. PICK d \in Calls : target[d] = v /\ Evidence(d, status[v])
          BY <3>2, <4>1 DEF StatusHasEvidence, Evidence
        <5> QED BY <2>6, <4>1, <5>1 DEF ApplyStatus, Evidence
      <4>2. CASE status'[v] # status[v]
        <5>1. target[c] = v
              /\ status'[v] = StatusAfter(answer[c], NextStep(answer[c], used[c]))
          BY <2>6, <4>2 DEF ApplyStatus
        <5> QED BY <2>6, <3>1, <5>1 DEF ApplyStatus, Evidence
      <4> QED BY <4>1, <4>2
    <3> QED BY <3>2 DEF StatusHasEvidence, Evidence
  <2>7. CASE Crash
    BY <2>7 DEF Crash, StatusHasEvidence
  <2>8. ASSUME NEW s \in Probes, ObserveSession(s) PROVE Frame
    BY <2>8 DEF ObserveSession
  <2>9. ASSUME NEW k \in Calls, Prune(k) PROVE Frame
    BY <2>9 DEF Prune
  <2>10. CASE UNCHANGED vars
    BY <2>10 DEF vars, StatusHasEvidence
  <2>11. Frame => StatusHasEvidence'
    BY EvidenceKept
  <2> QED
    BY <2>1, <2>2, <2>3, <2>4, <2>5, <2>6, <2>7, <2>8, <2>9, <2>10, <2>11
    DEF Next, Step
<1> QED BY <1>1, <1>2, TypeCorrect, TrailInvariant, PTL DEF Spec

-----------------------------------------------------------------------------
(* The retry budget *)

\* The calls that have counted the attempts of v, found some budget left, and
\* have not stored an attempt of their own.
Poised(v) ==
  {c \in Calls :
    /\ target[c] = v
    /\ \/ pc[c] = "counted" /\ used[c] < MaxAttempts
       \/ pc[c] \in {"allowed", "gated"}}

\* The inductive strengthening of BoundedOvershoot: rows and calls about to
\* insert one are counted together, since a call that counts with budget left
\* sees at most MaxAttempts - 1 rows and finds at most MaxInFlight calls poised.
Budget ==
  /\ Cardinality(InFlight) <= MaxInFlight
  /\ \A v \in Vouchers :
       Cardinality(Rows(v)) + Cardinality(Poised(v)) <= MaxAttempts + MaxInFlight - 1

LEMMA CallSetsFinite ==
  /\ \A S \in SUBSET Calls : IsFiniteSet(S) /\ Cardinality(S) \in Nat
  /\ \A S, T \in SUBSET Calls : S \subseteq T => Cardinality(S) <= Cardinality(T)
<1>1. IsFiniteSet(Calls)
  BY RowsFinite
<1>2. ASSUME NEW S \in SUBSET Calls PROVE IsFiniteSet(S) /\ Cardinality(S) \in Nat
  BY <1>1, FS_Subset, FS_CardinalityType
<1>3. ASSUME NEW S \in SUBSET Calls, NEW T \in SUBSET Calls, S \subseteq T
      PROVE  Cardinality(S) <= Cardinality(T)
  BY <1>2, <1>3, FS_Subset
<1> QED BY <1>2, <1>3

LEMMA BudgetSets ==
  /\ InFlight \in SUBSET Calls
  /\ \A v : Rows(v) \in SUBSET Calls /\ Poised(v) \in SUBSET InFlight
BY DEF InFlight, Rows, Poised

\* The same one step later.
LEMMA BudgetSetsNext ==
  /\ InFlight' \in SUBSET Calls
  /\ \A v : Rows(v)' \in SUBSET Calls /\ Poised(v)' \in SUBSET InFlight'
BY DEF InFlight, Rows, Poised

\* A step that adds no call in flight, no row and no poised call keeps Budget.
LEMMA BudgetKept ==
  ASSUME Budget, InFlight' \subseteq InFlight,
         \A v \in Vouchers : Rows(v)' \subseteq Rows(v) /\ Poised(v)' \subseteq Poised(v)
  PROVE  Budget'
<1>1. Cardinality(InFlight') <= Cardinality(InFlight)
  BY BudgetSets, BudgetSetsNext, CallSetsFinite
<1>2. Cardinality(InFlight') \in Nat /\ Cardinality(InFlight) \in Nat
  BY BudgetSets, BudgetSetsNext, CallSetsFinite
<1>3. ASSUME NEW v \in Vouchers
      PROVE  /\ Cardinality(Rows(v)') <= Cardinality(Rows(v))
             /\ Cardinality(Poised(v)') <= Cardinality(Poised(v))
             /\ Cardinality(Rows(v)') \in Nat /\ Cardinality(Rows(v)) \in Nat
             /\ Cardinality(Poised(v)') \in Nat /\ Cardinality(Poised(v)) \in Nat
  <2>1. Poised(v) \in SUBSET Calls /\ Poised(v)' \in SUBSET Calls
        /\ Rows(v) \in SUBSET Calls /\ Rows(v)' \in SUBSET Calls
    BY BudgetSets, BudgetSetsNext
  <2> QED BY <2>1, CallSetsFinite
<1>4. MaxAttempts \in Nat /\ MaxInFlight \in Nat
  BY RulesAssumption, ClaimerAssumption
<1> QED BY <1>1, <1>2, <1>3, <1>4 DEF Budget

THEOREM BudgetInvariant == Spec => []Budget
<1> USE RulesAssumption, ClaimerAssumption
<1>1. Init => Budget
  <2> SUFFICES ASSUME Init PROVE Budget
    OBVIOUS
  <2>1. InFlight = {} /\ \A v : Rows(v) = {} /\ Poised(v) = {}
    BY DEF Init, InFlight, Rows, Poised
  <2>2. Cardinality({}) = 0
    BY FS_EmptySet
  <2>3. Cardinality(InFlight) = 0
    BY <2>1, <2>2
  <2>4. \A v : Cardinality(Rows(v)) = 0 /\ Cardinality(Poised(v)) = 0
    BY <2>1, <2>2
  <2> QED BY <2>3, <2>4 DEF Budget
<1>2. TypeOK /\ Trail /\ Budget /\ [Next]_vars => Budget'
  <2> SUFFICES ASSUME TypeOK, Trail, Budget, [Next]_vars
               PROVE  Budget'
    OBVIOUS
  <2> USE DEF TypeOK, Goto, locals, history
  <2> DEFINE Frame == /\ InFlight' \subseteq InFlight
                      /\ \A v \in Vouchers : /\ Rows(v)' \subseteq Rows(v)
                                              /\ Poised(v)' \subseteq Poised(v)
  <2>1. ASSUME NEW c \in Calls, NEW v \in Vouchers, Start(c, v) PROVE Budget'
    <3>1. InFlight' = InFlight \union {c} /\ c \notin InFlight
      BY <2>1 DEF Start, InFlight
    <3>2. ledger[c] = "absent"
      BY <2>1 DEF Start, Trail, Early
    <3>3. \A w \in Vouchers : Rows(w)' = Rows(w) /\ Poised(w)' = Poised(w)
      BY <2>1, <3>2 DEF Start, Rows, Poised
    <3>4. Cardinality(InFlight') = Cardinality(InFlight) + 1
      <4>1. IsFiniteSet(InFlight)
        BY BudgetSets, CallSetsFinite
      <4>2. Cardinality(InFlight \union {c}) = Cardinality(InFlight) + 1
        BY <3>1, <4>1, FS_AddElement
      <4> QED BY <3>1, <4>2
    <3>5. Cardinality(InFlight) < MaxInFlight /\ Cardinality(InFlight) \in Nat
      BY <2>1, BudgetSets, CallSetsFinite DEF Start
    <3> QED BY <3>3, <3>4, <3>5 DEF Budget
  <2>2. ASSUME NEW c \in Calls, CheckSuccess(c) PROVE Frame
    BY <2>2 DEF CheckSuccess, InFlight, Rows, Poised
  <2>3. ASSUME NEW c \in Calls, CountAttempts(c) PROVE Budget'
    <3>1. InFlight' = InFlight /\ \A v \in Vouchers : Rows(v)' = Rows(v)
      BY <2>3 DEF CountAttempts, InFlight, Rows
    <3>2. Cardinality(InFlight') <= MaxInFlight /\ Cardinality(InFlight') \in Nat
      BY <3>1, BudgetSetsNext, CallSetsFinite DEF Budget
    <3>3. ASSUME NEW v \in Vouchers
          PROVE  Cardinality(Rows(v)') + Cardinality(Poised(v)')
                   <= MaxAttempts + MaxInFlight - 1
      <4>1. Cardinality(Rows(v)) \in Nat
        BY RowsFinite
      <4>2. Cardinality(Poised(v)') <= Cardinality(InFlight')
            /\ Cardinality(Poised(v)') \in Nat
        BY BudgetSetsNext, CallSetsFinite
      <4>3. CASE v = target[c] /\ Cardinality(Rows(v)) < MaxAttempts
        BY <3>1, <3>2, <4>1, <4>2, <4>3
      <4>4. CASE ~(v = target[c] /\ Cardinality(Rows(v)) < MaxAttempts)
        <5>1. Poised(v)' = Poised(v)
          BY <2>3, <4>1, <4>4 DEF CountAttempts, Poised
        <5> QED BY <3>1, <5>1 DEF Budget
      <4> QED BY <4>3, <4>4
    <3> QED BY <3>1, <3>2, <3>3 DEF Budget
  <2>4. ASSUME NEW c \in Calls, Decide(c) PROVE Frame
    <3>1. pc'[c] = "allowed" => ~BudgetSpent(used[c])
      BY <2>4, AllowImplies DEF Decide
    <3>2. pc'[c] = "allowed" => used[c] < MaxAttempts
      BY <3>1 DEF BudgetSpent
    <3>3. pc'[c] \in {"allowed", "done"}
      BY <2>4 DEF Decide
    <3> QED BY <2>4, <3>2, <3>3 DEF Decide, InFlight, Rows, Poised
  <2>5. ASSUME NEW c \in Calls, PassGate(c) PROVE Frame
    BY <2>5 DEF PassGate, InFlight, Rows, Poised
  <2>6. ASSUME NEW c \in Calls, BeginAttempt(c) PROVE Budget'
    <3>1. ledger[c] = "absent"
      BY <2>6 DEF BeginAttempt, Trail, Early
    <3>2. InFlight' = InFlight
      BY <2>6 DEF BeginAttempt, InFlight
    <3>3. ASSUME NEW v \in Vouchers
          PROVE  Cardinality(Rows(v)') + Cardinality(Poised(v)')
                   <= MaxAttempts + MaxInFlight - 1
      <4>1. CASE v # target[c]
        <5>1. Rows(v)' = Rows(v) /\ Poised(v)' = Poised(v)
          BY <2>6, <4>1 DEF BeginAttempt, Rows, Poised
        <5> QED BY <5>1 DEF Budget
      <4>2. CASE v = target[c]
        <5>1. Rows(v)' = Rows(v) \union {c} /\ c \notin Rows(v)
          BY <2>6, <3>1, <4>2 DEF BeginAttempt, Rows
        <5>2. Poised(v)' = Poised(v) \ {c} /\ c \in Poised(v)
          BY <2>6, <4>2 DEF BeginAttempt, Poised
        <5>3. Poised(v) \in SUBSET Calls /\ Rows(v) \in SUBSET Calls
          BY BudgetSets
        <5>4. /\ IsFiniteSet(Rows(v)) /\ Cardinality(Rows(v)) \in Nat
              /\ IsFiniteSet(Poised(v)) /\ Cardinality(Poised(v)) \in Nat
          BY <5>3, CallSetsFinite
        <5>5. Cardinality(Rows(v)') = Cardinality(Rows(v)) + 1
          BY <5>1, <5>4, FS_AddElement
        <5>6. Cardinality(Poised(v)') = Cardinality(Poised(v)) - 1
          BY <5>2, <5>4, FS_RemoveElement
        <5> QED BY <5>4, <5>5, <5>6 DEF Budget
      <4> QED BY <4>1, <4>2
    <3> QED BY <3>2, <3>3 DEF Budget
  <2>7. ASSUME NEW c \in Calls, Execute(c) PROVE Frame
    BY <2>7 DEF Execute, InFlight, Rows, Poised
  <2>8. ASSUME NEW c \in Calls, CompleteAttempt(c) PROVE Frame
    <3>1. ledger[c] = "intent"
      BY <2>8 DEF CompleteAttempt, Trail
    <3> QED BY <2>8, <3>1 DEF CompleteAttempt, InFlight, Rows, Poised
  <2>9. ASSUME NEW c \in Calls, ApplyStatus(c) \/ Finish(c) \/ Abandon(c) PROVE Frame
    BY <2>9 DEF ApplyStatus, Finish, Abandon, InFlight, Rows, Poised
  <2>10. CASE Crash
    <3>1. Frame
      BY <2>10 DEF Crash, InFlight, Rows, Poised
    <3> QED BY <3>1, BudgetKept
  <2>11. ASSUME NEW s \in Probes, ObserveSession(s) PROVE Frame
    BY <2>11 DEF ObserveSession, InFlight, Rows, Poised
  <2>12. ASSUME NEW k \in Calls, Prune(k) PROVE Frame
    BY <2>12 DEF Prune, InFlight, Rows, Poised
  <2>13. CASE UNCHANGED vars
    <3>1. Frame
      BY <2>13 DEF vars, InFlight, Rows, Poised
    <3> QED BY <3>1, BudgetKept
  <2>14. Frame => Budget'
    BY BudgetKept
  <2> QED
    BY <2>1, <2>2, <2>3, <2>4, <2>5, <2>6, <2>7, <2>8, <2>9, <2>10, <2>11,
       <2>12, <2>13, <2>14 DEF Next, Step
<1> QED BY <1>1, <1>2, TypeCorrect, TrailInvariant, PTL DEF Spec

\* Racing callers overshoot the retry budget by at most one attempt each.
THEOREM OvershootIsBounded == Spec => []BoundedOvershoot
<1>1. Budget => BoundedOvershoot
  <2> SUFFICES ASSUME Budget, NEW v \in Vouchers
               PROVE  Cardinality(Rows(v)) <= MaxAttempts + MaxInFlight - 1
    BY DEF BoundedOvershoot
  <2>1. Poised(v) \in SUBSET Calls
    BY BudgetSets
  <2>2. Cardinality(Rows(v)) \in Nat /\ Cardinality(Poised(v)) \in Nat
    BY <2>1, BudgetSets, CallSetsFinite
  <2>3. MaxAttempts \in Nat /\ MaxInFlight \in Nat
    BY RulesAssumption, ClaimerAssumption
  <2> QED BY <2>2, <2>3 DEF Budget
<1> QED BY <1>1, BudgetInvariant, PTL

\* With one caller at a time max_attempts is a cap on the stored attempts.
THEOREM SerialBudget ==
  ASSUME MaxInFlight = 1
  PROVE  Spec => []BudgetIsACap
<1>1. MaxAttempts \in Nat
  BY RulesAssumption
<1>2. BoundedOvershoot => BudgetIsACap
  BY <1>1, MaxInFlight = 1 DEF BoundedOvershoot, BudgetIsACap
<1> QED BY <1>2, OvershootIsBounded, PTL

-----------------------------------------------------------------------------
(* The trail as an account of what was spent *)

Unpruned == \A c \in Calls : ledger[c] # "pruned"

HasCounted == {"counted", "allowed", "gated"}
HasRow     == {"begun", "answered", "recorded", "applied"}

\* While retention removed nothing, no step removes a row, and only
\* BeginAttempt adds one.
LEMMA TrailGrows ==
  ASSUME TypeOK, Trail, [Next]_vars, Unpruned'
  PROVE  /\ Unpruned
         /\ \A v : Rows(v) \subseteq Rows(v)'
         /\ (\A c \in Calls : ~BeginAttempt(c)) => \A v : Rows(v)' = Rows(v)
<1> DEFINE Same == Unpruned /\ \A v : Rows(v)' = Rows(v)
<1> SUFFICES \/ Same
             \/ Unpruned /\ (\E c \in Calls : BeginAttempt(c)) /\ \A v : Rows(v) \subseteq Rows(v)'
  OBVIOUS
<1> USE DEF TypeOK, Trail, Early, Goto, locals, history, Unpruned, Rows
<1>1. ASSUME NEW c \in Calls, NEW v \in Vouchers, Start(c, v) PROVE Same
  BY <1>1 DEF Start
<1>2. ASSUME NEW c \in Calls,
             CheckSuccess(c) \/ CountAttempts(c) \/ Decide(c) \/ PassGate(c)
      PROVE  Same
  BY <1>2 DEF CheckSuccess, CountAttempts, Decide, PassGate
<1>3. ASSUME NEW c \in Calls, BeginAttempt(c)
      PROVE  Unpruned /\ \A v : Rows(v) \subseteq Rows(v)'
  BY <1>3 DEF BeginAttempt
<1>4. ASSUME NEW c \in Calls, Execute(c) \/ ApplyStatus(c) \/ Finish(c) \/ Abandon(c)
      PROVE  Same
  <2>1. ASSUME Execute(c) PROVE Same
    BY <2>1 DEF Execute
  <2>2. ASSUME ApplyStatus(c) PROVE Same
    BY <2>2 DEF ApplyStatus
  <2>3. ASSUME Finish(c) PROVE Same
    BY <2>3 DEF Finish
  <2>4. ASSUME Abandon(c) PROVE Same
    BY <2>4 DEF Abandon
  <2> QED
    BY <1>4, <2>1, <2>2, <2>3, <2>4
<1>5. ASSUME NEW c \in Calls, CompleteAttempt(c) PROVE Same
  <2>1. ledger[c] = "intent" /\ answer[c] \notin {"absent", "pruned"}
    BY <1>5 DEF CompleteAttempt, ResultClass
  <2> QED BY <1>5, <2>1 DEF CompleteAttempt
<1>6. CASE Crash
  BY <1>6 DEF Crash
<1>7. ASSUME NEW s \in Probes, ObserveSession(s) PROVE Same
  BY <1>7 DEF ObserveSession
<1>8. ASSUME NEW k \in Calls, Prune(k) PROVE Same
  <2>1. \A d \in Calls : ledger'[d] = ledger[d]
    BY <1>8 DEF Prune
  <2> QED BY <1>8, <2>1 DEF Prune
<1>9. CASE UNCHANGED vars
  BY <1>9 DEF vars
<1> QED
  BY <1>1, <1>2, <1>3, <1>4, <1>5, <1>6, <1>7, <1>8, <1>9 DEF Next, Step

\* The retry index a call read is no more than the rows there are, and one less
\* once its own row is among them; so who is parked has spent the budget.
Spent ==
  Unpruned =>
    \A v \in Vouchers :
      /\ \A c \in Calls : target[c] = v =>
           /\ pc[c] \in HasCounted => used[c] <= Cardinality(Rows(v))
           /\ pc[c] \in HasRow => used[c] < Cardinality(Rows(v))
      /\ status[v] = "ReviewRequired" => Cardinality(Rows(v)) >= DiagnosticBudget

\* Only the last unknown answer of the diagnostic budget parks a voucher.
LEMMA ParkedAtTheBudget ==
  ASSUME NEW class \in ResultClass, NEW index \in Nat,
         StatusAfter(class, NextStep(class, index)) = "ReviewRequired"
  PROVE  index + 1 >= DiagnosticBudget
BY DEF StatusAfter, NextStep, ResultClass, SuccessEquivalent, NoRetry, PausesSession,
       RetriesWithBackoff

\* A voucher is parked for review only when the trail holds as many attempts as
\* the diagnostic budget, however calls overlap and wherever they end.
THEOREM ReviewIsEarned == Spec => []ReviewNeedsTrail
<1> USE RulesAssumption
<1>1. Init => Spent
  BY DEF Init, Spent, HasCounted, HasRow
<1>2. TypeOK /\ Trail /\ Spent /\ [Next]_vars => Spent'
  <2> SUFFICES ASSUME TypeOK, Trail, Spent, [Next]_vars, Unpruned', NEW v \in Vouchers
               PROVE  /\ \A d \in Calls : target'[d] = v =>
                           /\ pc'[d] \in HasCounted => used'[d] <= Cardinality(Rows(v)')
                           /\ pc'[d] \in HasRow => used'[d] < Cardinality(Rows(v)')
                      /\ status'[v] = "ReviewRequired"
                           => Cardinality(Rows(v)') >= DiagnosticBudget
    BY DEF Spent
  <2> DEFINE Calling == \A d \in Calls : target'[d] = v =>
                           /\ pc'[d] \in HasCounted => used'[d] <= Cardinality(Rows(v)')
                           /\ pc'[d] \in HasRow => used'[d] < Cardinality(Rows(v)')
             Parked  == status'[v] = "ReviewRequired" => Cardinality(Rows(v)') >= DiagnosticBudget
  <2> SUFFICES Calling /\ Parked
    OBVIOUS
  <2>1. Unpruned
    BY TrailGrows
  <2>2. /\ Cardinality(Rows(v)) \in Nat /\ Cardinality(Rows(v)') \in Nat
        /\ Cardinality(Rows(v)) <= Cardinality(Rows(v)')
    BY TrailGrows, BudgetSets, BudgetSetsNext, CallSetsFinite
  <2>3. /\ \A c \in Calls : target[c] = v =>
             /\ pc[c] \in HasCounted => used[c] <= Cardinality(Rows(v))
             /\ pc[c] \in HasRow => used[c] < Cardinality(Rows(v))
        /\ status[v] = "ReviewRequired" => Cardinality(Rows(v)) >= DiagnosticBudget
    BY <2>1 DEF Spent
  <2> HIDE DEF Calling, Parked
  <2>4. ASSUME status' = status PROVE Parked
    BY <2>2, <2>3, <2>4 DEF Parked
  <2>5. ASSUME used' = used,
               \A d \in Calls : /\ pc'[d] \in HasCounted \union HasRow => target'[d] = target[d]
                                /\ pc'[d] \in HasCounted => pc[d] \in HasCounted
                                /\ pc'[d] \in HasRow => pc[d] \in HasRow
        PROVE  Calling
    <3> SUFFICES ASSUME NEW d \in Calls, target'[d] = v
                 PROVE  /\ pc'[d] \in HasCounted => used'[d] <= Cardinality(Rows(v)')
                        /\ pc'[d] \in HasRow => used'[d] < Cardinality(Rows(v)')
      BY DEF Calling
    <3>1. used'[d] = used[d] /\ used[d] \in Nat
      BY <2>5 DEF TypeOK
    <3>2. CASE pc'[d] \in HasCounted
      <4>1. pc[d] \in HasCounted /\ target[d] = v
        BY <2>5, <3>2
      <4>2. pc'[d] \notin HasRow
        BY <3>2 DEF HasCounted, HasRow
      <4>3. used[d] <= Cardinality(Rows(v))
        BY <2>3, <4>1
      <4>4. used'[d] <= Cardinality(Rows(v)')
        BY <2>2, <3>1, <4>3
      <4> QED BY <4>2, <4>4
    <3>3. CASE pc'[d] \in HasRow
      <4>1. pc[d] \in HasRow /\ target[d] = v
        BY <2>5, <3>3
      <4>2. pc'[d] \notin HasCounted
        BY <3>3 DEF HasCounted, HasRow
      <4>3. used[d] < Cardinality(Rows(v))
        BY <2>3, <4>1
      <4>4. used'[d] < Cardinality(Rows(v)')
        BY <2>2, <3>1, <4>3
      <4> QED BY <4>2, <4>4
    <3> QED BY <3>2, <3>3
  <2> USE DEF TypeOK, Goto, locals, history, HasCounted, HasRow
  <2>6. ASSUME NEW c \in Calls, NEW w \in Vouchers, Start(c, w) PROVE Calling /\ Parked
    BY <2>4, <2>5, <2>6 DEF Start
  <2>7. ASSUME NEW c \in Calls, CheckSuccess(c) PROVE Calling /\ Parked
    BY <2>4, <2>5, <2>7 DEF CheckSuccess
  <2>8. ASSUME NEW c \in Calls, CountAttempts(c) PROVE Calling /\ Parked
    <3>1. Calling
      BY <2>2, <2>3, <2>8 DEF CountAttempts, Calling
    <3> QED BY <2>4, <2>8, <3>1 DEF CountAttempts
  <2>9. ASSUME NEW c \in Calls, Decide(c) PROVE Calling /\ Parked
    <3>1. pc'[c] \in {"allowed", "done"} /\ pc[c] = "counted"
      BY <2>9 DEF Decide
    <3> QED BY <2>4, <2>5, <2>9, <3>1 DEF Decide
  <2>10. ASSUME NEW c \in Calls, PassGate(c) PROVE Calling /\ Parked
    BY <2>4, <2>5, <2>10 DEF PassGate
  <2>11. ASSUME NEW c \in Calls, BeginAttempt(c) PROVE Calling /\ Parked
    <3>1. CASE target[c] = v
      <4>1. c \notin Rows(v) /\ Rows(v)' = Rows(v) \union {c}
        BY <2>11, <3>1 DEF BeginAttempt, Rows, Trail, Early
      <4>2. IsFiniteSet(Rows(v))
        BY BudgetSets, CallSetsFinite
      <4>3. Cardinality(Rows(v)') = Cardinality(Rows(v)) + 1
        BY <4>1, <4>2, FS_AddElement
      <4>4. Calling
        BY <2>2, <2>3, <2>11, <4>3 DEF BeginAttempt, Calling
      <4> QED BY <2>4, <2>11, <4>4 DEF BeginAttempt
    <3>2. CASE target[c] # v
      <4>1. Calling
        BY <2>2, <2>3, <2>11, <3>2 DEF BeginAttempt, Calling
      <4> QED BY <2>4, <2>11, <4>1 DEF BeginAttempt
    <3> QED BY <3>1, <3>2
  <2>12. ASSUME NEW c \in Calls, Execute(c) \/ CompleteAttempt(c) PROVE Calling /\ Parked
    BY <2>4, <2>5, <2>12 DEF Execute, CompleteAttempt
  <2>13. ASSUME NEW c \in Calls, ApplyStatus(c) PROVE Calling /\ Parked
    <3>1. Calling
      BY <2>5, <2>13 DEF ApplyStatus
    <3>2. CASE status'[v] = status[v]
      BY <2>2, <2>3, <3>1, <3>2 DEF Parked
    <3>3. CASE status'[v] # status[v]
      <4>1. /\ target[c] = v /\ pc[c] \in HasRow
            /\ status'[v] = StatusAfter(answer[c], NextStep(answer[c], used[c]))
        BY <2>13, <3>3 DEF ApplyStatus
      <4>2. status'[v] = "ReviewRequired" => used[c] + 1 >= DiagnosticBudget
        BY <4>1, ParkedAtTheBudget
      <4>3. used[c] < Cardinality(Rows(v)) /\ used[c] \in Nat
        BY <2>3, <4>1
      <4>4. Parked
        BY <2>2, <4>2, <4>3 DEF Parked
      <4> QED BY <3>1, <4>4
    <3> QED BY <3>2, <3>3
  <2>14. ASSUME NEW c \in Calls, Finish(c) \/ Abandon(c) PROVE Calling /\ Parked
    BY <2>4, <2>5, <2>14 DEF Finish, Abandon
  <2>15. CASE Crash
    BY <2>4, <2>5, <2>15 DEF Crash
  <2>16. ASSUME NEW s \in Probes, ObserveSession(s) PROVE Calling /\ Parked
    BY <2>4, <2>5, <2>16 DEF ObserveSession
  <2>17. ASSUME NEW k \in Calls, Prune(k) PROVE Calling /\ Parked
    BY <2>4, <2>5, <2>17 DEF Prune
  <2>18. CASE UNCHANGED vars
    BY <2>4, <2>5, <2>18 DEF vars
  <2> QED
    BY <2>6, <2>7, <2>8, <2>9, <2>10, <2>11, <2>12, <2>13, <2>14, <2>15, <2>16, <2>17,
       <2>18 DEF Next, Step
<1>3. Spent => ReviewNeedsTrail
  BY DEF Spent, ReviewNeedsTrail, Unpruned
<1> QED BY <1>1, <1>2, <1>3, TypeCorrect, TrailInvariant, PTL DEF Spec

-----------------------------------------------------------------------------
(* One caller at a time *)

\* With one call in flight, what it counted is still the number of rows when it
\* inserts its own.
Serial ==
  /\ Unpruned
  /\ \A c, d \in InFlight : c = d
  /\ \A v \in Vouchers, c \in Calls :
       target[c] = v /\ pc[c] \in HasCounted => used[c] = Cardinality(Rows(v))
  /\ GaplessTrail

THEOREM SerialInvariant ==
  ASSUME MaxInFlight = 1, ~Retention
  PROVE  Spec => []Serial
<1>1. Init => Serial
  <2> SUFFICES ASSUME Init PROVE Serial
    OBVIOUS
  <2>1. \A v : Rows(v) = {}
    BY DEF Init, Rows
  <2>2. Cardinality({}) = 0 /\ 0..(0 - 1) = {}
    BY FS_EmptySet
  <2>3. GaplessTrail
    BY <2>1, <2>2 DEF GaplessTrail
  <2> QED BY <2>3 DEF Init, Serial, Unpruned, InFlight, HasCounted
<1>2. TypeOK /\ Trail /\ Serial /\ [Next]_vars => Serial'
  <2> SUFFICES ASSUME TypeOK, Trail, Serial, [Next]_vars PROVE Serial'
    OBVIOUS
  <2> DEFINE Alone   == \A c, d \in InFlight' : c = d
             Counted == \A v \in Vouchers, c \in Calls :
                          target'[c] = v /\ pc'[c] \in HasCounted
                            => used'[c] = Cardinality(Rows(v)')
  <2> USE DEF TypeOK, Trail, Early, Goto, locals, history, HasCounted
  <2>1. Unpruned'
    <3> USE DEF Serial, Unpruned
    <3>1. ASSUME NEW c \in Calls, CompleteAttempt(c) PROVE Unpruned'
      BY <3>1 DEF CompleteAttempt, ResultClass
    <3>2. ASSUME NEW c \in Calls, NEW v \in Vouchers, Start(c, v) PROVE Unpruned'
      BY <3>2 DEF Start
    <3>3. ASSUME NEW c \in Calls, Step(c) \/ Abandon(c), ~CompleteAttempt(c) PROVE Unpruned'
      BY <3>3 DEF Step, CheckSuccess, CountAttempts, Decide, PassGate, BeginAttempt, Execute,
                  ApplyStatus, Finish, Abandon
    <3>4. ASSUME Crash \/ (\E s \in Probes : ObserveSession(s)) \/ UNCHANGED vars
          PROVE  Unpruned'
      BY <3>4 DEF Crash, ObserveSession, vars
    <3> QED BY <3>1, <3>2, <3>3, <3>4, ~Retention DEF Next, Prune
  <2>2. Alone
    <3> USE DEF InFlight
    <3>1. ASSUME NEW c \in Calls, NEW v \in Vouchers, Start(c, v) PROVE Alone
      <4>1. Cardinality(InFlight) = 0 /\ IsFiniteSet(InFlight)
        BY <3>1, BudgetSets, CallSetsFinite, MaxInFlight = 1 DEF Start
      <4>2. InFlight = {}
        BY <4>1, FS_EmptySet
      <4>3. InFlight' = {c}
        BY <3>1, <4>2 DEF Start
      <4> QED BY <4>3
    <3>2. ASSUME NEW c \in Calls, Step(c) \/ Abandon(c) PROVE Alone
      <4>1. InFlight' \subseteq InFlight
        BY <3>2 DEF Step, CheckSuccess, CountAttempts, Decide, PassGate, BeginAttempt, Execute,
                    CompleteAttempt, ApplyStatus, Finish, Abandon
      <4> QED BY <4>1 DEF Serial
    <3>3. ASSUME \/ Crash \/ UNCHANGED vars
                 \/ \E s \in Probes : ObserveSession(s)
                 \/ \E k \in Calls : Prune(k)
          PROVE  Alone
      <4>1. InFlight' \subseteq InFlight
        BY <3>3 DEF Crash, ObserveSession, Prune, vars
      <4> QED BY <4>1 DEF Serial
    <3> QED BY <3>1, <3>2, <3>3 DEF Next
  <2>3. CASE \E c \in Calls : BeginAttempt(c)
    <3>1. PICK c \in Calls : BeginAttempt(c)
      BY <2>3
    <3>2. \A d \in Calls \ {c} : pc[d] \in {"idle", "done"}
      BY <3>1 DEF BeginAttempt, Serial, InFlight
    <3>3. Counted
      BY <3>1, <3>2 DEF BeginAttempt
    <3>4. ASSUME NEW v \in Vouchers
          PROVE  {used'[x] : x \in Rows(v)'} = 0..(Cardinality(Rows(v)') - 1)
      <4>1. {used[x] : x \in Rows(v)} = 0..(Cardinality(Rows(v)) - 1)
        BY DEF Serial, GaplessTrail
      <4>2. used' = used
        BY <3>1 DEF BeginAttempt
      <4>3. CASE target[c] # v
        <5>1. Rows(v)' = Rows(v)
          BY <3>1, <4>3 DEF BeginAttempt, Rows
        <5> QED BY <4>1, <4>2, <5>1
      <4>4. CASE target[c] = v
        <5>1. c \notin Rows(v) /\ Rows(v)' = Rows(v) \union {c}
          BY <3>1, <4>4 DEF BeginAttempt, Rows
        <5>2. IsFiniteSet(Rows(v)) /\ Cardinality(Rows(v)) \in Nat
          BY BudgetSets, CallSetsFinite
        <5>3. Cardinality(Rows(v)') = Cardinality(Rows(v)) + 1
          BY <5>1, <5>2, FS_AddElement
        <5>4. used[c] = Cardinality(Rows(v))
          BY <3>1, <4>4 DEF BeginAttempt, Serial
        <5>5. {used[x] : x \in Rows(v)'} = {used[x] : x \in Rows(v)} \union {used[c]}
          BY <5>1
        <5>6. (0..(Cardinality(Rows(v)) - 1)) \union {Cardinality(Rows(v))}
                = 0..(Cardinality(Rows(v)) + 1 - 1)
          BY <5>2
        <5>7. {used'[x] : x \in Rows(v)'} = {used[x] : x \in Rows(v)'}
          BY <4>2
        <5>8. {used'[x] : x \in Rows(v)'} = 0..(Cardinality(Rows(v)) + 1 - 1)
          BY <4>1, <5>4, <5>5, <5>6, <5>7, Zenon
        <5>9. 0..(Cardinality(Rows(v)') - 1) = 0..(Cardinality(Rows(v)) + 1 - 1)
          <6>1. Cardinality(Rows(v)') - 1 = Cardinality(Rows(v)) + 1 - 1
            BY <5>2, <5>3
          <6> QED BY <6>1, Zenon
        <5> QED BY <5>8, <5>9
      <4> QED BY <4>3, <4>4
    <3>5. GaplessTrail'
      BY <3>4 DEF GaplessTrail
    <3> QED BY <2>1, <2>2, <3>3, <3>5 DEF Serial
  <2>4. CASE ~ \E c \in Calls : BeginAttempt(c)
    <3>1. \A v : Rows(v)' = Rows(v)
      BY <2>1, <2>4, TrailGrows
    <3>2. \A v \in Vouchers : \A x \in Rows(v) : used'[x] = used[x]
      <4>1. ASSUME NEW c \in Calls, CountAttempts(c), NEW v \in Vouchers PROVE c \notin Rows(v)
        BY <4>1 DEF CountAttempts, Rows
      <4>2. used' = used \/ \E c \in Calls : CountAttempts(c)
        BY <2>4 DEF Next, Step, Start, CheckSuccess, Decide, PassGate, Execute,
                    CompleteAttempt, ApplyStatus, Finish, Abandon, Crash, ObserveSession,
                    Prune, vars
      <4>3. ASSUME NEW c \in Calls, CountAttempts(c)
            PROVE  \A x \in Calls \ {c} : used'[x] = used[x]
        BY <4>3 DEF CountAttempts
      <4>4. \A v : Rows(v) \in SUBSET Calls
        BY BudgetSets
      <4> QED BY <4>1, <4>2, <4>3, <4>4
    <3>3. GaplessTrail'
      <4> SUFFICES ASSUME NEW v \in Vouchers
                   PROVE  {used'[x] : x \in Rows(v)'} = 0..(Cardinality(Rows(v)') - 1)
        BY DEF GaplessTrail
      <4>1. {used'[x] : x \in Rows(v)} = {used[x] : x \in Rows(v)}
        BY <3>2
      <4>2. {used[x] : x \in Rows(v)} = 0..(Cardinality(Rows(v)) - 1)
        BY DEF Serial, GaplessTrail
      <4> QED BY <3>1, <4>1, <4>2
    <3>4. Counted
      <4> SUFFICES ASSUME NEW v \in Vouchers, NEW d \in Calls,
                          target'[d] = v, pc'[d] \in HasCounted
                   PROVE  used'[d] = Cardinality(Rows(v))
        BY <3>1
      <4>1. CASE CountAttempts(d)
        BY <4>1 DEF CountAttempts
      <4>2. CASE ~CountAttempts(d)
        <5>1. pc[d] \in HasCounted /\ target[d] = target'[d] /\ used'[d] = used[d]
          <6>1. ASSUME NEW c \in Calls, NEW w \in Vouchers, Start(c, w)
                PROVE  pc[d] \in HasCounted /\ target[d] = target'[d] /\ used'[d] = used[d]
            BY <6>1 DEF Start
          <6>2. ASSUME NEW c \in Calls, CheckSuccess(c) \/ Decide(c) \/ PassGate(c)
                PROVE  pc[d] \in HasCounted /\ target[d] = target'[d] /\ used'[d] = used[d]
            BY <6>2 DEF CheckSuccess, Decide, PassGate
          <6>3. ASSUME NEW c \in Calls, CountAttempts(c)
                PROVE  pc[d] \in HasCounted /\ target[d] = target'[d] /\ used'[d] = used[d]
            BY <4>2, <6>3 DEF CountAttempts
          <6>4. ASSUME NEW c \in Calls, Execute(c) \/ CompleteAttempt(c) \/ ApplyStatus(c)
                PROVE  pc[d] \in HasCounted /\ target[d] = target'[d] /\ used'[d] = used[d]
            BY <6>4 DEF Execute, CompleteAttempt, ApplyStatus
          <6>5. ASSUME NEW c \in Calls, Finish(c) \/ Abandon(c)
                PROVE  pc[d] \in HasCounted /\ target[d] = target'[d] /\ used'[d] = used[d]
            BY <6>5 DEF Finish, Abandon
          <6>6. ASSUME \/ Crash \/ UNCHANGED vars
                       \/ \E s \in Probes : ObserveSession(s)
                       \/ \E k \in Calls : Prune(k)
                PROVE  pc[d] \in HasCounted /\ target[d] = target'[d] /\ used'[d] = used[d]
            BY <6>6 DEF Crash, ObserveSession, Prune, vars, InFlight
          <6> QED BY <2>4, <6>1, <6>2, <6>3, <6>4, <6>5, <6>6 DEF Next, Step
        <5> QED BY <5>1 DEF Serial
      <4> QED BY <4>1, <4>2
    <3> QED BY <2>1, <2>2, <3>3, <3>4 DEF Serial
  <2> QED BY <2>3, <2>4
<1> QED BY <1>1, <1>2, TypeCorrect, TrailInvariant, PTL DEF Spec

\* Without retention and with one caller at a time, the attempts of a voucher
\* carry the indices 0, 1, 2, ... across crashes and errors.
THEOREM TrailIsGapless ==
  ASSUME MaxInFlight = 1, ~Retention
  PROVE  Spec => []GaplessTrail
<1>1. Serial => GaplessTrail
  BY DEF Serial
<1> QED BY <1>1, SerialInvariant, PTL

-----------------------------------------------------------------------------
(* A saved voucher is left alone *)

\* What a call past the idempotency check knows: its voucher has no success on
\* record, and once its own attempt is completed, no other.
Untaken ==
  \A c \in Calls :
    /\ pc[c] # "idle" => target[c] \in Vouchers
    /\ \/ pc[c] \in {"checked", "counted"} /\ ~known[c]
       \/ pc[c] \in {"allowed", "gated", "begun", "answered"}
       => Successes(target[c]) = {}
    /\ pc[c] = "recorded" => Successes(target[c]) \subseteq {c}

\* Only the completion of an attempt adds a success.
LEMMA SuccessesKept ==
  ASSUME TypeOK, Trail, Unpruned', [Next]_vars, \A c \in Calls : ~CompleteAttempt(c)
  PROVE  \A v : Successes(v)' = Successes(v)
<1> DEFINE Same == \A v : Successes(v)' = Successes(v)
<1> USE DEF TypeOK, Trail, Early, Goto, locals, history, Successes, Rows, SuccessEquivalent
<1>1. ASSUME NEW c \in Calls, NEW v \in Vouchers, Start(c, v) PROVE Same
  BY <1>1 DEF Start
<1>2. ASSUME NEW c \in Calls,
             CheckSuccess(c) \/ CountAttempts(c) \/ Decide(c) \/ PassGate(c)
      PROVE  Same
  BY <1>2 DEF CheckSuccess, CountAttempts, Decide, PassGate
<1>3. ASSUME NEW c \in Calls, BeginAttempt(c) PROVE Same
  BY <1>3 DEF BeginAttempt
<1>4. ASSUME NEW c \in Calls, Execute(c) \/ ApplyStatus(c) \/ Finish(c) \/ Abandon(c)
      PROVE  Same
  BY <1>4 DEF Execute, ApplyStatus, Finish, Abandon
<1>5. CASE Crash
  BY <1>5 DEF Crash
<1>6. ASSUME NEW s \in Probes, ObserveSession(s) PROVE Same
  BY <1>6 DEF ObserveSession
<1>7. ASSUME NEW k \in Calls, Prune(k) PROVE Same
  <2>1. \A d \in Calls : ledger'[d] = ledger[d]
    BY <1>7 DEF Prune, Unpruned
  <2> QED BY <1>7, <2>1 DEF Prune
<1>8. CASE UNCHANGED vars
  BY <1>8 DEF vars
<1> QED
  BY <1>1, <1>2, <1>3, <1>4, <1>5, <1>6, <1>7, <1>8 DEF Next, Step

\* Without retention and with one caller at a time, no call that may still send
\* works on a voucher that has a success on record.
THEOREM UntakenInvariant ==
  ASSUME MaxInFlight = 1, ~Retention
  PROVE  Spec => []Untaken
<1>1. Init => Untaken
  BY DEF Init, Untaken
<1>2. TypeOK /\ Trail /\ Serial /\ Serial' /\ Untaken /\ [Next]_vars => Untaken'
  <2> SUFFICES ASSUME TypeOK, Trail, Serial, Serial', Untaken, [Next]_vars, NEW d \in Calls
               PROVE  /\ pc'[d] # "idle" => target'[d] \in Vouchers
                      /\ \/ pc'[d] \in {"checked", "counted"} /\ ~known'[d]
                         \/ pc'[d] \in {"allowed", "gated", "begun", "answered"}
                         => Successes(target[d])' = {}
                      /\ pc'[d] = "recorded" => Successes(target[d])' \subseteq {d}
    BY DEF Untaken
  <2> DEFINE Past(k, p) == \/ p \in {"checked", "counted"} /\ ~k
                           \/ p \in {"allowed", "gated", "begun", "answered"}
             Goal == /\ pc'[d] # "idle" => target'[d] \in Vouchers
                     /\ Past(known'[d], pc'[d]) => Successes(target[d])' = {}
                     /\ pc'[d] = "recorded" => Successes(target[d])' \subseteq {d}
  <2> SUFFICES Goal
    OBVIOUS
  <2>1. /\ pc[d] # "idle" => target[d] \in Vouchers
        /\ Past(known[d], pc[d]) => Successes(target[d]) = {}
        /\ pc[d] = "recorded" => Successes(target[d]) \subseteq {d}
    BY DEF Untaken
  <2> USE DEF TypeOK, Goto, locals, history
  <2>2. CASE \E c \in Calls : CompleteAttempt(c)
    <3>1. PICK c \in Calls : CompleteAttempt(c)
      BY <2>2
    <3>2. CASE d # c
      <4>1. pc'[d] = pc[d] /\ pc[d] \in {"idle", "done"} /\ target' = target
        BY <3>1, <3>2 DEF CompleteAttempt, Serial, InFlight
      <4> QED BY <2>1, <4>1
    <3>3. CASE d = c
      <4>1. Successes(target[d]) = {} /\ pc'[d] = "recorded" /\ target' = target
        BY <2>1, <3>1, <3>3 DEF CompleteAttempt
      <4>2. \A x \in Calls \ {c} : ledger'[x] = ledger[x]
        BY <3>1 DEF CompleteAttempt
      <4>3. Successes(target[d])' \subseteq {d}
        BY <3>3, <4>1, <4>2 DEF Successes, Rows
      <4>4. target[d] \in Vouchers
        BY <2>1, <3>1, <3>3 DEF CompleteAttempt
      <4> QED BY <4>1, <4>3, <4>4
    <3> QED BY <3>2, <3>3
  <2>3. CASE ~ \E c \in Calls : CompleteAttempt(c)
    <3>1. \A v : Successes(v)' = Successes(v)
      BY <2>3, SuccessesKept DEF Serial
    <3>2. \/ ~Past(known'[d], pc'[d]) /\ pc'[d] # "recorded" /\ target'[d] \in Vouchers
          \/ /\ target'[d] = target[d] /\ (pc'[d] # "idle" => target[d] \in Vouchers)
             /\ Past(known'[d], pc'[d]) => Successes(target[d]) = {}
             /\ pc'[d] = "recorded" => pc[d] = "recorded"
      <4> DEFINE Frame == \/ ~Past(known'[d], pc'[d]) /\ pc'[d] # "recorded"
                             /\ target'[d] \in Vouchers
                          \/ /\ target'[d] = target[d] /\ (pc'[d] # "idle" => target[d] \in Vouchers)
                             /\ Past(known'[d], pc'[d]) => Successes(target[d]) = {}
                             /\ pc'[d] = "recorded" => pc[d] = "recorded"
      <4>1. ASSUME NEW c \in Calls, NEW v \in Vouchers, Start(c, v) PROVE Frame
        BY <2>1, <4>1 DEF Start
      <4>2. ASSUME NEW c \in Calls, CheckSuccess(c) PROVE Frame
        BY <2>1, <4>2 DEF CheckSuccess
      <4>3. ASSUME NEW c \in Calls, CountAttempts(c) \/ PassGate(c) PROVE Frame
        BY <2>1, <4>3 DEF CountAttempts, PassGate
      <4>4. ASSUME NEW c \in Calls, Decide(c) PROVE Frame
        <5>1. pc'[c] = "allowed" => ~known[c]
          BY <4>4, AllowImplies DEF Decide
        <5>2. pc'[c] \in {"allowed", "done"}
          BY <4>4 DEF Decide
        <5> QED BY <2>1, <4>4, <5>1, <5>2 DEF Decide
      <4>5. ASSUME NEW c \in Calls, BeginAttempt(c) \/ Execute(c) PROVE Frame
        BY <2>1, <4>5 DEF BeginAttempt, Execute
      <4>6. ASSUME NEW c \in Calls, ApplyStatus(c) \/ Finish(c) \/ Abandon(c) PROVE Frame
        BY <2>1, <4>6 DEF ApplyStatus, Finish, Abandon
      <4>7. ASSUME \/ Crash \/ UNCHANGED vars
                   \/ \E s \in Probes : ObserveSession(s)
                   \/ \E k \in Calls : Prune(k)
            PROVE  Frame
        BY <2>1, <4>7 DEF Crash, InFlight, ObserveSession, Prune, vars
      <4> QED BY <2>3, <4>1, <4>2, <4>3, <4>4, <4>5, <4>6, <4>7 DEF Next, Step
    <3> QED BY <2>1, <3>1, <3>2
  <2> QED BY <2>2, <2>3
<1> QED BY <1>1, <1>2, TypeCorrect, TrailInvariant, SerialInvariant, PTL DEF Spec

\* A voucher is marked saved only when a success is on record.
LEMMA SavedHasSuccess ==
  ASSUME StatusHasEvidence, Unpruned, NEW v \in Vouchers, status[v] = "Saved"
  PROVE  Successes(v) # {}
<1>1. PICK c \in Calls : /\ target[c] = v
                         /\ ledger[c] \in ResultClass
                         /\ StatusAfter(ledger[c], NextStep(ledger[c], used[c])) = "Saved"
  BY DEF StatusHasEvidence, Unpruned
<1>2. ledger[c] \in SuccessEquivalent
  BY <1>1 DEF StatusAfter, ResultClass, SuccessEquivalent
<1>3. c \in Successes(v)
  BY <1>1, <1>2 DEF Successes, Rows, SuccessEquivalent
<1> QED BY <1>3

\* Without retention and with one caller at a time, a voucher once saved stays
\* saved and no request is sent for it again: the status write of a later call
\* and the request itself both come after that call's idempotency check.
THEOREM SavedVouchersStay ==
  ASSUME MaxInFlight = 1, ~Retention
  PROVE  Spec => SavedIsFinal
<1> DEFINE Inv == TypeOK /\ Trail /\ Serial /\ StatusHasEvidence /\ Untaken
           Stays == \A v \in Vouchers : status[v] = "Saved" => status'[v] = "Saved"
           Sends == \A c \in sent' \ sent : status[target[c]] # "Saved"
<1>1. Inv /\ [Next]_vars => [Stays]_status
  <2> SUFFICES ASSUME Inv, Next, status' # status, NEW v \in Vouchers, status[v] = "Saved"
               PROVE  status'[v] = "Saved"
    BY DEF vars
  <2>1. PICK c \in Calls : ApplyStatus(c)
    BY DEF Next, Step, Start, CheckSuccess, CountAttempts, Decide, PassGate, BeginAttempt,
           Execute, CompleteAttempt, Finish, Abandon, Crash, ObserveSession, Prune, locals,
           history
  <2>2. CASE target[c] # v
    BY <2>1, <2>2 DEF ApplyStatus, TypeOK
  <2>3. CASE target[c] = v
    <3>1. Successes(v) # {} /\ Successes(v) \subseteq {c}
      BY <2>1, <2>3, SavedHasSuccess DEF ApplyStatus, Untaken, Serial
    <3>2. ledger[c] \in SuccessEquivalent /\ answer[c] = ledger[c]
      BY <2>1, <3>1 DEF ApplyStatus, Trail, Successes
    <3>3. StatusAfter(answer[c], NextStep(answer[c], used[c])) = "Saved"
      BY <3>2 DEF StatusAfter, SuccessEquivalent
    <3> QED BY <2>1, <2>3, <3>3 DEF ApplyStatus, TypeOK
  <2> QED BY <2>2, <2>3
<1>2. Inv /\ [Next]_vars => [Sends]_sent
  <2> SUFFICES ASSUME Inv, Next, sent' # sent, NEW c \in sent' \ sent
               PROVE  status[target[c]] # "Saved"
    BY DEF vars, history
  <2>1. PICK d \in Calls : Execute(d)
    BY DEF Next, Step, Start, CheckSuccess, CountAttempts, Decide, PassGate, BeginAttempt,
           CompleteAttempt, ApplyStatus, Finish, Abandon, Crash, ObserveSession, Prune, locals,
           history
  <2>2. c = d /\ c \in Calls /\ Successes(target[c]) = {}
    BY <2>1 DEF Execute, Untaken
  <2>3. target[c] \in Vouchers
    BY <2>1, <2>2 DEF Execute, Untaken
  <2> QED BY <2>2, <2>3, SavedHasSuccess DEF Serial
<1>3. Spec => []Inv
  BY TypeCorrect, TrailInvariant, SerialInvariant, StatusFollowsTrail, UntakenInvariant, PTL
<1>4. Spec => [][Stays]_status
  BY <1>1, <1>3, PTL DEF Spec
<1>5. Spec => [][Sends]_sent
  BY <1>2, <1>3, PTL DEF Spec
<1> QED BY <1>4, <1>5 DEF SavedIsFinal

=============================================================================
