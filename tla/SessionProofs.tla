---------------------------- MODULE SessionProofs ----------------------------
(***************************************************************************)
(* Proofs about Session for every set of observers.                        *)
(***************************************************************************)
EXTENDS Session, TLAPS

\* Every reachable state is well typed.
THEOREM TypeCorrect == Spec => []TypeOK
<1>1. Init => TypeOK
  BY DEF Init, TypeOK, Condition, SessionState
<1>2. TypeOK /\ [Next]_vars => TypeOK'
  <2> SUFFICES ASSUME TypeOK, [Next]_vars PROVE TypeOK'
    OBVIOUS
  <2> USE DEF TypeOK, Condition, SessionState, Observers
  <2>1. CASE AccountChanges
    BY <2>1 DEF AccountChanges
  <2>2. ASSUME NEW o \in Observers, Probe(o) PROVE TypeOK'
    BY <2>2 DEF Probe, Carry
  <2>3. ASSUME NEW o \in Observers, SendClaim(o) PROVE TypeOK'
    BY <2>3 DEF SendClaim, ghost
  <2>4. ASSUME NEW o \in Observers, ClaimAnswered(o) PROVE TypeOK'
    BY <2>4 DEF ClaimAnswered, Carry, ghost
  <2>5. ASSUME NEW o \in Observers, Disable(o) PROVE TypeOK'
    BY <2>5 DEF Disable, Carry
  <2>6. ASSUME NEW o \in Observers, Observe(o) PROVE TypeOK'
    BY <2>6 DEF Observe, Confirmed, Publishing
  <2>7. ASSUME NEW o \in Observers, Publish(o) PROVE TypeOK'
    BY <2>7 DEF Publish, AllowsClaims, ghost
  <2>8. CASE UNCHANGED vars
    BY <2>8 DEF vars, ghost
  <2> QED
    BY <2>1, <2>2, <2>3, <2>4, <2>5, <2>6, <2>7, <2>8 DEF Next, Step
<1> QED
  BY <1>1, <1>2, PTL DEF Spec

\* Unless transitions overlapped, the gate trails the snapshot by exactly the
\* publication under way: what an observer is still to publish is what the
\* snapshot holds, only one observer is publishing, and otherwise the gate is
\* up to date.
Trailing ==
  overlap \/
    /\ \A o \in Observers : pc[o] = "publishing" => report[o] = state
    /\ \A o, p \in Observers : pc[o] = "publishing" /\ pc[p] = "publishing" => o = p
    /\ Publishing \/ gate = AllowsClaims(state)

\* For any number of probes, claimers and owners: outside a publication the
\* claim gate agrees with the snapshot unless publications overlapped at the
\* last transition.
THEOREM OnlyOverlapSkewsTheGate == Spec => []GateAgreesAtRest
<1>1. Init => Trailing
  BY DEF Init, Trailing, Publishing, AllowsClaims
<1>2. TypeOK /\ Trailing /\ [Next]_vars => Trailing'
  <2> SUFFICES ASSUME TypeOK, Trailing, [Next]_vars PROVE Trailing'
    OBVIOUS
  <2> USE DEF Trailing, Publishing, TypeOK
  <2>1. CASE AccountChanges
    BY <2>1 DEF AccountChanges
  <2>2. ASSUME NEW o \in Observers, Probe(o) PROVE Trailing'
    BY <2>2 DEF Probe, Carry
  <2>3. ASSUME NEW o \in Observers, SendClaim(o) PROVE Trailing'
    BY <2>3 DEF SendClaim, ghost
  <2>4. ASSUME NEW o \in Observers, ClaimAnswered(o) PROVE Trailing'
    BY <2>4 DEF ClaimAnswered, Carry, ghost
  <2>5. ASSUME NEW o \in Observers, Disable(o) PROVE Trailing'
    BY <2>5 DEF Disable, Carry
  <2>6. ASSUME NEW o \in Observers, Observe(o) PROVE Trailing'
    <3>1. CASE state' = state
      BY <2>6, <3>1 DEF Observe
    <3>2. CASE state' # state
      BY <2>6, <3>2 DEF Observe
    <3> QED
      BY <3>1, <3>2
  <2>7. ASSUME NEW o \in Observers, Publish(o) PROVE Trailing'
    BY <2>7 DEF Publish, ghost
  <2>8. CASE UNCHANGED vars
    BY <2>8 DEF vars, ghost
  <2> QED
    BY <2>1, <2>2, <2>3, <2>4, <2>5, <2>6, <2>7, <2>8 DEF Next, Step
<1>3. Trailing => GateAgreesAtRest
  BY DEF Trailing, GateAgreesAtRest
<1> QED
  BY <1>1, <1>2, <1>3, TypeCorrect, PTL DEF Spec

-----------------------------------------------------------------------------

\* A report taken since the account changed does not call an unusable account
\* healthy, nor does a snapshot that such a report stated.
UpToDate ==
  account # "Healthy" =>
    /\ \A o \in current : pc[o] = "reporting" => ~AllowsClaims(report[o])
    /\ informed => ~AllowsClaims(state)

\* For any number of observers and any order of their reports: neither the
\* snapshot nor, outside overlapping publications, the gate lets a claim pass
\* over an unusable account but through a report older than the last change.
THEOREM OldNewsAloneOpens == Spec => []OpenOnOldNewsOnly
<1>1. Init => UpToDate
  BY DEF Init, UpToDate
<1>2. TypeOK /\ UpToDate /\ [Next]_vars => UpToDate'
  <2> SUFFICES ASSUME TypeOK, UpToDate, [Next]_vars PROVE UpToDate'
    OBVIOUS
  <2> USE DEF TypeOK, UpToDate, AllowsClaims
  <2>1. CASE AccountChanges
    BY <2>1 DEF AccountChanges
  <2>2. ASSUME NEW o \in Observers, Probe(o) PROVE UpToDate'
    BY <2>2 DEF Probe, Carry
  <2>3. ASSUME NEW o \in Observers, SendClaim(o) PROVE UpToDate'
    BY <2>3 DEF SendClaim, ghost
  <2>4. ASSUME NEW o \in Observers, ClaimAnswered(o) PROVE UpToDate'
    BY <2>4 DEF ClaimAnswered, Carry, ghost
  <2>5. ASSUME NEW o \in Observers, Disable(o) PROVE UpToDate'
    BY <2>5 DEF Disable, Carry
  <2>6. ASSUME NEW o \in Observers, Observe(o) PROVE UpToDate'
    BY <2>6 DEF Observe, Confirmed
  <2>7. ASSUME NEW o \in Observers, Publish(o) PROVE UpToDate'
    BY <2>7 DEF Publish, ghost
  <2>8. CASE UNCHANGED vars
    BY <2>8 DEF vars, ghost
  <2> QED
    BY <2>1, <2>2, <2>3, <2>4, <2>5, <2>6, <2>7, <2>8 DEF Next, Step
<1>3. UpToDate /\ GateAgreesAtRest => OpenOnOldNewsOnly
  BY DEF UpToDate, GateAgreesAtRest, OpenOnOldNewsOnly
<1> QED
  BY <1>1, <1>2, <1>3, TypeCorrect, OnlyOverlapSkewsTheGate, PTL DEF Spec

=============================================================================
