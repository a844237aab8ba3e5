------------------------------- MODULE Session -------------------------------
(***************************************************************************)
(* The session manager: one shared snapshot behind a lock, and the claim   *)
(* gate, a watch channel published after the lock is released.  Probes,    *)
(* claim responses and the owner report states to it from several tasks.   *)
(* The snapshot's timestamps, reason and profile version are left out.     *)
(***************************************************************************)
EXTENDS SessionRules

CONSTANTS
  Probers,   \* tasks that probe the account and report what they find
  Claimers,  \* tasks that send claim requests and report what they reveal
  Owners     \* tasks that disable the session on the owner's behalf

Observers == Probers \union Claimers \union Owners

ASSUME SessionAssumption == "Nobody" \notin Observers

VARIABLES
  account,  \* the true condition of the account, known to Shopee alone
  state,    \* SessionSnapshot.state
  gate,     \* the value in the claim gate's channel
  pc,       \* where each observer is
  report,   \* the state each observer carries to the manager
  overlap,  \* history: the last transition was made during a publication
  current,  \* history: observers whose report was taken since the account changed
  informed  \* history: so was a report of the state in the snapshot

ghost == <<overlap, current, informed>>
vars  == <<account, state, gate, pc, report, ghost>>

\* What can be wrong with the account itself.
Condition == {"Healthy", "Expired", "LoginRequired", "VerificationRequired"}

-----------------------------------------------------------------------------

Init ==
  /\ account \in Condition
  /\ state = "Unknown"
  /\ gate = FALSE
  /\ pc = [o \in Observers |-> "idle"]
  /\ report = [o \in Observers |-> "Unknown"]
  /\ overlap = FALSE
  /\ current = {}
  /\ informed = FALSE

\* The account's condition changes on its own: the session expires, the owner
\* logs in again.
AccountChanges ==
  /\ account' \in Condition \ {account}
  /\ current' = {}
  /\ informed' = FALSE
  /\ UNCHANGED <<state, gate, pc, report, overlap>>

Carry(o, s) ==
  /\ pc' = [pc EXCEPT ![o] = "reporting"]
  /\ report' = [report EXCEPT ![o] = s]
  /\ current' = current \union {o}
  /\ UNCHANGED <<account, state, gate, overlap, informed>>

\* A probe answers with the account's condition, or with nothing conclusive:
\* a transport failure degrades, an unreadable answer is unknown.
Probe(o) ==
  /\ o \in Probers /\ pc[o] = "idle"
  /\ \E s \in {account, "Degraded", "Unknown"} : Carry(o, s)

\* A claim request goes out while the session allows claims.
SendClaim(o) ==
  /\ o \in Claimers /\ pc[o] = "idle"
  /\ AllowsClaims(state)
  /\ pc' = [pc EXCEPT ![o] = "claiming"]
  /\ UNCHANGED <<account, state, gate, report, ghost>>

\* Mutant: the class of the response is reported in place of a session state.
ClaimAnsweredRaw(o) ==
  /\ pc[o] = "claiming"
  /\ Carry(o, "SessionExpired")

\* Its response reports nothing about a healthy account; otherwise it forces
\* one of the two states a claim response maps to.
ClaimAnswered(o) ==
  /\ pc[o] = "claiming"
  /\ IF account = "Healthy"
     THEN /\ pc' = [pc EXCEPT ![o] = "idle"]
          /\ UNCHANGED <<account, state, gate, report, ghost>>
     ELSE Carry(o, IF account = "VerificationRequired" THEN account ELSE "Expired")

Disable(o) ==
  /\ o \in Owners /\ pc[o] = "idle"
  /\ Carry(o, "Disabled")

\* Some observer is between the manager's lock and the gate.
Publishing == \E o \in Observers : pc[o] = "publishing"

\* What is known of the snapshot once o has reported: a state that an earlier
\* report confirmed stays confirmed by an older report of the same.
Confirmed(o) ==
  /\ current' = current \ {o}
  /\ informed' = (o \in current \/ (state' = state /\ informed))

\* Mutant: an inconclusive report does not replace a healthy state.
ObserveConfident(o) ==
  /\ pc[o] = "reporting"
  /\ state' = IF AllowsClaims(state) /\ ~BlocksClaims(report[o]) THEN state ELSE report[o]
  /\ pc' = [pc EXCEPT ![o] = IF state' = state THEN "idle" ELSE "publishing"]
  /\ overlap' = IF state' = state THEN overlap ELSE Publishing
  /\ Confirmed(o)
  /\ UNCHANGED <<account, gate, report>>

\* Under the lock: a report equal to the current state is not a transition and
\* publishes nothing.
Observe(o) ==
  /\ pc[o] = "reporting"
  /\ state' = report[o]
  /\ pc' = [pc EXCEPT ![o] = IF state' = state THEN "idle" ELSE "publishing"]
  /\ overlap' = IF state' = state THEN overlap ELSE Publishing
  /\ Confirmed(o)
  /\ UNCHANGED <<account, gate, report>>

\* Mutant: every state but a hard refusal opens the gate.
PublishDeferring(o) ==
  /\ pc[o] = "publishing"
  /\ gate' = ~BlocksClaims(report[o])
  /\ pc' = [pc EXCEPT ![o] = "idle"]
  /\ UNCHANGED <<account, state, report, ghost>>

\* After the lock is released: the gate takes the value of the state this
\* observer recorded, whatever the snapshot holds by now.
Publish(o) ==
  /\ pc[o] = "publishing"
  /\ gate' = AllowsClaims(report[o])
  /\ pc' = [pc EXCEPT ![o] = "idle"]
  /\ UNCHANGED <<account, state, report, ghost>>

Step(o) == Probe(o) \/ SendClaim(o) \/ ClaimAnswered(o) \/ Disable(o) \/ Observe(o) \/ Publish(o)

Next == AccountChanges \/ \E o \in Observers : Step(o)

Spec == Init /\ [][Next]_vars

-----------------------------------------------------------------------------
(* Properties *)

\* Every variable holds a value of its type.
TypeOK ==
  /\ account \in Condition
  /\ state \in SessionState
  /\ gate \in BOOLEAN
  /\ pc \in [Observers -> {"idle", "claiming", "reporting", "publishing"}]
  /\ report \in [Observers -> SessionState]
  /\ overlap \in BOOLEAN
  /\ current \subseteq Observers
  /\ informed \in BOOLEAN

\* Whatever the observers do, the gate agrees with the snapshot the claim worker
\* reads once no publication is under way, unless the last transition was made
\* while an older one was still to be published: overlapping publications are
\* the only way the two come apart.
GateAgreesAtRest == Publishing \/ overlap \/ gate = AllowsClaims(state)

\* An account that became unusable is taken for healthy only until a report
\* taken since then arrives, however little that report could tell, or through
\* a report taken before and delivered after it: then the snapshot consulted
\* before every request does not allow claims, nor does the gate, once no
\* publication is under way, unless publications overlapped.
OpenOnOldNewsOnly ==
  informed /\ account # "Healthy" =>
    ~AllowsClaims(state) /\ (gate => Publishing \/ overlap)

-----------------------------------------------------------------------------
(* What the repository says and the program does not do *)

\* docs/session-profile.md: the claim gate is closed unless the state is
\* positively healthy. Stated weakly: once no publication is under way.
ClosedUnlessHealthy == gate => AllowsClaims(state) \/ Publishing

=============================================================================
