---------------------------- MODULE OutboxProofs ----------------------------
(***************************************************************************)
(* Theorems of Outbox, for any set of keys, any ceiling, batch size and    *)
(* bounds: its safety invariants, and that every step of the outbox is a   *)
(* step Delivery allows.                                                   *)
(***************************************************************************)
EXTENDS Outbox, FiniteSetTheorems, TLAPS

USE OutboxAssumption

-----------------------------------------------------------------------------
(* The inductive invariant *)

\* The types TypeOK states, with the counters unbounded.
Types ==
  /\ state \in [Keys -> RowState]
  /\ attempts \in [Keys -> Nat]
  /\ due \in [Keys -> BOOLEAN]
  /\ created \in [Keys -> Nat]
  /\ clock \in Nat
  /\ batch \in SUBSET Keys
  /\ sending \in Keys \union {NoRow}
  /\ verdict \in {"None", "Ok", "Err"}
  /\ inserts \in 0..MaxEnqueues
  /\ aborts \in 0..MaxAborts
  /\ tries \in [Keys -> Nat]
  /\ messages \in [Keys -> Nat]

\* The row being handled has left the batch, and a notifier that answered Ok
\* has reached the owner.
Handling ==
  /\ sending \notin batch
  /\ verdict = "Ok" => sending # NoRow /\ messages[sending] > 0

\* What each status says of the row's counters. A send is counted in tries when
\* it is made and in attempts when its failure is recorded; the difference is
\* the send in progress, the one that succeeded, and those lost to an abort.
Accounts ==
  \A k \in Keys :
    /\ state[k] = "Pending" =>
         /\ attempts[k] < MaxAttempts
         /\ tries[k] >= attempts[k] + (IF sending = k THEN 1 ELSE 0)
         /\ tries[k] <= attempts[k] + aborts + (IF sending = k THEN 1 ELSE 0)
    /\ state[k] # "Pending" => tries[k] <= MaxAttempts + aborts
    /\ state[k] \in Settled => attempts[k] <= MaxAttempts
    /\ attempts[k] <= MaxAttempts

Inv == Types /\ Handling /\ BatchIsPending /\ SettledForCause /\ Accounts

LEMMA InitInv == Init => Inv
BY DEF Init, Inv, Types, Handling, BatchIsPending, SettledForCause, Accounts,
       RowState, Settled

LEMMA EnqueueInv ==
  ASSUME Inv, NEW k \in Keys, Enqueue(k)
  PROVE  Inv'
<1> USE DEF Inv, Enqueue, drain, Types, BatchIsPending
<1>1. sending # k /\ k \notin batch
  OBVIOUS
<1>2. Types'
  BY DEF RowState
<1>3. (Handling /\ BatchIsPending /\ SettledForCause)'
  BY <1>1 DEF Handling, SettledForCause
<1>4. Accounts'
  BY <1>1 DEF Accounts, Settled
<1> QED BY <1>2, <1>3, <1>4

LEMMA FetchInv ==
  ASSUME Inv, FetchReady
  PROVE  Inv'
BY DEF Inv, FetchReady, OldestReady, Ready, row, ghost, Types, Handling,
       BatchIsPending, SettledForCause, Accounts

LEMMA SendInv ==
  ASSUME Inv, NEW k \in Keys, Send(k)
  PROVE  Inv'
<1> USE DEF Inv, Send, row, Types, BatchIsPending
<1>1. state[k] = "Pending"
  OBVIOUS
<1>2. Types'
  OBVIOUS
<1>3. Handling'
  BY DEF Handling
<1>4. BatchIsPending'
  OBVIOUS
<1>5. SettledForCause'
  BY <1>1 DEF SettledForCause
<1>6. Accounts'
  BY <1>1 DEF Accounts, Settled
<1> QED BY <1>2, <1>3, <1>4, <1>5, <1>6

LEMMA MarkDeliveredInv ==
  ASSUME Inv, MarkDelivered
  PROVE  Inv'
<1> USE DEF Inv, MarkDelivered, ghost, Types, BatchIsPending, Handling
<1>1. Types'
  BY DEF RowState
<1>2. Handling' /\ BatchIsPending'
  OBVIOUS
<1>3. SettledForCause'
  BY DEF SettledForCause
<1>4. Accounts'
  BY DEF Accounts, Settled
<1> QED BY <1>1, <1>2, <1>3, <1>4

LEMMA MarkFailedInv ==
  ASSUME Inv, MarkFailed
  PROVE  Inv'
<1> USE DEF Inv, MarkFailed, ghost, Types, BatchIsPending, Handling
<1>1. Types'
  BY DEF RowState
<1>2. Handling' /\ BatchIsPending'
  OBVIOUS
<1>3. SettledForCause'
  BY DEF SettledForCause, Accounts
<1>4. Accounts'
  BY DEF Accounts, Settled
<1> QED BY <1>1, <1>2, <1>3, <1>4

LEMMA AbortInv ==
  ASSUME Inv, Abort
  PROVE  Inv'
<1> USE DEF Inv, Abort, row, Types
<1>1. Types'
  OBVIOUS
<1>2. (Handling /\ BatchIsPending /\ SettledForCause)'
  BY DEF Handling, BatchIsPending, SettledForCause
<1>3. Accounts'
  BY DEF Accounts, Settled
<1> QED BY <1>1, <1>2, <1>3

LEMMA ElapseOrPruneInv ==
  ASSUME Inv, NEW k \in Keys, BackoffElapses(k) \/ Prune(k)
  PROVE  Inv'
<1>1. CASE BackoffElapses(k)
  BY <1>1 DEF Inv, BackoffElapses, drain, ghost, Types, Handling,
              BatchIsPending, SettledForCause, Accounts
<1>2. CASE Prune(k)
  <2> USE <1>2 DEF Inv, Prune, drain, ghost, Types, BatchIsPending
  <2>1. Types'
    BY DEF RowState
  <2>2. (Handling /\ BatchIsPending /\ SettledForCause)'
    BY DEF Handling, SettledForCause, Settled
  <2>3. Accounts'
    BY DEF Accounts, Settled
  <2> QED BY <2>1, <2>2, <2>3
<1> QED BY <1>1, <1>2

LEMMA Invariance == Spec => []Inv
<1>1. Inv /\ [Next]_vars => Inv'
  <2> SUFFICES ASSUME Inv, [Next]_vars PROVE Inv'
    OBVIOUS
  <2>1. CASE UNCHANGED vars
    BY <2>1 DEF vars, row, drain, ghost, Inv, Types, Handling, BatchIsPending,
                SettledForCause, Accounts
  <2> QED
    BY <2>1, EnqueueInv, FetchInv, SendInv, MarkDeliveredInv, MarkFailedInv,
       AbortInv, ElapseOrPruneInv DEF Next, Drain
<1> QED BY <1>1, InitInv, PTL DEF Spec

-----------------------------------------------------------------------------
(* The properties of Outbox *)

\* Every reachable state is well typed; the failure count never passes the
\* ceiling.
THEOREM TypeCorrect == Spec => []TypeOK
<1>1. Inv => TypeOK
  BY DEF Inv, Types, Accounts, TypeOK
<1> QED BY <1>1, Invariance, PTL

\* No event is dropped silently: delivered rows were received, dead letters
\* used up max_attempts sends.
THEOREM SettlingHasCause == Spec => []SettledForCause
<1>1. Inv => SettledForCause
  BY DEF Inv
<1> QED BY <1>1, Invariance, PTL

\* The notifier is called at most max_attempts times for a row, plus once for
\* each drain iteration that ended early.
THEOREM TriesAreBounded == Spec => []BoundedTries
<1>1. Inv => BoundedTries
  BY DEF Inv, Types, Accounts, BoundedTries
<1> QED BY <1>1, Invariance, PTL

\* The rows a drain iteration still has to handle are pending in the table, so
\* its unconditional updates never touch a row that was settled or removed.
THEOREM HandledRowsArePending == Spec => []BatchIsPending
<1>1. Inv => BatchIsPending
  BY DEF Inv
<1> QED BY <1>1, Invariance, PTL

-----------------------------------------------------------------------------
(* Refinement *)

LEMMA InitRefines == Init => Promise!Init
BY DEF Init, Promise!Init, Told

\* The safety half of ImplementsDelivery: every step of the outbox, a crash or
\* a retention pass included, is a step of Delivery or leaves it unchanged.
THEOREM StepsRefineDelivery == Spec => Promise!Init /\ [][Promise!Next]_(Promise!vars)
<1>1. Inv /\ [Next]_vars => [Promise!Next]_(Promise!vars)
  <2> SUFFICES ASSUME Inv, [Next]_vars
               PROVE  Promise!Next \/ UNCHANGED Promise!vars
    OBVIOUS
  <2> USE DEF Inv, Types, Told, Promise!vars
  <2>1. ASSUME NEW k \in Keys, Enqueue(k) PROVE Promise!Next
    <3>1. Promise!Accept(k)
      BY <2>1 DEF Enqueue, Promise!Accept
    <3> QED BY <3>1 DEF Promise!Next
  <2>2. ASSUME NEW k \in Keys, Send(k) PROVE Promise!Next \/ UNCHANGED Promise!vars
    <3>1. state[k] = "Pending"
      BY <2>2 DEF Send, BatchIsPending
    <3>2. CASE messages' = messages
      BY <2>2, <3>2 DEF Send, row
    <3>3. CASE messages' = [messages EXCEPT ![k] = @ + 1]
      <4>1. Promise!Tell(k)
        BY <2>2, <3>1, <3>3 DEF Send, row, Promise!Tell
      <4> QED BY <4>1 DEF Promise!Next
    <3> QED BY <2>2, <3>2, <3>3 DEF Send
  <2>3. ASSUME MarkDelivered PROVE Promise!Next
    <3>1. sending \in Keys /\ state[sending] = "Pending" /\ sending \in Told
      BY <2>3 DEF MarkDelivered, Handling, BatchIsPending
    <3>2. Promise!Settle(sending)
      BY <2>3, <3>1 DEF MarkDelivered, ghost, Promise!Settle
    <3> QED BY <3>1, <3>2 DEF Promise!Next
  <2>4. ASSUME MarkFailed PROVE Promise!Next \/ UNCHANGED Promise!vars
    <3>1. sending \in Keys /\ state[sending] = "Pending"
      BY <2>4 DEF MarkFailed, BatchIsPending
    <3>2. CASE attempts[sending] + 1 >= MaxAttempts
      <4>1. Promise!Settle(sending)
        BY <2>4, <3>1, <3>2 DEF MarkFailed, ghost, Promise!Settle
      <4> QED BY <3>1, <4>1 DEF Promise!Next
    <3>3. CASE ~(attempts[sending] + 1 >= MaxAttempts)
      BY <2>4, <3>1, <3>3 DEF MarkFailed, ghost
    <3> QED BY <3>2, <3>3
  <2>5. ASSUME NEW k \in Keys, Prune(k) PROVE Promise!Next
    <3>1. Promise!Forget(k)
      BY <2>5 DEF Prune, ghost, Settled, Promise!Forget
    <3> QED BY <3>1 DEF Promise!Next
  <2>6. ASSUME NEW k \in Keys, BackoffElapses(k) PROVE UNCHANGED Promise!vars
    BY <2>6 DEF BackoffElapses, ghost
  <2>7. ASSUME FetchReady \/ Abort PROVE UNCHANGED Promise!vars
    BY <2>7 DEF FetchReady, Abort, row, ghost
  <2>8. CASE UNCHANGED vars
    BY <2>8 DEF vars, row, ghost
  <2> QED
    BY <2>1, <2>2, <2>3, <2>4, <2>5, <2>6, <2>7, <2>8 DEF Next, Drain
<1> QED BY <1>1, InitRefines, Invariance, PTL DEF Spec

=============================================================================
