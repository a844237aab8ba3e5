------------------------------ MODULE Delivery ------------------------------
(***************************************************************************)
(* What the notification outbox promises for each idempotency key: an      *)
(* accepted event stays pending until it is settled, it is settled as      *)
(* delivered only after the owner was told, giving up is explicit, and     *)
(* only a settled event is forgotten.  The owner may be told repeatedly.   *)
(***************************************************************************)
CONSTANT Keys

VARIABLES
  state,  \* "Absent", "Pending", "Delivered" or "DeadLettered"
  told    \* the events, pending or settled, that the owner has been told of

vars == <<state, told>>

Init ==
  /\ state = [k \in Keys |-> "Absent"]
  /\ told = {}

Accept(k) ==
  /\ state[k] = "Absent"
  /\ state' = [state EXCEPT ![k] = "Pending"]
  /\ told' = told \ {k}

Tell(k) ==
  /\ state[k] = "Pending"
  /\ told' = told \union {k}
  /\ UNCHANGED state

Settle(k) ==
  /\ state[k] = "Pending"
  /\ \/ k \in told /\ state' = [state EXCEPT ![k] = "Delivered"]
     \/ state' = [state EXCEPT ![k] = "DeadLettered"]
  /\ UNCHANGED told

Forget(k) ==
  /\ state[k] \in {"Delivered", "DeadLettered"}
  /\ state' = [state EXCEPT ![k] = "Absent"]
  /\ UNCHANGED told

Next == \E k \in Keys : Accept(k) \/ Tell(k) \/ Settle(k) \/ Forget(k)

Spec == Init /\ [][Next]_vars /\ \A k \in Keys : WF_vars(Settle(k))

=============================================================================
