------------------------------ MODULE Dispatch ------------------------------
(***************************************************************************)
(* What the scheduler promises for each (voucher, action) intent, without  *)
(* a table, workers or clocks: the intent is accepted once and never       *)
(* revived by accepting it again, one party at a time takes it, what is    *)
(* taken runs at most once before it is closed or queued again, and only   *)
(* the outcome of a run queues it again.  Nothing makes a party take an    *)
(* intent, so the promise is about safety alone.                           *)
(***************************************************************************)
EXTENDS Naturals

CONSTANT Jobs

VARIABLES
  phase,  \* "None", "Queued", "Taken", "Begun" or "Closed"
  runs    \* the times each intent was run

vars == <<phase, runs>>

Init ==
  /\ phase = [j \in Jobs |-> "None"]
  /\ runs = [j \in Jobs |-> 0]

Accept(j) ==
  /\ phase[j] = "None"
  /\ phase' = [phase EXCEPT ![j] = "Queued"]
  /\ UNCHANGED runs

Take(j) ==
  /\ phase[j] = "Queued"
  /\ phase' = [phase EXCEPT ![j] = "Taken"]
  /\ UNCHANGED runs

Run(j) ==
  /\ phase[j] = "Taken"
  /\ phase' = [phase EXCEPT ![j] = "Begun"]
  /\ runs' = [runs EXCEPT ![j] = @ + 1]

Conclude(j) ==
  /\ phase[j] = "Begun"
  /\ \E p \in {"Closed", "Queued"} : phase' = [phase EXCEPT ![j] = p]
  /\ UNCHANGED runs

\* Intents are given up: one is cancelled, those missed while the process was
\* down are stale, those taken when it stops are lost.
GiveUp(J) ==
  /\ \A j \in J : phase[j] \in {"Queued", "Taken", "Begun"}
  /\ phase' = [j \in Jobs |-> IF j \in J THEN "Closed" ELSE phase[j]]
  /\ UNCHANGED runs

MoveOn(j) ==
  Take(j) \/ Run(j) \/ Conclude(j) \/ \E J \in SUBSET Jobs : j \in J /\ GiveUp(J)

Next == \E j \in Jobs : Accept(j) \/ MoveOn(j)

Spec == Init /\ [][Next]_vars

=============================================================================
