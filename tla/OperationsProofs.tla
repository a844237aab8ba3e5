--------------------------- MODULE OperationsProofs ---------------------------
(***************************************************************************)
(* Proofs about the running service, for any set of workers and any bound  *)
(* on the failures told apart.                                             *)
(***************************************************************************)
EXTENDS Operations, TLAPS

USE OperationsAssumption

\* What a loop and its registry entry have in common: the entry tells how the
\* last iteration ended, until the loop ends by itself.
StateAfter(result) ==
  CASE result = "None"      -> "Starting"
    [] result = "Ok"        -> "Healthy"
    [] result = "Transient" -> "Degraded"
    [] result = "Fatal"     -> "Failed"

EntryFollowsLoop ==
  \A w \in Workers :
    /\ health[w].failures = failures[w]
    /\ health[w].state = IF phase[w] = "ended" THEN "Stopped" ELSE StateAfter(last[w])

ShutdownInv == main \in {"closing", "stopped", "error"} => \A w \in Workers : phase[w] \notin Running

IInv == TypeOK /\ EntryFollowsLoop /\ ShutdownInv

\* Counting up stays within the bound.
LEMMA UpType == \A n \in 0..MaxFailures : Up(n) \in 0..MaxFailures
  BY DEF Up

\* A mark is a registry entry that tells the result, and counts as the loop does.
LEMMA MarkTells ==
  ASSUME NEW h \in [state : ServiceState, failures : 0..MaxFailures], NEW r \in Result
  PROVE /\ Mark(h, r) \in [state : ServiceState, failures : 0..MaxFailures]
        /\ Mark(h, r).state = StateAfter(r)
        /\ Mark(h, r).failures = IF r = "Ok" THEN 0 ELSE Up(h.failures)
<1>1. Up(h.failures) \in 0..MaxFailures BY UpType
<1>2. CASE r = "Ok" BY <1>2 DEF Mark, StateAfter, ServiceState
<1>3. CASE r = "Transient" BY <1>1, <1>3 DEF Mark, StateAfter, ServiceState
<1>4. CASE r = "Fatal" BY <1>1, <1>4 DEF Mark, StateAfter, ServiceState
<1> QED BY <1>2, <1>3, <1>4 DEF Result

LEMMA InitInv == Init => IInv
<1> SUFFICES ASSUME Init PROVE IInv OBVIOUS
<1>1. TypeOK
  <2>1. 0 \in 0..MaxFailures OBVIOUS
  <2>2. [state |-> "Starting", failures |-> 0] \in [state : ServiceState, failures : 0..MaxFailures]
        BY <2>1 DEF ServiceState
  <2>3. health \in [Workers -> [state : ServiceState, failures : 0..MaxFailures]]
        BY <2>2 DEF Init
  <2>4. failures \in [Workers -> 0..MaxFailures] BY <2>1 DEF Init
  <2>5. /\ phase \in [Workers -> Running \union {"ended", "aborted"}]
        /\ last \in [Workers -> Result \union {"None"}]
        BY DEF Init, Running
  <2> QED BY <2>3, <2>4, <2>5 DEF Init, TypeOK
<1>2. EntryFollowsLoop BY DEF Init, EntryFollowsLoop, StateAfter
<1>3. ShutdownInv BY DEF Init, ShutdownInv
<1> QED BY <1>1, <1>2, <1>3 DEF IInv

LEMMA CompleteInv ==
  ASSUME IInv, NEW w \in Workers, Complete(w)
  PROVE IInv'
<1>1. PICK r \in Result :
        /\ failures' = [failures EXCEPT ![w] = IF r = "Ok" THEN 0 ELSE Up(@)]
        /\ health' = [health EXCEPT ![w] = Mark(@, r)]
        /\ last' = [last EXCEPT ![w] = r]
      BY DEF Complete
<1>2. /\ phase[w] = "iterating" /\ phase' = [phase EXCEPT ![w] = "waiting"]
      /\ UNCHANGED <<main, cancelled, api>>
      BY DEF Complete
<1>3. /\ health[w] \in [state : ServiceState, failures : 0..MaxFailures]
      /\ failures[w] \in 0..MaxFailures /\ health[w].failures = failures[w]
      BY DEF IInv, TypeOK, EntryFollowsLoop
<1>4. TypeOK'
  <2>1. Up(failures[w]) \in 0..MaxFailures BY <1>3, UpType
  <2>2. failures' \in [Workers -> 0..MaxFailures] BY <1>1, <1>3, <2>1 DEF IInv, TypeOK
  <2>3. health' \in [Workers -> [state : ServiceState, failures : 0..MaxFailures]]
        BY <1>1, <1>3, MarkTells DEF IInv, TypeOK
  <2>4. last' \in [Workers -> Result \union {"None"}] BY <1>1 DEF IInv, TypeOK
  <2>5. phase' \in [Workers -> Running \union {"ended", "aborted"}]
        BY <1>2 DEF IInv, TypeOK, Running
  <2> QED BY <1>2, <2>2, <2>3, <2>4, <2>5 DEF IInv, TypeOK
<1>5. EntryFollowsLoop'
  <2> SUFFICES ASSUME NEW x \in Workers
               PROVE /\ health'[x].failures = failures'[x]
                     /\ health'[x].state = IF phase'[x] = "ended" THEN "Stopped" ELSE StateAfter(last'[x])
      BY DEF EntryFollowsLoop
  <2>1. CASE x = w
    <3>1. health'[w] = Mark(health[w], r) /\ last'[w] = r /\ phase'[w] = "waiting"
          BY <1>1, <1>2 DEF IInv, TypeOK
    <3>2. failures'[w] = IF r = "Ok" THEN 0 ELSE Up(failures[w])
          BY <1>1 DEF IInv, TypeOK
    <3> QED BY <2>1, <3>1, <3>2, <1>3, MarkTells
  <2>2. CASE x # w
        BY <2>2, <1>1, <1>2 DEF IInv, TypeOK, EntryFollowsLoop
  <2> QED BY <2>1, <2>2
<1>6. ShutdownInv'
      BY <1>2 DEF IInv, TypeOK, ShutdownInv, Running
<1> QED BY <1>4, <1>5, <1>6 DEF IInv

LEMMA WakeInv ==
  ASSUME IInv, NEW w \in Workers, Wake(w)
  PROVE IInv'
<1>1. TypeOK' BY DEF IInv, TypeOK, Wake, Running
<1>2. EntryFollowsLoop' BY DEF IInv, TypeOK, EntryFollowsLoop, Wake
<1>3. ShutdownInv' BY DEF IInv, TypeOK, ShutdownInv, Wake, Running
<1> QED BY <1>1, <1>2, <1>3 DEF IInv

LEMMA BreakInv ==
  ASSUME IInv, NEW w \in Workers, Break(w)
  PROVE IInv'
<1>1. TypeOK' BY DEF IInv, TypeOK, Break, Running, ServiceState
<1>2. EntryFollowsLoop'
  <2> SUFFICES ASSUME NEW x \in Workers
               PROVE /\ health'[x].failures = failures'[x]
                     /\ health'[x].state = IF phase'[x] = "ended" THEN "Stopped" ELSE StateAfter(last'[x])
      BY DEF EntryFollowsLoop
  <2>1. CASE x = w BY <2>1 DEF IInv, TypeOK, EntryFollowsLoop, Break
  <2>2. CASE x # w BY <2>2 DEF IInv, TypeOK, EntryFollowsLoop, Break
  <2> QED BY <2>1, <2>2
<1>3. ShutdownInv' BY DEF IInv, TypeOK, ShutdownInv, Break, Running
<1> QED BY <1>1, <1>2, <1>3 DEF IInv

LEMMA GraceInv ==
  ASSUME IInv, GraceExpires
  PROVE IInv'
<1>1. TypeOK' BY DEF IInv, TypeOK, GraceExpires, Running
<1>2. EntryFollowsLoop' BY DEF IInv, TypeOK, EntryFollowsLoop, GraceExpires, Running
<1>3. ShutdownInv' BY DEF IInv, TypeOK, ShutdownInv, GraceExpires, Running
<1> QED BY <1>1, <1>2, <1>3 DEF IInv

\* Every step keeps the inductive invariant: one case per action.
LEMMA NextInv == IInv /\ [Next]_vars => IInv'
<1> SUFFICES ASSUME IInv, [Next]_vars PROVE IInv' OBVIOUS
<1>1. CASE UNCHANGED vars
      BY <1>1 DEF IInv, TypeOK, EntryFollowsLoop, ShutdownInv, vars, loop
<1>2. CASE Bind
      BY <1>2 DEF IInv, TypeOK, EntryFollowsLoop, ShutdownInv, Bind, loop
<1>3. CASE ApiStops
      BY <1>3 DEF IInv, TypeOK, EntryFollowsLoop, ShutdownInv, ApiStops, loop
<1>4. CASE Signal
      BY <1>4 DEF IInv, TypeOK, EntryFollowsLoop, ShutdownInv, Signal, loop
<1>5. CASE Drained
      BY <1>5 DEF IInv, TypeOK, EntryFollowsLoop, ShutdownInv, Drained, loop
<1>6. CASE Exit
      BY <1>6 DEF IInv, TypeOK, EntryFollowsLoop, ShutdownInv, Exit, loop
<1>7. CASE GraceExpires BY <1>7, GraceInv
<1>8. CASE \E w \in Workers : Complete(w) \/ Wake(w) \/ Break(w)
      BY <1>8, CompleteInv, WakeInv, BreakInv
<1> QED BY <1>1, <1>2, <1>3, <1>4, <1>5, <1>6, <1>7, <1>8 DEF Next

\* The inductive invariant holds throughout.
THEOREM Inductive == Spec => []IInv
  BY InitInv, NextInv, PTL DEF Spec

\* The service's variables keep their types (worker.rs:108).
THEOREM TypeCorrect == Spec => []TypeOK
<1>1. IInv => TypeOK BY DEF IInv
<1> QED BY <1>1, Inductive, PTL

\* The streak of failures that the registry shows is the loop's own, for any
\* number of workers and failures.
THEOREM StreakIsShown == Spec => []CountersAgree
<1>1. IInv => CountersAgree BY DEF IInv, EntryFollowsLoop, CountersAgree
<1> QED BY <1>1, Inductive, PTL

\* Once the supervisor is through nothing runs on, and exactly the workers that
\* ended by themselves read stopped.
THEOREM ShutdownIsComplete == Spec => []NothingRunsOn
<1>1. IInv => NothingRunsOn
      BY DEF IInv, TypeOK, EntryFollowsLoop, ShutdownInv, NothingRunsOn, Exited, StateAfter, Result
<1> QED BY <1>1, Inductive, PTL

\* The states that count are those of the loops' last iterations.
LEMMA CountedStates ==
  ASSUME IInv, NEW w \in Workers
  PROVE /\ Counted(health[w]) <=> phase[w] # "ended"
        /\ Counted(health[w]) => health[w].state \in {"Starting", "Healthy", "Degraded", "Failed"}
        /\ Counted(health[w]) => (health[w].state = "Failed" <=> last[w] = "Fatal")
  BY DEF IInv, TypeOK, EntryFollowsLoop, Counted, StateAfter, Result

\* The worst of a set of states is one of them, and failed when one is.
LEMMA WorstOf ==
  ASSUME NEW S \in SUBSET {"Starting", "Healthy", "Degraded", "Failed"}, S # {}
  PROVE LET worst == CHOOSE s \in S : \A t \in S : Severity(t) <= Severity(s)
        IN worst \in S /\ (worst = "Failed" <=> "Failed" \in S)
<1> DEFINE worst == CHOOSE s \in S : \A t \in S : Severity(t) <= Severity(s)
<1>1. /\ Severity("Starting") = 0 /\ Severity("Healthy") = 1
      /\ Severity("Degraded") = 2 /\ Severity("Failed") = 3
      BY DEF Severity
<1>2. \E s \in S : \A t \in S : Severity(t) <= Severity(s)
  <2>1. CASE "Failed" \in S BY <2>1, <1>1
  <2>2. CASE "Failed" \notin S /\ "Degraded" \in S BY <2>2, <1>1
  <2>3. CASE S \subseteq {"Starting", "Healthy"} /\ "Healthy" \in S BY <2>3, <1>1
  <2>4. CASE S \subseteq {"Starting"}
    <3>1. S = {"Starting"} BY <2>4
    <3> QED BY <3>1, <1>1
  <2> QED BY <2>1, <2>2, <2>3, <2>4
<1>3. worst \in S /\ \A t \in S : Severity(t) <= Severity(worst)
      BY <1>2
<1>4. ASSUME "Failed" \in S PROVE worst = "Failed"
  <2>1. Severity("Failed") <= Severity(worst) BY <1>3, <1>4
  <2>2. worst \in {"Starting", "Healthy", "Degraded", "Failed"} BY <1>3
  <2> HIDE DEF worst
  <2> QED BY <1>1, <2>1, <2>2
<1> QED BY <1>3, <1>4

\* Readiness is honest: a failed worker that has not ended is never hidden, and
\* nothing else makes the service unready.
THEOREM NoFailureIsHidden == Spec => []ReadinessIsHonest
<1>1. ASSUME IInv PROVE ReadinessIsHonest
  <2> DEFINE counted == {x \in Workers : Counted(health[x])}
             states  == {health[w].state : w \in counted}
  <2>1. states \in SUBSET {"Starting", "Healthy", "Degraded", "Failed"}
        BY <1>1, CountedStates
  <2>2. "Failed" \in states <=> \E w \in Workers : phase[w] # "ended" /\ last[w] = "Fatal"
        BY <1>1, CountedStates
  <2>3. CASE states = {}
    <3>1. Overall = "Starting" BY <2>3 DEF Overall
    <3> QED BY <2>2, <2>3, <3>1 DEF ReadinessIsHonest, Ready
  <2>4. CASE states # {}
    <3>1. Overall = CHOOSE s \in states : \A t \in states : Severity(t) <= Severity(s)
          BY <2>4 DEF Overall
    <3>2. Overall = "Failed" <=> "Failed" \in states
          BY <2>1, <2>4, <3>1, WorstOf
    <3> QED BY <2>2, <3>2 DEF ReadinessIsHonest, Ready
  <2> QED BY <2>3, <2>4
<1> QED BY <1>1, Inductive, PTL

\* The registry agrees with the loops and readiness with the registry, for any
\* number of workers (health.rs:70, worker.rs:122).
THEOREM RegistryIsTrue == Spec => []RegistryIsHonest
BY StreakIsShown, NoFailureIsHidden, PTL DEF RegistryIsHonest

=============================================================================
