----------------------------- MODULE Operations -----------------------------
(***************************************************************************)
(* The running service: the main task, the supervised worker loops with    *)
(* their health registry, the HTTP server that shows it, and the shutdown  *)
(* that a signal begins (main.rs, worker.rs, health.rs, api.rs).  Details, *)
(* timestamps and metrics are left out, a delay is whether it has elapsed, *)
(* and failures are counted up to MaxFailures.                             *)
(***************************************************************************)
EXTENDS Integers

CONSTANTS
  Workers,     \* collectors, the notifier and maintenance
  MaxFailures  \* bound: consecutive failures told apart

ASSUME OperationsAssumption == MaxFailures \in Nat \ {0}

VARIABLES
  main,       \* where main is: serving, draining its workers, closing the API
  cancelled,  \* the CancellationToken
  api,        \* the task of the HTTP server
  phase,      \* where each worker's loop is
  failures,   \* consecutive_failures of each loop
  health,     \* the registry's entry of each worker
  last        \* history: how each worker's last complete iteration ended

loop == <<phase, failures, health, last>>
vars == <<main, cancelled, api, loop>>

Exited == main \in {"stopped", "error"}

Result       == {"Ok", "Transient", "Fatal"}
ServiceState == {"Starting", "Healthy", "Degraded", "Failed", "Stopped"}
Running      == {"iterating", "waiting"}

\* The order of the enum's variants.
Severity(state) ==
  CASE state = "Starting" -> 0
    [] state = "Healthy"  -> 1
    [] state = "Degraded" -> 2
    [] state = "Failed"   -> 3
    [] state = "Stopped"  -> 4

Up(n) == IF n < MaxFailures THEN n + 1 ELSE n

\* Mutant: the result is taken for the state.
MarkRaw(h, result) == [h EXCEPT !.state = result]

\* Mutant: a success leaves the count.
MarkSticky(h, result) ==
  CASE result = "Ok"        -> [h EXCEPT !.state = "Healthy"]
    [] result = "Transient" -> [state |-> "Degraded", failures |-> Up(h.failures)]
    [] result = "Fatal"     -> [state |-> "Failed", failures |-> Up(h.failures)]

\* HealthHandle::mark_success, mark_degraded and mark_failure.
Mark(h, result) ==
  CASE result = "Ok"        -> [state |-> "Healthy", failures |-> 0]
    [] result = "Transient" -> [state |-> "Degraded", failures |-> Up(h.failures)]
    [] result = "Fatal"     -> [state |-> "Failed", failures |-> Up(h.failures)]

\* Mutant: stopped services count.
CountedAll(h) == TRUE

\* What HealthRegistry::overall looks at.
Counted(h) == h.state # "Stopped"

\* The worst state of a service that counts, Starting when none does.
Overall ==
  LET states == {health[w].state : w \in {x \in Workers : Counted(health[x])}}
  IN IF states = {} THEN "Starting"
     ELSE CHOOSE s \in states : \A t \in states : Severity(t) <= Severity(s)

\* GET /health/ready.
Ready == Overall # "Failed"

-----------------------------------------------------------------------------

\* Services are initialised, the workers spawned and the server task started.
Init ==
  /\ main = "serving"
  /\ cancelled = FALSE
  /\ api = "starting"
  /\ phase = [w \in Workers |-> "iterating"]
  /\ failures = [w \in Workers |-> 0]
  /\ health = [w \in Workers |-> [state |-> "Starting", failures |-> 0]]
  /\ last = [w \in Workers |-> "None"]

\* An iteration ends. The select that waits for it does not prefer the
\* cancellation, so this may happen after it.
Complete(w) ==
  /\ phase[w] = "iterating"
  /\ \E result \in Result :
       /\ failures' = [failures EXCEPT ![w] = IF result = "Ok" THEN 0 ELSE Up(@)]
       /\ health' = [health EXCEPT ![w] = Mark(@, result)]
       /\ last' = [last EXCEPT ![w] = result]
  /\ phase' = [phase EXCEPT ![w] = "waiting"]
  /\ UNCHANGED <<main, cancelled, api>>

\* Mutant: a worker that failed for good is not tried again.
WakeUnlessFatal(w) ==
  /\ phase[w] = "waiting" /\ last[w] # "Fatal"
  /\ phase' = [phase EXCEPT ![w] = "iterating"]
  /\ UNCHANGED <<main, cancelled, api, failures, health, last>>

\* The delay, the interval or the backoff, is over.
Wake(w) ==
  /\ phase[w] = "waiting"
  /\ phase' = [phase EXCEPT ![w] = "iterating"]
  /\ UNCHANGED <<main, cancelled, api, failures, health, last>>

\* Mutant: the cancellation is looked at between iterations only.
BreakBetween(w) ==
  /\ cancelled /\ phase[w] = "waiting"
  /\ phase' = [phase EXCEPT ![w] = "ended"]
  /\ health' = [health EXCEPT ![w].state = "Stopped"]
  /\ UNCHANGED <<main, cancelled, api, failures, last>>

\* The loop sees the cancellation: an iteration under way is dropped where it
\* stands, and the service is marked stopped.
Break(w) ==
  /\ cancelled /\ phase[w] \in Running
  /\ phase' = [phase EXCEPT ![w] = "ended"]
  /\ health' = [health EXCEPT ![w].state = "Stopped"]
  /\ UNCHANGED <<main, cancelled, api, failures, last>>

\* The server binds its address, or fails and leaves its error in the task.
Bind ==
  /\ api = "starting" /\ ~Exited
  /\ api' \in {"serving", "failed"}
  /\ UNCHANGED <<main, cancelled, loop>>

\* The server has no request left to finish.
ApiStops ==
  /\ api = "serving" /\ cancelled /\ ~Exited
  /\ api' = "stopped"
  /\ UNCHANGED <<main, cancelled, loop>>

\* SIGINT or SIGTERM: everything is cancelled and the supervisor drains.
Signal ==
  /\ main = "serving"
  /\ cancelled' = TRUE
  /\ main' = "draining"
  /\ UNCHANGED <<api, loop>>

Drained ==
  /\ main = "draining"
  /\ \A w \in Workers : phase[w] \notin Running
  /\ main' = "closing"
  /\ UNCHANGED <<cancelled, api, loop>>

\* Mutant: the tasks that are left are left alone.
GraceExpiresOnly ==
  /\ main = "draining"
  /\ main' = "closing"
  /\ UNCHANGED <<cancelled, api, loop>>

\* The grace period is over: the tasks that are left are aborted, and their
\* health stays as it is.
GraceExpires ==
  /\ main = "draining"
  /\ \E w \in Workers : phase[w] \in Running
  /\ phase' = [w \in Workers |-> IF phase[w] \in Running THEN "aborted" ELSE phase[w]]
  /\ main' = "closing"
  /\ UNCHANGED <<cancelled, api, failures, health, last>>

\* The server task is joined, within a grace period of its own; its error is
\* the program's.
Exit ==
  /\ main = "closing"
  /\ main' = IF api = "failed" THEN "error" ELSE "stopped"
  /\ UNCHANGED <<cancelled, api, loop>>

Next ==
  \/ \E w \in Workers : Complete(w) \/ Wake(w) \/ Break(w)
  \/ Bind \/ ApiStops \/ Signal \/ Drained \/ GraceExpires \/ Exit

\* Timers fire and the runtime polls a task that can go on. Nothing is assumed
\* of the iterations themselves, of signals, or of the grace period running out.
Fairness ==
  /\ \A w \in Workers : WF_vars(Wake(w)) /\ WF_vars(Break(w))
  /\ WF_vars(Drained) /\ WF_vars(Exit)

Spec == Init /\ [][Next]_vars /\ Fairness

-----------------------------------------------------------------------------
(* Properties *)

\* Every variable holds a value of its type.
TypeOK ==
  /\ main \in {"serving", "draining", "closing", "stopped", "error"}
  /\ cancelled \in BOOLEAN
  /\ api \in {"starting", "serving", "failed", "stopped"}
  /\ phase \in [Workers -> Running \union {"ended", "aborted"}]
  /\ failures \in [Workers -> 0..MaxFailures]
  /\ health \in [Workers -> [state : ServiceState, failures : 0..MaxFailures]]
  /\ last \in [Workers -> Result \union {"None"}]

\* The streak of failures that the registry shows is the one the loop backs
\* off by: two counters, kept in two places (worker.rs:122, health.rs:27).
CountersAgree == \A w \in Workers : health[w].failures = failures[w]

\* The service reads ready exactly while no worker that has not ended by itself
\* failed for good in its last iteration: neither a healthy, a starting nor a
\* stopped neighbour hides it, and one success clears it (health.rs:70).
ReadinessIsHonest ==
  Ready <=> ~ \E w \in Workers : phase[w] # "ended" /\ last[w] = "Fatal"

\* Once the supervisor is through, no worker runs, those that ended by
\* themselves read stopped, and those that did not read as they were.
NothingRunsOn ==
  main = "closing" \/ Exited =>
    \A w \in Workers :
      /\ phase[w] \notin Running
      /\ phase[w] = "ended" <=> health[w].state = "Stopped"

\* The registry agrees with the loops, and what the service says of itself is
\* drawn from no more and no less than what it keeps on those that count.
RegistryIsHonest == CountersAgree /\ ReadinessIsHonest

\* A worker goes on trying whatever its iterations return, for as long as the
\* service is not told to stop.  A signal ends the program, and with it every
\* worker, without a worker's iteration having to end and without the grace
\* period having to run out.
LivesUntilTheSignal ==
  /\ \A w \in Workers : phase[w] = "waiting" ~> phase[w] = "iterating" \/ cancelled
  /\ cancelled ~> Exited /\ \A w \in Workers : phase[w] \notin Running

=============================================================================
