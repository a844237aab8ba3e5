------------------------------- MODULE Outbox -------------------------------
(***************************************************************************)
(* The notification outbox: producers enqueue events under their           *)
(* idempotency key, one worker drains the table through a Notifier, the    *)
(* retention pass removes settled rows.  A row is named by its key.        *)
(* next_attempt_at is abstracted to whether it has been reached (due);     *)
(* created_at is a reading of a clock that several inserts may share.      *)
(***************************************************************************)
EXTENDS Integers, FiniteSets

CONSTANTS
  Keys,         \* idempotency keys
  NoRow,        \* no row is being handled
  MaxAttempts,  \* OutboxWorkerConfig.max_attempts
  BatchSize,    \* OutboxWorkerConfig.batch_size
  MaxEnqueues,  \* bound: how many inserts of a row
  MaxAborts     \* bound: how many drain iterations end early

ASSUME OutboxAssumption ==
  /\ MaxAttempts \in Nat \ {0}
  /\ BatchSize \in Nat \ {0}
  /\ MaxEnqueues \in Nat
  /\ MaxAborts \in Nat
  /\ IsFiniteSet(Keys) /\ NoRow \notin Keys

VARIABLES
  state,     \* status of each row, "Absent" when there is none
  attempts,  \* attempt_count
  due,       \* next_attempt_at <= now
  created,   \* created_at
  clock,     \* the producers' clock, one reading per group of inserts
  batch,     \* the rows fetched by the drain iteration and not yet handled
  sending,   \* the row being handled, or NoRow between rows
  verdict,   \* what the notifier said of the row being handled
  inserts,   \* history: rows inserted so far
  aborts,    \* history: drain iterations that ended early
  tries,     \* history: calls of Notifier::send for the row
  messages   \* history: messages the owner has received from the row

row   == <<state, attempts, due, created>>
drain == <<batch, sending, verdict>>
ghost == <<inserts, aborts, tries, messages>>
vars  == <<row, clock, drain, ghost>>

RowState == {"Absent", "Pending", "Delivered", "DeadLettered"}
Settled  == {"Delivered", "DeadLettered"}

\* Mutant: a row that failed once is not fetched again.
ReadyOnce == {k \in Keys : state[k] = "Pending" /\ due[k] /\ attempts[k] = 0}

Ready == {k \in Keys : state[k] = "Pending" /\ due[k]}

-----------------------------------------------------------------------------

Init ==
  /\ state = [k \in Keys |-> "Absent"]
  /\ attempts = [k \in Keys |-> 0]
  /\ due = [k \in Keys |-> FALSE]
  /\ created = [k \in Keys |-> 0]
  /\ clock = 0
  /\ batch = {}
  /\ sending = NoRow
  /\ verdict = "None"
  /\ inserts = 0
  /\ aborts = 0
  /\ tries = [k \in Keys |-> 0]
  /\ messages = [k \in Keys |-> 0]

\* INSERT ... ON CONFLICT(idempotency_key) DO NOTHING: an occurrence whose row
\* is stored changes nothing. The row starts pending and due.
Enqueue(k) ==
  /\ state[k] = "Absent"
  /\ inserts < MaxEnqueues
  /\ state' = [state EXCEPT ![k] = "Pending"]
  /\ attempts' = [attempts EXCEPT ![k] = 0]
  /\ due' = [due EXCEPT ![k] = TRUE]
  /\ \E now \in {clock, clock + 1} : clock' = now /\ created' = [created EXCEPT ![k] = now]
  /\ inserts' = inserts + 1
  /\ tries' = [tries EXCEPT ![k] = 0]
  /\ messages' = [messages EXCEPT ![k] = 0]
  /\ UNCHANGED <<drain, aborts>>

\* The oldest ready rows, at most a batch of them.
OldestReady(rows) ==
  /\ rows \subseteq Ready
  /\ Cardinality(rows) <= BatchSize
  /\ Cardinality(rows) = BatchSize \/ rows = Ready
  /\ \A k \in rows, j \in Ready \ rows : created[k] <= created[j]

FetchReady ==
  /\ batch = {} /\ sending = NoRow
  /\ Ready # {}
  /\ \E rows \in SUBSET Ready : OldestReady(rows) /\ batch' = rows
  /\ UNCHANGED <<row, clock, sending, verdict, ghost>>

\* The next row of the batch goes to the notifier. A send that reports an
\* error may still have reached the owner.
Send(k) ==
  /\ sending = NoRow
  /\ k \in batch
  /\ \A j \in batch : created[k] <= created[j]
  /\ batch' = batch \ {k}
  /\ sending' = k
  /\ tries' = [tries EXCEPT ![k] = @ + 1]
  /\ \E reached, ok \in BOOLEAN :
       /\ ok => reached
       /\ verdict' = IF ok THEN "Ok" ELSE "Err"
       /\ messages' = IF reached THEN [messages EXCEPT ![k] = @ + 1] ELSE messages
  /\ UNCHANGED <<row, clock, inserts, aborts>>

\* Mutant: the row is marked delivered whatever the notifier answered.
MarkDeliveredAlways ==
  /\ sending # NoRow
  /\ state' = [state EXCEPT ![sending] = "Delivered"]
  /\ sending' = NoRow
  /\ verdict' = "None"
  /\ UNCHANGED <<attempts, due, created, clock, batch, ghost>>

MarkDelivered ==
  /\ sending # NoRow
  /\ verdict = "Ok"
  /\ state' = [state EXCEPT ![sending] = "Delivered"]
  /\ sending' = NoRow
  /\ verdict' = "None"
  /\ UNCHANGED <<attempts, due, created, clock, batch, ghost>>

\* Mutant: the ceiling is compared before the failure is counted.
MarkFailedLate ==
  /\ sending # NoRow
  /\ verdict = "Err"
  /\ attempts' = [attempts EXCEPT ![sending] = @ + 1]
  /\ due' = [due EXCEPT ![sending] = FALSE]
  /\ state' = [state EXCEPT ![sending] =
       IF attempts[sending] >= MaxAttempts THEN "DeadLettered" ELSE "Pending"]
  /\ sending' = NoRow
  /\ verdict' = "None"
  /\ UNCHANGED <<created, clock, batch, ghost>>

\* The failure is counted by the database; the row waits for its backoff or,
\* at the ceiling, is dead-lettered.
MarkFailed ==
  /\ sending # NoRow
  /\ verdict = "Err"
  /\ attempts' = [attempts EXCEPT ![sending] = @ + 1]
  /\ due' = [due EXCEPT ![sending] = FALSE]
  /\ state' = [state EXCEPT ![sending] =
       IF attempts[sending] + 1 >= MaxAttempts THEN "DeadLettered" ELSE "Pending"]
  /\ sending' = NoRow
  /\ verdict' = "None"
  /\ UNCHANGED <<created, clock, batch, ghost>>

\* The drain iteration ends here: its mark fails in storage, the worker is
\* cancelled at an await point, or the process stops. The rest of the batch
\* and the verdict on the row being handled are lost.
Abort ==
  /\ batch # {} \/ sending # NoRow
  /\ aborts < MaxAborts
  /\ batch' = {}
  /\ sending' = NoRow
  /\ verdict' = "None"
  /\ aborts' = aborts + 1
  /\ UNCHANGED <<row, clock, inserts, tries, messages>>

BackoffElapses(k) ==
  /\ state[k] = "Pending" /\ ~due[k]
  /\ due' = [due EXCEPT ![k] = TRUE]
  /\ UNCHANGED <<state, attempts, created, clock, drain, ghost>>

\* Mutant: retention removes old rows whatever their status.
PruneAny(k) ==
  /\ state[k] # "Absent"
  /\ state' = [state EXCEPT ![k] = "Absent"]
  /\ UNCHANGED <<attempts, due, created, clock, drain, ghost>>

Prune(k) ==
  /\ state[k] \in Settled
  /\ state' = [state EXCEPT ![k] = "Absent"]
  /\ UNCHANGED <<attempts, due, created, clock, drain, ghost>>

Drain == FetchReady \/ (\E k \in Keys : Send(k)) \/ MarkDelivered \/ MarkFailed

Next ==
  \/ \E k \in Keys : Enqueue(k) \/ BackoffElapses(k) \/ Prune(k)
  \/ Drain
  \/ Abort

\* The supervisor restarts the drain loop after every iteration, and time
\* passes: nothing else is promised to happen.
Fairness == WF_vars(Drain) /\ \A k \in Keys : WF_vars(BackoffElapses(k))

Spec == Init /\ [][Next]_vars /\ Fairness

-----------------------------------------------------------------------------
(* Properties *)

\* Every variable holds a value of its type.
TypeOK ==
  /\ state \in [Keys -> RowState]
  /\ attempts \in [Keys -> 0..MaxAttempts]
  /\ due \in [Keys -> BOOLEAN]
  /\ created \in [Keys -> Nat]
  /\ clock \in Nat
  /\ batch \in SUBSET Keys
  /\ sending \in Keys \union {NoRow}
  /\ verdict \in {"None", "Ok", "Err"}
  /\ inserts \in 0..MaxEnqueues
  /\ aborts \in 0..MaxAborts
  /\ tries \in [Keys -> Nat]
  /\ messages \in [Keys -> Nat]

\* A row is marked delivered only if the owner received its message, and is
\* given up only after max_attempts failed sends: no event is dropped silently.
SettledForCause ==
  \A k \in Keys :
    /\ state[k] = "Delivered" => messages[k] > 0
    /\ state[k] = "DeadLettered" => attempts[k] = MaxAttempts /\ tries[k] >= MaxAttempts

\* Retries are bounded: besides the attempts the row accounts for, the notifier
\* is called once more per drain iteration that ended before it could record
\* the outcome, and never for any other reason.
BoundedTries ==
  \A k \in Keys : tries[k] <= MaxAttempts + aborts

\* The rows a drain iteration still has to handle are pending in the table:
\* the unconditional updates of mark_delivered and mark_failed never touch a
\* row that was settled or removed in the meantime.
BatchIsPending ==
  \A k \in Keys : (k \in batch \/ sending = k) => state[k] = "Pending"

\* Every pending row is eventually delivered or dead-lettered, provided drain
\* iterations end early only finitely often.
EveryRowSettles ==
  \A k \in Keys : (state[k] = "Pending") ~> (state[k] # "Pending")

\* What the outbox promises its producers: see module Delivery.
Told == {k \in Keys : messages[k] > 0}

Promise == INSTANCE Delivery WITH told <- Told

\* The outbox with its worker, crashes and retention implements at-least-once
\* delivery with an explicit give-up, including its liveness.
ImplementsDelivery == Promise!Spec

=============================================================================
