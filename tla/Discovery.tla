------------------------------ MODULE Discovery ------------------------------
(***************************************************************************)
(* The discovery path: collector iterations fetch a batch of candidates,   *)
(* ingest it voucher by voucher into the canonical tables, and then put    *)
(* the resulting events into the notification outbox under their           *)
(* idempotency keys.  A candidate is the voucher its identity names and    *)
(* the version its meaningful fields hash to; an invalid one has the       *)
(* version NoVersion.  Latencies, counts, metrics and the collector_runs   *)
(* log are left out: nothing on this path reads them.                      *)
(***************************************************************************)
EXTENDS FiniteSets, Integers, Sequences

CONSTANTS
  Collectors,  \* collector workers
  Vouchers,    \* identity keys
  Versions,    \* version hashes
  NoVersion,   \* no row, or no valid candidate
  MaxBatch,    \* bound: candidates in a batch
  MaxRuns,     \* bound: collections begun
  MaxFaults    \* bound: storage failures and stops of the process

ASSUME DiscoveryAssumption ==
  /\ MaxBatch \in Nat /\ MaxRuns \in Nat /\ MaxFaults \in Nat
  /\ NoVersion \notin Versions

VARIABLES
  stored,    \* vouchers.version_hash of each voucher, NoVersion without a row
  trail,     \* voucher_versions
  seen,      \* voucher_observations
  health,    \* SourceHealth.state of each collector
  outbox,    \* idempotency keys of the rows of notification_outbox
  pc,        \* where each collector's iteration is
  todo,      \* candidates of the batch not yet ingested
  reading,   \* the candidate in the open transaction and the version it read
  partial,   \* something of the batch was unusable
  events,    \* events returned by the pipeline and not yet enqueued
  batch,     \* history: the batch of the last iteration
  runs,      \* history: collections begun
  faults,    \* history: failures of the environment
  told       \* history: versions whose event was put into the outbox

tables    == <<stored, trail, seen, outbox>>
iteration == <<pc, todo, reading, partial, events, batch>>
vars      == <<tables, health, iteration, runs, faults, told>>

Candidate == [voucher : Vouchers, version : Versions \union {NoVersion}]
Valid(x)  == x.version # NoVersion

NotReading == [candidate |-> NoVersion, version |-> NoVersion]

Found(kind, x) == [kind |-> kind, voucher |-> x.voucher, version |-> x.version]

Event == [kind : {"Discovered", "Updated"}, voucher : Vouchers, version : Versions]

SourceHealthState ==
  {"Healthy", "Degraded", "RateLimited", "AuthRequired", "Failed", "Disabled"}

\* Mutant: the kind of error is taken for the health state.
HealthAfterRaw(err) == err

\* record_failure, by the kind of CollectorError.
HealthAfter(err) ==
  CASE err = "RateLimited"  -> "RateLimited"
    [] err = "AuthRequired" -> "AuthRequired"
    [] err \in {"Transient", "Timeout"} -> "Degraded"
    [] err \in {"Malformed", "Config"}  -> "Failed"

CollectError == {"RateLimited", "AuthRequired", "Transient", "Timeout", "Malformed", "Config"}

\* Mutant: the version is not part of the key.
IdempotencyKeyShort(e) == <<e.kind, e.voucher>>

\* DomainEvent::idempotency_key: the kind, the voucher and the version.
IdempotencyKey(e) == <<e.kind, e.voucher, e.version>>

-----------------------------------------------------------------------------

Init ==
  /\ stored = [v \in Vouchers |-> NoVersion]
  /\ trail = {}
  /\ seen = {}
  /\ health = [c \in Collectors |-> "Healthy"]
  /\ outbox = {}
  /\ pc = [c \in Collectors |-> "idle"]
  /\ todo = [c \in Collectors |-> {}]
  /\ reading = [c \in Collectors |-> NotReading]
  /\ partial = [c \in Collectors |-> FALSE]
  /\ events = [c \in Collectors |-> << >>]
  /\ batch = [c \in Collectors |-> {}]
  /\ runs = 0
  /\ faults = 0
  /\ told = {}

\* The collection succeeds; items that did not parse make it partial.
Collect(c) ==
  /\ pc[c] = "idle" /\ runs < MaxRuns
  /\ \E found \in SUBSET Candidate :
       /\ Cardinality(found) <= MaxBatch
       /\ todo' = [todo EXCEPT ![c] = found]
       /\ batch' = [batch EXCEPT ![c] = found]
  /\ \E unparsed \in BOOLEAN : partial' = [partial EXCEPT ![c] = unparsed]
  /\ pc' = [pc EXCEPT ![c] = "ingesting"]
  /\ runs' = runs + 1
  /\ UNCHANGED <<tables, health, reading, events, faults, told>>

\* It fails or exceeds its timeout: the error decides the health, and the
\* iteration ends.
CollectFails(c) ==
  /\ pc[c] = "idle" /\ runs < MaxRuns
  /\ \E err \in CollectError : health' = [health EXCEPT ![c] = HealthAfter(err)]
  /\ batch' = [batch EXCEPT ![c] = {}]
  /\ runs' = runs + 1
  /\ UNCHANGED <<tables, pc, todo, reading, partial, events, faults, told>>

\* Mutant: a rejected candidate does not make the run partial.
RejectSilently(c, x) ==
  /\ pc[c] = "ingesting" /\ reading[c] = NotReading
  /\ x \in todo[c] /\ ~Valid(x)
  /\ todo' = [todo EXCEPT ![c] = @ \ {x}]
  /\ UNCHANGED <<tables, health, pc, reading, partial, events, batch, runs, faults, told>>

\* An invalid candidate is rejected and does not stop the batch.
Reject(c, x) ==
  /\ pc[c] = "ingesting" /\ reading[c] = NotReading
  /\ x \in todo[c] /\ ~Valid(x)
  /\ todo' = [todo EXCEPT ![c] = @ \ {x}]
  /\ partial' = [partial EXCEPT ![c] = TRUE]
  /\ UNCHANGED <<tables, health, pc, reading, events, batch, runs, faults, told>>

\* The transaction's conditional insert wins: a new voucher with its first
\* version and observation. The unique key makes this one step for everyone.
Create(c, x) ==
  /\ pc[c] = "ingesting" /\ reading[c] = NotReading
  /\ x \in todo[c] /\ Valid(x)
  /\ stored[x.voucher] = NoVersion
  /\ stored' = [stored EXCEPT ![x.voucher] = x.version]
  /\ trail' = trail \union {<<x.voucher, x.version>>}
  /\ seen' = seen \union {<<c, x.voucher, x.version>>}
  /\ events' = [events EXCEPT ![c] = Append(@, Found("Discovered", x))]
  /\ todo' = [todo EXCEPT ![c] = @ \ {x}]
  /\ UNCHANGED <<outbox, health, pc, reading, partial, batch, runs, faults, told>>

\* The insert loses and the transaction reads the stored version. PostgreSQL
\* lets another transaction commit between this read and the write.
ReadStored(c, x) ==
  /\ pc[c] = "ingesting" /\ reading[c] = NotReading
  /\ x \in todo[c] /\ Valid(x)
  /\ stored[x.voucher] # NoVersion
  /\ reading' = [reading EXCEPT ![c] = [candidate |-> x, version |-> stored[x.voucher]]]
  /\ UNCHANGED <<tables, health, pc, todo, partial, events, batch, runs, faults, told>>

\* Mutant: a changed version is not appended to the trail.
CommitUnversioned(c) ==
  /\ reading[c] # NotReading
  /\ LET x == reading[c].candidate
         changed == x.version # reading[c].version
     IN /\ stored' = IF changed THEN [stored EXCEPT ![x.voucher] = x.version] ELSE stored
        /\ seen' = seen \union {<<c, x.voucher, x.version>>}
        /\ events' = [events EXCEPT ![c] =
             IF changed THEN Append(@, Found("Updated", x)) ELSE @]
        /\ todo' = [todo EXCEPT ![c] = @ \ {x}]
  /\ reading' = [reading EXCEPT ![c] = NotReading]
  /\ UNCHANGED <<trail, outbox, health, pc, partial, batch, runs, faults, told>>

\* Same version: the row is only touched. Other version: the row is updated
\* and the version appended. Either way the observation is kept once.
Commit(c) ==
  /\ reading[c] # NotReading
  /\ LET x == reading[c].candidate
         changed == x.version # reading[c].version
     IN /\ stored' = IF changed THEN [stored EXCEPT ![x.voucher] = x.version] ELSE stored
        /\ trail' = IF changed THEN trail \union {<<x.voucher, x.version>>} ELSE trail
        /\ seen' = seen \union {<<c, x.voucher, x.version>>}
        /\ events' = [events EXCEPT ![c] =
             IF changed THEN Append(@, Found("Updated", x)) ELSE @]
        /\ todo' = [todo EXCEPT ![c] = @ \ {x}]
  /\ reading' = [reading EXCEPT ![c] = NotReading]
  /\ UNCHANGED <<outbox, health, pc, partial, batch, runs, faults, told>>

Ended(c) ==
  /\ pc' = [pc EXCEPT ![c] = "idle"]
  /\ todo' = [todo EXCEPT ![c] = {}]
  /\ reading' = [reading EXCEPT ![c] = NotReading]
  /\ partial' = [partial EXCEPT ![c] = FALSE]
  /\ events' = [events EXCEPT ![c] = << >>]

\* A storage error stops the batch: the events of the vouchers already
\* committed are dropped with it.
IngestFails(c) ==
  /\ pc[c] = "ingesting" /\ faults < MaxFaults
  /\ Ended(c)
  /\ health' = [health EXCEPT ![c] = HealthAfter("Config")]
  /\ faults' = faults + 1
  /\ UNCHANGED <<tables, batch, runs, told>>

\* The batch is through: only a batch without a flaw leaves the source healthy.
FinishRun(c) ==
  /\ pc[c] = "ingesting" /\ todo[c] = {}
  /\ health' = [health EXCEPT ![c] = IF partial[c] THEN "Degraded" ELSE "Healthy"]
  /\ pc' = [pc EXCEPT ![c] = "enqueueing"]
  /\ UNCHANGED <<tables, todo, reading, partial, events, batch, runs, faults, told>>

\* One insert per event, in the batch's order and each on its own: a key that
\* is in the table already changes nothing.
Enqueue(c) ==
  /\ pc[c] = "enqueueing" /\ events[c] # << >>
  /\ events' = [events EXCEPT ![c] = Tail(@)]
  /\ LET e == Head(events[c])
     IN IF IdempotencyKey(e) \in outbox
        THEN UNCHANGED <<outbox, told>>
        ELSE /\ outbox' = outbox \union {IdempotencyKey(e)}
             /\ told' = told \union {<<e.voucher, e.version>>}
  /\ UNCHANGED <<stored, trail, seen, health, pc, todo, reading, partial, batch, runs, faults>>

EndIteration(c) ==
  /\ pc[c] = "enqueueing" /\ events[c] = << >>
  /\ Ended(c)
  /\ UNCHANGED <<tables, health, batch, runs, faults, told>>

\* An insert into the outbox fails: the iteration ends and the remaining
\* events with it.
EnqueueFails(c) ==
  /\ pc[c] = "enqueueing" /\ events[c] # << >> /\ faults < MaxFaults
  /\ Ended(c)
  /\ faults' = faults + 1
  /\ UNCHANGED <<tables, health, batch, runs, told>>

\* The process stops and starts again: workers are cancelled wherever they
\* stand, and source health is what a new source has.
Crash ==
  /\ faults < MaxFaults
  /\ pc' = [c \in Collectors |-> "idle"]
  /\ todo' = [c \in Collectors |-> {}]
  /\ reading' = [c \in Collectors |-> NotReading]
  /\ partial' = [c \in Collectors |-> FALSE]
  /\ events' = [c \in Collectors |-> << >>]
  /\ batch' = [c \in Collectors |-> {}]
  /\ health' = [c \in Collectors |-> "Healthy"]
  /\ faults' = faults + 1
  /\ UNCHANGED <<tables, runs, told>>

Next ==
  \/ \E c \in Collectors :
       \/ Collect(c) \/ CollectFails(c)
       \/ \E x \in todo[c] : Reject(c, x) \/ Create(c, x) \/ ReadStored(c, x)
       \/ Commit(c) \/ IngestFails(c) \/ FinishRun(c)
       \/ Enqueue(c) \/ EnqueueFails(c) \/ EndIteration(c)
  \/ Crash

Spec == Init /\ [][Next]_vars

-----------------------------------------------------------------------------
(* Properties *)

\* Every variable holds a value of its type.
TypeOK ==
  /\ stored \in [Vouchers -> Versions \union {NoVersion}]
  /\ trail \subseteq Vouchers \X Versions
  /\ seen \subseteq Collectors \X Vouchers \X Versions
  /\ health \in [Collectors -> SourceHealthState]
  /\ runs \in 0..MaxRuns /\ faults \in 0..MaxFaults
  /\ outbox \subseteq {IdempotencyKey(e) : e \in Event}
  /\ pc \in [Collectors -> {"idle", "ingesting", "enqueueing"}]
  /\ todo \in [Collectors -> SUBSET Candidate]
  /\ reading \in [Collectors -> {NotReading} \union [candidate : Candidate, version : Versions]]
  /\ \A c \in Collectors : reading[c] # NotReading => reading[c].candidate \in todo[c]
  /\ partial \in [Collectors -> BOOLEAN]
  /\ events \in [Collectors -> Seq(Event)]
  /\ batch \in [Collectors -> SUBSET Candidate]
  /\ told \subseteq Vouchers \X Versions

OnItsWay(v, ver) ==
  \E c \in Collectors : \E i \in DOMAIN events[c] :
    events[c][i].voucher = v /\ events[c][i].version = ver

\* Without failures nothing is lost between the tables and the outbox: every
\* version stored was announced or is carried by a collector that will
\* announce it, however concurrent transactions interleave.
NothingLostWithoutFault ==
  faults = 0 => \A x \in trail : x \in told \/ OnItsWay(x[1], x[2])

\* The row always holds a version of the voucher's trail, and the outbox never
\* announces one that is not in it: what the owner is told of was committed.
AnnouncedIsStored ==
  /\ \A v \in Vouchers : stored[v] # NoVersion => <<v, stored[v]>> \in trail
  /\ told \subseteq trail

\* A source whose last run reads healthy stored everything that run fetched: a
\* rejected candidate or a persistence failure never leaves it healthy.
HealthyMeansStored ==
  \A c \in Collectors :
    pc[c] # "ingesting" /\ health[c] = "Healthy" =>
      \A x \in batch[c] : Valid(x) /\ <<c, x.voucher, x.version>> \in seen

-----------------------------------------------------------------------------
(* What the repository says and the program does not do *)

\* storage/src/repositories/outbox.rs: events are enqueued atomically with the
\* change that produced them. Stated weakly: once the collectors rest, every
\* version stored has been announced.
NoSilentChange ==
  (\A c \in Collectors : pc[c] = "idle") => trail \subseteq told

=============================================================================
