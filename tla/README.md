# Verification of shopee-hunter

TLA+ models of shopee-hunter, the TLC instances that check them, and TLAPS
proofs of their most important properties for every instance. Two kinds of
module: state machines of the parts in which several tasks, a database and an
unreliable outside world meet, and operators for the parts that decide. File
names below are relative to `src/crates/` unless they start with `src/`.

## 1. The system

shopee-hunter is one process of tokio tasks over one SQL database (SQLite or
PostgreSQL). Collectors discover vouchers, a pipeline stores them and produces
events, a durable outbox delivers events to the owner over Telegram, a
scheduler keeps claim moments in a table, a claim service sends
account-mutating requests to Shopee, and a session manager decides whether the
account is fit for that.

| component | state it keeps | operations | talks to |
| --- | --- | --- | --- |
| claim service (`claimer`) | nothing between calls; rows of `claim_attempts`, `vouchers.status` | `attempt_claim`: policy, gate, intent, request, result, status | voucher and claim repositories, session manager, executor |
| session manager (`session/manager.rs`) | one snapshot behind a lock, a watch channel (the claim gate) | `observe`, `disable`, `bump_profile_version` | read by the claimer, written by probes, claim responses, the owner |
| scheduler (`scheduler`, `repositories/schedule.rs`) | rows of `schedule_jobs`; a worker's monotonic wait | `schedule`, `due_jobs`, `claim_job`, `set_status`, `wait_until`, `reconstruct` | the workers that run jobs |
| notification outbox (`notifier/outbox.rs`, `repositories/outbox.rs`) | rows of `notification_outbox` | `enqueue`, `fetch_ready`, `mark_delivered`, `mark_failed`, the drain worker | producers of events, the notifier, retention |
| discovery (`collectors/supervisor.rs`, `pipeline.rs`, `repositories/voucher.rs`) | `vouchers`, `voucher_versions`, `voucher_observations`, source health | one iteration: collect, ingest, enqueue | sources, the outbox |
| collectors (`collectors`, `domain/identity.rs`, `provenance.rs`) | source health, request budget | parse, validate, identify, hash, merge; pace | sources over HTTP, discovery |
| retention (`repositories/maintenance.rs`) | none | `prune` | claim attempts, outbox, versions, observations |
| worker supervision (`observability`) | tasks, the cancellation token, health registry, alert state | `supervise`, `shutdown`, health marks, alert evaluation | every worker |
| application (`app`) | settings, pause flag | `from_lookup`, wiring, HTTP API, shutdown | every part |
| Shopee client (`shopee-client`) | none | plan a request, classify an answer or a transport error | claimer, session probes |
| ranking, planning | none | score, eligibility; constraints, relevance, optimiser | the owner's questions |
| campaign | none; the loaded calendar | validate, resolve the profile, posture of a source | collectors' pace |
| analytics | none; reads `collector_runs`, `voucher_observations` | counters, rates, quality, advice, discovery summary | the owner |
| notifier messages and commands | the cooldown of each alert | format, send with retries, parse and authorise commands | outbox, Telegram |
| store conversions (`storage/convert.rs`, `domain` enumerations) | none | write, parse, compare as text | every repository |

What is hard here, and what each part must therefore guarantee:

* **claimer.** Every step of `attempt_claim` is an await point; other calls,
  crashes, storage errors and retention fall between any two. The intent must
  be on record before the request, a recorded success must not be repeated,
  the retry budget must hold, and the status must not run ahead of the trail.
* **session.** The gate is published after the lock is released, and a
  report may be older than the one it overwrites. An unusable account may be
  taken for healthy through old news only.
* **scheduler.** Several workers hold records of the same job, rows are moved
  and cancelled under them, the process stops while jobs wait. One execution
  per queueing, never early, and nothing the process missed while it was down.
* **outbox.** A message may arrive although an error is reported, an iteration
  may end before it records the outcome. No row may be settled without cause,
  none may stay pending, repetitions must be accounted for.
* **discovery.** Transactions of several collectors interleave, a batch can
  fail in the middle, events are inserted outside the transactions. What is
  stored must be announced, what is announced must be stored, and a healthy
  source must have stored what it fetched.
* **supervision.** A signal finds every loop somewhere else. Workers must go on
  after any failure, stop at the signal, and leave a registry that says how
  they ended.
* **decisions.** Tiers, ties, caps, sentinel values, precedence of markers,
  orders of input, text that stands for time. Each answer is tested on a few
  examples; what relates two answers to each other, or the answers of two
  crates to the same question, is not.

`PROJECT.json` lists the components with their files and the hazards with
their lines.

## 2. Modules

| module | models | instances | proofs |
| --- | --- | --- | --- |
| `SessionRules` | predicates on session states (`domain/session.rs`) | | |
| `ClaimRules` | result classes, retry steps, claim policy | | |
| `Claimer` | `attempt_claim` by any number of callers | `MCClaimer` | `ClaimerProofs` |
| `Session` | the session manager and its observers | `MCSession` | `SessionProofs` |
| `Dispatch` | abstract promise of the scheduler | | |
| `Scheduler` | `schedule_jobs`, workers, startup | `MCScheduler` | `SchedulerProofs` |
| `Delivery` | abstract promise of the outbox | | |
| `Outbox` | the outbox table, its worker, retention | `MCOutbox` | `OutboxProofs` |
| `Discovery` | collector iterations up to the outbox | `MCDiscovery` | `DiscoveryProofs` |
| `Operations` | supervised loops, registry, server, shutdown | `MCOperations` | `OperationsProofs` |
| `Basics` | optional fields | | |
| `Question` | the one variable of all decision modules | | |
| `Ranking`, `Planning`, `Advice` | score, eligibility; constraints, relevance, optimiser; the questions about them | `MCDecisions` | `DecisionsProofs` |
| `Campaign` | the calendar, the governing campaign, polling posture | `MCDecisions` | `CollectorProofs` |
| `Intake`, `Collecting` | items, candidates, identity, rows, merge, pace; one whole collection | `MCDecisions` | `CollectorProofs` |
| `Responses` | answers of the platform to claims and probes | `MCDecisions` | `DecisionsProofs` |
| `Analytics` | counters, rates, advice, discovery summary, timings | `MCDecisions` | `DecisionsProofs`, `CollectorProofs` |
| `Messages` | messages, one send with retries, alerts | `MCDecisions` | `DecisionsProofs` |
| `Startup` | settings, start, worker pace, admin calls, commands | `MCDecisions` | `DecisionsProofs`, `CollectorProofs` (pace) |
| `Records` | text columns and the queries on them | `MCDecisions` | `CollectorProofs` |
| `Decisions` | the union of the questions, and what the answers are to be | `MCDecisions` | `DecisionsProofs`, `CollectorProofs` |

### Claimer

A call is a number, given in the order in which calls read the clock; it
inserts at most one row, so `ledger[c]` is the row of call `c` in
`claim_attempts`. `pc[c]` is the await point reached, and there is one action
for each stretch between two: `Start`, `CheckSuccess`, `CountAttempts`,
`Decide` (the policy, with the session read there and everything else read
before), `PassGate`, `BeginAttempt`, `Execute`, `CompleteAttempt`,
`ApplyStatus`, `Finish`. `Abandon` ends a call at any of them (a storage error,
a dropped task), `Crash` ends all and resets the session, `ObserveSession` is
everybody else's report, and `Prune` is retention by age: only a prefix of
returned calls goes. `used` is at once the count read and the `retry_index`
stored. The caller's facts about the voucher (excluded, identifiers, window,
score) are chosen freely by `Decide`.

### Session

`state` is the snapshot, `gate` the watch channel, `account` the truth only
Shopee knows. Every observer carries a report to `Observe` (under the lock)
and, if the state changed, goes on to `Publish`. A report equal to the current
state publishes nothing. `overlap` is a history variable: the last transition
was made while an older one was still to be published. So are `current`, the
observers whose report was taken since the account last changed, and `informed`,
that such a report said what the snapshot says. Probes are tasks of the model;
in the code a tick of the health worker is called by tests only, so nothing is
said of how soon, or whether, the account is looked at.

### Scheduler and Dispatch

A job is its (voucher, action) pair, which the table's unique key makes it.
`Schedule` is the upsert (it moves any row to any moment, a past one included,
and never reopens one), `Select` is
`due_jobs`, `Claim`/`LoseClaim` are the two outcomes of the conditional update,
`Fire` ends the monotonic wait, `Record` and `Cancel` are the unconditional
`set_status`, `Reconstruct` is the startup pass. No crate drives these calls in
a loop yet: the order in which a worker makes them is the execution flow of
`src/ARCHITECTURE.md` section 14, and no step of it is fair. `missed` is a
history variable: the rows whose moment had passed by more than the grace when
the process last started. A pair that is new, or that was not missed, runs at
once when it is scheduled for a moment long past, as the tests of the scheduler
have it; one that was missed stays given up, whatever it is scheduled for. `Tick` advances the wall clock and the
monotonic clocks together; steps of the wall clock are not modelled.

`Dispatch` is what the rest may rely on, without table, workers or clocks: an
intent is accepted once and not revived by accepting it again, one party takes
it, what is taken is run at most once before it is closed or queued again, and
only the outcome of a run queues it again. It promises no liveness, as nothing
in the code drives the workers. In the refinement mapping the phase
of a job is "Begun" while a worker executes it, "Taken" while one waits on it,
"Queued" while its row is PENDING or READY, and "Closed" otherwise. A job that was
RUNNING at a crash is therefore "Closed": the promise is that of the code, which
gives such a job up without saying so, even when its moment is still to come
(`scheduler_crash`).

### Outbox and Delivery

A row is named by its idempotency key. `Send` chooses whether the message
arrived and, separately, whether the notifier reports success, with success
implying arrival. `Abort` ends an iteration between any two steps. `Delivery`
is what producers may rely on: a stored occurrence is told to the owner or
openly given up, and is never dropped while it is pending. The refinement
mapping takes "told" as the rows with at least one message.

### Discovery

One collector iteration is `Collect`, then `Reject`, `Create`, or `ReadStored`
and `Commit` for each candidate, `FinishRun`, then one `Enqueue` for each
event. `ReadStored` and `Commit` are separate because PostgreSQL lets another
transaction commit in between; with SQLite the write lock makes them one, a
special case of the same model. `IngestFails`, `EnqueueFails` and `Crash` are
the failures. Validation and hashing are abstracted to "valid" and "which
version". The `collector_runs` log and the retention of versions and
observations are left out.

### Operations

`main` is where the program is (`main.rs`), `phase` where each supervised loop
is (`worker.rs`), `health` the registry, `failures` the loop's own counter, and
`last` a history variable. `Complete` is the arm of the `select!` in which the
iteration ends and `Break` the one in which the token is cancelled; neither is
preferred, as in the code. `GraceExpires` aborts the tasks that are left, whose
health nobody marks. `Bind` and `ApiStops` are the HTTP server's task, whose
error is looked at only when it is joined, in `Exit`. A delay is whether it has
elapsed; how long it is belongs to `Startup`. Failures are told apart up to
`MaxFailures`, because the registry and the loop only ever compare or reset
them.

### The modules of decisions

The crates that decide are operators. `Question` holds the one variable: a state
is one question with its inputs, `Ask...` chooses it from the instance's sets,
and the properties are about the answers, which are computed by the operators.
Four parts keep something between two calls, and what they keep is then part of
the question: the alert evaluator the time of the last alert of each kind
(`EvaluateAlerts`), the control plane its flags (`CallControl`), the request
budget its timestamps (`TryConsume`), and the store the row of a voucher, next to
the view merged of its sources (`Observe`). They are asked any number of times,
up to the bounds of the instance. `Decisions` composes the questions of
all modules and states seven properties, one for each thing the owner relies on.
Each is a conjunction of parts, stated in the module of the code they are about,
next to an operator that breaks that part.

Names that the code compares without case or padding are pairs of a name and
its spelling, so that where a comparison is missing it shows. A stated field is
a number or a value, an absent one `None`. Money, percentages and moments are
whole numbers; `Rounded` is the rounding of halves to the even neighbour, and
offsets beyond the calendar's limit are represented. Texts that are searched
for markers are the sets of the markers in them, with those a marker contains.
A hash is what is hashed: a moment is hashed by its second (`CanonTime`), while
a row has it in the finer unit of which `PerSecond` make a second.

* `Ranking` has the score with its tiers and the eligibility rules; `Planning`
  has `constraint.rs`, `relevance.rs` and the search of `optimize.rs` with its
  limit and ties; `Advice` compares the plan with the best of all combinations.
* `Campaign` has validation, phases, windows, the governing campaign and
  the interval that results. The reference is the calendar itself: permuted,
  broken, or with one window open.
* `Intake` has what the two HTTP collectors make of an item, validation, the
  key and the version, the row after a number of observations, the merge, the
  interval with backoff, and the rolling budget. `Collecting` puts them
  together: an answer, its candidates, their ingestion in order until the
  database fails, the run's row, if it can be inserted, and the source's health,
  which `Analytics` then reads. An item with a field of a wrong type is
  `Mistyped`, and a body that holds one fails to decode as a whole. The loops over items and candidates are recursive functions of the
  number of items done.
* `Responses` has the precedence of `classify.rs` for claims and probes, and
  what the claim service and the prober make of a request that fails, a 429
  among them: a transient failure and a degraded session.
* `Messages` has what a message says that decides something, the whole retry
  loop of one send against any sequence of replies, and rounds of alert
  evaluation with a clock that may be set back.
* `Startup` goes from an environment, with every key whose value can be refused,
  to the workers that run or the error that stops the start. Of the settings on
  which nothing at the start depends (`OtherKeys`) it keeps whether they can be
  read. It has the delay of a supervised worker, sequences of admin
  calls and reports on the pause flag, and the commands of a chat.
* `Records` writes and reads moments as digits and compares them as text, and
  checks the words of the queries against those the program writes. A query is
  the set of the rows found, and what the database may return is the set of all
  orderings of them that its ORDER BY allows: ties are broken in any way.

## 3. What is checked

Each run's instance is its `.cfg`; the bounds are constants of the modules.

| run | shows |
| --- | --- |
| `claimer_racing` | four calls, two at a time, on one voucher with retention, crashes and errors. No request without a row; none after a recorded success while the record stands; at most one attempt over the budget; a status has an attempt that asks for it; review only after the diagnostic budget |
| `claimer_serial` | one call at a time over two vouchers, four calls: retry indices without a gap, the budget is a cap, a saved voucher stays saved and is not claimed again |
| `outbox_delivery` | two keys, four inserts, batches of two, two attempts, two aborted iterations: causes, bounds, liveness and the refinement of `Delivery` |
| `session_concurrent` | two probes, a claimer, the owner: the gate and the snapshot part only through overlapping publications; an unusable account is taken for healthy only until a report taken since arrives, or through one taken before |
| `scheduler_workers` | two workers, two jobs, a requeue for each, three calls of `schedule` for any moment, one crash, four clock values: the safety properties and the refinement of `Dispatch`, with jobs and workers interchangeable |
| `discovery_concurrent` | two collectors, one voucher with two versions that may return, batches of two, three runs, one failure |
| `operations` | three workers, failures told apart up to two, a signal at any point: the registry agrees with the loops, readiness shows exactly the workers that failed for good, nothing runs after the shutdown, workers go on until the signal and the signal ends them |
| `decisions` | every question of the instance, and every sequence of up to three alert rounds, three admin calls or reports, three observations of a voucher, and five requests to a budget: 134 thousand states |

`decisions` checks:

| property | parts |
| --- | --- |
| `AdviceIsSound` | better terms never score less across tier boundaries; an expired voucher ranks last; a plan saves as much as any combination that shares no slot, or discloses that the search was cut; no recommended voucher is idle; the order of the input does not matter; savings stay in the pool they are made on; a shop voucher is measured against all that is bought there; the watch list and the planner agree on every purchase; "likely" leaves nothing unchecked |
| `PollingIsMeasured` | the order of the file does not matter; every accepted setting keeps the floor; an open window finds its campaign running; a broken offset widens nothing; trouble never hurries a source; no hour holds more than its budget and nothing is refused without need; a failing worker waits, ever longer, up to the ceiling |
| `CollectedIsKept` | of an answer that is read no good item is lost among bad ones, each counted once; an answer that is not read, as one with a wrong-typed item, is given up whole and in sight; a replay does not depend on directory order; what validates can be claimed with the code shown; spelling changes neither identity nor version; the row holds the latest terms, its times to the second; merging is lossless and stable; stages move forward; every row reads back; text order is time order in the scheduler's queries; the queries' words are the program's |
| `AnswersAreReadRight` | one answer is a wall on both paths or on neither; a refusal in words ends SAVED only where an explicit code says so; a healthy verdict is proof a claim would accept |
| `OwnerIsTold` | a taken message is not sent again, unless the body of its success could not be read; a pause asked for is kept; a paused state is said; a final status is not announced as retried; the discount shown is the one counted on; alerts are a cooldown apart, and never silent for longer |
| `SourcesAreJudged` | advice shows in the score; failing never helps; shares are shares; one winner for each voucher; lateness shows; a limit reaches health and statistics; a useless source is disabled; the run shown is the latest of its source |
| `SettingsAreHonoured` | of the three sources there is a collector for, those enabled run and no others; what is off cannot stop the start; what is accepted starts; only the owner operates; commands mean the same in every spelling the platform sends |

### Bounds

Two actors are needed for every race in this code (each is a read by one actor
made stale by one step of another), and four claims are one more than two racing
callers need to overshoot a budget of two. Two attempts separate "first failure"
from "last failure". Three clock steps separate "before preflight", "due", "at
the moment" and "past the grace" with lead and grace of one. One crash or
failure is enough to lose each kind of memory, and a second adds a repetition of
the first; the outbox has two, so that its liveness is checked across repeated
aborts. Three workers give the registry a worst, a best and a stopped service at
once. The sets of `MCDecisions` hold, for every comparison in the code, values
on both sides of its boundary and on it, each marker alone and next to one that
it contains or that contains it, and for every rule about combinations at least
one basket, calendar, log or environment in which it applies and one in which it
does not. What keeps a state is asked up to `MaxRounds`, `MaxCalls`, `Observations`
and `MaxRequests` times: two alerts with a cleared condition between them, a
pause with a resumption and another, new terms and the old ones again, and one
request more than the largest budget with one that has left the hour. Two
moments to a second are enough to tell a hashed moment from a stored one, and
a body of up to three items, some of a wrong type, a lost item from a lost body.
The theorems of section 4 have no such bounds.

### Fairness

* `Outbox`: the supervisor restarts the drain loop after every iteration
  (`observability/worker.rs:123-155`) and time passes, so `Drain` and the end of
  a backoff are weakly fair. Nothing makes the notifier succeed, producers
  produce or retention run.
* `Operations`: timers fire and a task that can go on is polled, so `Wake`,
  `Break`, `Drained` and `Exit` are weakly fair. Nothing is assumed of
  iterations, of signals, of the server, or of the grace period, so a signal
  ends the program even while an iteration hangs.
* `Claimer`, `Session`, `Scheduler`, `Discovery` and `Decisions` state no
  fairness; only safety is checked of them. Nothing in the code spawns the
  session's health worker (`session/health.rs:52`) or a worker that calls
  `due_jobs` (`app/runtime.rs:195-217`), so that an expired account is noticed
  and a pending job is run in the end is not a property of this code.

### What the code does not do

Four runs expect a violation; each is a disagreement between the code and a
sentence of the repository, quoted in `PROJECT.json` under `findings`.

| run | the program |
| --- | --- |
| `claimer_budget_race` | reads the number of attempts before it inserts its own: racing calls exceed `max_attempts` |
| `session_gate_race` | may leave the gate open over an expired session, after two overlapping observations |
| `scheduler_crash` | leaves a job that was RUNNING at a crash RUNNING, though its moment is still to come |
| `discovery_silent` | never announces a change when the iteration ends between the transaction and the outbox |

More sentences that TLC refutes are definitions at the end of the modules. To
see a counterexample, put the name into the module's configuration, under
`INVARIANTS` (`PROPERTIES` for `LatestIntentWins`), in place of the others.

| definition | the sentence | the program |
| --- | --- | --- |
| `Advice.ZeroMinimumIsNoMinimum` | bonus for no minimum spend (`ranking/score.rs:52`) | gives none to a stated minimum of zero (`score.rs:342`) |
| `Advice.ExcludedMethodIsDenied` | scope and field are both checked (`ranking/eligibility.rs:132`) | looks at the field only when the scope is not a payment |
| `Advice.OneVoucherPerShop` | limit per individual shop (`planning/optimize.rs:57`) | two spellings of a shop are two groups (`optimize.rs:456`) |
| `Campaign.OpenWindowIsReported` | `high_interest`: a window is open now (`campaign/resolve.rs:27`) | looks at the governing campaign only, unlike `is_high_interest` (`resolve.rs:97`) |
| `Intake.ClaimableIsPlannable` | the plan mirrors `has_claim_identifiers` (`shopee-client/plan.rs:62`) | an empty text is an identifier for the one and not for the other (`domain/voucher.rs:228`) |
| `Intake.BackoffHasACeiling` | backoff ceiling (`collectors/polling.rs:16`) | the jitter is added after the cap and passes it |
| `Intake.ChangedTermsKeepTheIdentity` | conditions change without a duplicate identity (`domain/identity.rs:8`) | without identifiers the terms are the identity |
| `Intake.KnownTimeIsKept` | a less trusted source does not overwrite a known start (`src/ROADMAP.md:573`) | the row takes the latest observation |
| `Intake.StoredTimesAreTheLatest` | the version changes when conditions change, times first (`domain/identity.rs:126`) | times are hashed by the second (`identity.rs:66`), so a row keeps its old time when the new one is in the same second |
| `Collecting.MalformedItemIsDroppedAlone` | malformed items are dropped per item, not failing the whole run (`collectors/external_feed.rs:4`); wrong-typed optionals degrade to `None` (`external_feed.rs:24`) | the body is decoded as a whole, and one field of a wrong type fails it (`external_feed.rs:219`) |
| `Collecting.IncidentIsALimit` | a marker in the detail is a rate limit (`analytics/repository.rs:33`) | any error text with "429" in it is one |
| `Collecting.EveryRunIsRecorded` | a run is recorded either way (`collectors/supervisor.rs:50`) | not when the database fails during the ingestion, or at the run's own insertion (`supervisor.rs:151`) |
| `Responses.RateLimitIsNotTransient` | a rate limit is not reported as transient (`shopee-client/error.rs:82`) | a 429 is an error, and the claim service records every error as transient (`claimer/service.rs:164`) |
| `Responses.SuccessIsExplicit` | success only from an explicit code (`shopee-client/classify.rs:16`) | a message is enough for "already saved" |
| `Analytics.DeliveringSourceIsKept` | disabled when it never succeeded (`analytics/degrade.rs:83`) | disables a source all of whose runs discovered vouchers and were partial (`degrade.rs:108`) |
| `Messages.RetryIsWithinBudget` | the claimer will try again within its budget (`notifier/format.rs:221`) | says so after the last attempt of the budget, too |
| `Records.EverySourceIsShown` | the most recent run per source (`storage/repositories/collector.rs:121`) | reads 500 rows, which a busy source may fill |
| `Scheduler.LatestIntentWins` | the latest intent wins (`reliability-tests/tests/restart_recovery.rs:275`) | a worker that already waits runs the job at the old time (`scheduler/precision.rs:45`) |
| `Startup.EverySwitchedOnSourceRuns` | one supervised worker per enabled collector (`app/runtime.rs:94`) | the page and the manual source, the second on by default (`app/config.rs:251`), have a flag and no collector (`runtime.rs:61`) |
| `Startup.EveryCollectorPauses` | never unlimited requests (`collectors/polling.rs:4`) | an interval of zero is accepted |
| `Startup.FailingSourceIsNotHurried` | backoff takes precedence (`collectors/polling.rs:50`) | the supervisor's backoff starts at half a second, below the interval (`app/runtime.rs:113`) |

Others are visible in a single call or in what nothing calls, and need no run:

* **claimer, session.** A terminal failure does not stop the next claim
  (`claimer/service.rs:113`); statuses are written without `can_transition`,
  which only tests use (`claimer/service.rs:215`); `observe` ends a disabled
  state (`session/manager.rs:120`); a saved voucher may be claimed again once
  retention has removed its attempt (`storage/repositories/maintenance.rs:85`);
  the outcome event is returned and left to the caller, so a crash loses it
  (`claimer/service.rs:204`); the pause flag, the refresh request and the health
  worker of the session are consulted, consumed or spawned by nothing in `app`.
* **scheduler.** Scheduling a closed pair moves a row that stays closed
  (`repositories/schedule.rs:53`); `set_status` overwrites a cancellation
  (`repositories/schedule.rs:103`).
* **outbox, messages.** Errors that no retry can help are retried
  (`notifier/error.rs:21`), a `retry_after` is not used for the next attempt
  (`notifier/outbox.rs:197` against `telegram.rs:34`), the moment of an iteration
  is read once before up to twenty sends, a row that does not decode blocks the
  fetch (`repositories/outbox.rs:144`), the worker is started without metrics
  (`app/runtime.rs:171`), the stub marks as delivered what it keeps in memory.
  Event keys carry no time (`domain/events.rs:90`): while the row of the first is
  kept, a second equal transition of the session is silent, and so is a voucher
  that goes back to earlier terms.
* **collectors.** The polling budget and `next_interval` are used by nothing in
  `app`; a disabled source is re-enabled by its next success
  (`collectors/contract.rs:135`); `changed_fields` omits the percentage.
* **supervision, application.** `IterationError::Fatal` and the alert evaluator
  are used by no worker; a server that cannot bind is noticed at the shutdown
  (`app/main.rs:77`); one answer takes the registry's lock twice
  (`app/api.rs:183`); `postgresql:` is accepted by the database and refused by
  the validation (`storage/db.rs:33`, `app/config.rs:286`); `ENABLE_AUTO_CLAIM`
  and `ENABLE_BROWSER_SESSION_REFRESH` are read and consulted by nothing.
* **ranking, planning.** An unknown start is a penalty in name and a bonus in
  fact (`ranking/score.rs:81`); a payment scope stays unknown where a comment
  says another check decides it (`planning/relevance.rs:274`); an alternative of
  equal saving is said to use more vouchers (`planning/optimize.rs:597`).

## 4. What is proved

The proofs hold for every number of callers, workers, observers, rows and
every value of the bounds, under the assumptions named `...Assumption` in the
modules. Most give the types of the constants and say that the "nothing" values
are not members of the sets they complete. Eight say more of what the program is
given:

* `PollingAssumption`: durations of a polling configuration, and the hints of a
  source, are whole seconds. The jitter adds where the delay has an even number
  of nanoseconds and subtracts where it is odd (`polling.rs:79`); between two
  delays of different parity the comparison of `TroubledSourceIsNotHurried`
  would not hold. Settings and `Retry-After` are read in seconds.
* `StartupAssumption`: an environment has every variable whose value can be
  refused or decides what runs, stated or not, and no value of it is the model's
  mark of an invalid setting.
* `CampaignAssumption`: moments are within the range the date type can represent,
  and the counts of a calendar file are not negative, as their types say.
  Offsets, which are signed in the file, are any integers, and so are the
  campaigns that end before they start: it is validation that has to find them.
* `IntakeAssumption`: an item has exactly the fields its decoder gives it, a text
  is what it says and a spelling, and a stated text is stated in every spelling;
  a moment without an offset, or one counted from the epoch, is a whole second.
* `CollectingAssumption`: the body of an answer holds a finite sequence of items,
  and the kinds of error are told from no error.
* `RecordsAssumption`: the jobs and runs of a table have the fields and words of
  the program, a text is told from a column without one, no job is the error
  of a row that cannot be decoded, and the limit of the query for recent runs is
  a natural number.
* `AnalyticsAssumption`: a log is a finite bag of runs, and the rows of
  observations a finite sequence whose sources and moments are numbers, as sources
  of equal moment are told apart by the order of their names.

* `AdviceAssumption`: amounts, caps and minimums of vouchers and of better terms
  are not negative, as the validation of candidates demands, nor are the limits
  of a policy, which are unsigned; a basket is a finite sequence of shops, an item
  names finitely many shops, and what a basket or an item states is a
  number, of either sign; a reason for leaving a voucher out is told from none.

The arguments by component:

* **Claimer.** `RequestsAreRecorded`, `SuccessIsNotRepeated`,
  `StatusFollowsTrail`, `OvershootIsBounded`, `SerialBudget`, `ReviewIsEarned`,
  `TrailIsGapless`. None of these is inductive. `Trail` ties each await point to
  the row of its call (absent before the intent, an intent until the result is
  stored) and so proves the first. `NoStaleSuccess` carries the successes seen at
  the start through the call's own reading of them. `Evidence` strengthens the
  status property with what a call between `CompleteAttempt` and `ApplyStatus` is
  about to write. `Budget` counts rows together with the calls poised to insert
  one: the count a call read plus the others in flight bounds what it can make of
  the table; `Poised` is the set of those calls. With one call in flight the same
  invariant is the exact cap. `Spent` says that the index a call read is at most
  the rows there are, and less once its own is among them; rows only grow while
  nothing is pruned, so a voucher is parked with the whole budget on record.
  `Serial` (one call at a time, no retention) makes that count exact, and the
  indices 0, 1, 2, ... follow. `SavedVouchersStay` is an action property, under
  the same two hypotheses, which are those of the run that checks it: `Untaken`
  says of a call past the idempotency check that its voucher has no success on
  record, and that once its own attempt is completed there is no other, so that
  it cannot overwrite a status it did not see; `SavedHasSuccess` that a saved
  voucher has one, so that no call gets past the check.
* **Outbox.** `SettlingHasCause`, `TriesAreBounded`, `HandledRowsArePending` from
  one invariant that relates `tries`, `attempts`, aborted iterations and the row
  being handled, and `StepsRefineDelivery`: each step is a step of `Delivery` or
  leaves what it sees unchanged.
* **Session.** `OnlyOverlapSkewsTheGate` from `Trailing`: unless transitions
  overlapped, at most one observer is publishing and what it publishes is the
  snapshot. `OldNewsAloneOpens` adds `UpToDate`: a report taken since the account
  became unusable does not allow claims, and neither does a snapshot that such a
  report confirmed.
* **Scheduler.** `OneRunnerPerJob` and `NoRepeatedExecution` from an invariant
  that a held job is RUNNING or closed, so the conditional update cannot be won
  twice (a job is put back only by its holder), and that executions plus a
  pending win are within the queueings (`Ownership`, `Allowance`);
  `AttemptsAreAccounted` from `Accounted`, which counts the win a worker is
  waiting on, of which there is one at most;
  `StepsRefineDispatch`, which is `ImplementsDispatch` as a whole since `Dispatch`
  has no fairness, from `Ownership`, step by step: that a lost claim, a row
  moved under a worker and an outcome recorded over a cancellation are steps of
  the promise, or none;
  `JobsRunInTime` from `Deadlines` (the clock plus what remains of the wait
  reaches the target) and `Shelved` (a row that was long missed when the
  process started can no longer be claimed, and no worker holds a record of it,
  whatever it is scheduled for since).
* **Discovery.** `AnnouncementsAreBacked` from `Backed`: the events a collector
  carries name versions of the trail. `NothingIsLost` from `Complete`: an
  idempotency key that is taken belongs to a version already announced, so an
  insert that the key swallows loses nothing. `HealthIsEarned` from an
  invariant on every candidate of a batch: still to do, stored, or the reason
  the run is partial.
* **Operations.** `StreakIsShown` and `NoFailureIsHidden`, together
  `RegistryIsTrue`, and `ShutdownIsComplete`, for every set of workers. `IInv` is
  the type invariant, `EntryFollowsLoop` (an entry is what the last iteration
  made of it, and "stopped" exactly if the loop ended by itself) and
  `ShutdownInv` (past the drain no loop runs).
* **Decisions.** All seven properties, for every input the constants
  may hold. Most parts follow from the operators by cases: the first rule
  that a message matches is never one of a success if the message holds a marker
  of a refusal (`RefusalHolds`), the settings of a service that is off are not
  read (`OffIsIgnored`), the backoff grows with the powers of two, which are
  known up to its cap one by one (`PowersOfTwo`). What rests on the calls before
  is an invariant: `Asked` in `DecisionsProofs`, `PaceIsAsked`,
  `ObservationsAsked`, `RowsAsked` and `SourcesAsked` in `CollectorProofs`,
  and `AdviceAsked` in `DecisionsProofs`, say that a question is
  one the program can be asked, and what the calls before made of the state.
  Loops over sequences of any length need an induction; its theorem takes an
  operator, which the provers cannot instantiate, so the proofs take the least
  step at which the claim fails (`LeastExists`) and show that it fails before.
  * `AnswersAreAlwaysReadRight` for every status, code and set of markers.
  * `OwnerIsAlwaysTold`: the waits of one send for every sequence of replies;
    and `AlertsTold`, which relates the time kept for each kind of alert to the
    log of rounds, for any number of rounds and any clock.
  * `SettingsAreAlwaysHonoured` for every environment, whatever the flags of the
    two sources without a collector say (that they run nothing is
    `EverySwitchedOnSourceRuns`, section 3); `ControlsAreObeyed`
    relates the flags to the calls made, for any number of them.
  * `PollingIsAlwaysMeasured`: the governing campaign is unique because the
    identifier breaks every tie, the identifiers of an accepted calendar are
    unique, and so the order of the file decides nothing. An offset that leaves
    the date type is ignored rather than cut off, so it narrows. `Kept` says that
    a budget holds exactly the requests it granted within the hour before the
    last, in every hour at most the limit, and the limit whenever it refused;
    `KeptOnce` that one more request keeps this, whatever the clock reads,
    as long as it does not go back.
  * `ObservationsAreKept`: `IngestKept` says that the row of a voucher has the
    meaning of the latest observation with its identity, times to the second, and that the merged view
    covers every observation (what one states, the other states with at least
    its confidence); `ObservedOnceMore` that one observation more, of whatever
    voucher, keeps this. A view that covers an observation is not changed by it.
    Spelling changes neither key nor version, by cases over what identifies the
    candidate (`RespelledAlike`); the form in which a source writes it does not
    reach the candidate (`WrittenAlike`).
  * `CollectedIsAlwaysKept` adds the rest of `CollectedIsKept`. `AllCollected`
    is the loop invariant of parsing and ingestion together: after each item the
    rows are those that the items so far would leave alone, and what is lost is
    counted, once, as a failure of the parser or a rejection; as long as the
    database lasts, which it does, since no more was written than read. An answer
    that is not read leaves no row and a failed run (`FailedIsGivenUp`), and one
    that arrives whole is not read exactly if it holds an item with a wrong type
    (`ArrivedIsRead`). Rows
    read back because the words of every enumeration are told apart and three
    digits of a moment have the same value on both sides (`MomentsReadBack`);
    and texts of the fixed width are in the order of the moments
    (`TextsAreOrdered`).
  * `SourcesAreAlwaysJudged`, for every log, table of runs, sequence of
    observations and sequence of lags. The sums over sets and bags are folds of
    the library; what they need is in the first section of `DecisionsProofs`, and
    rests on `GrowsToTheWhole`: what holds of the empty set and stays so with each
    element more holds of a finite set. That failing never helps (`FailureIsToldWorse`)
    is first a statement on counters: a run replaced by its failure moves one from
    "successful" to "failed" and leaves the totals (`CountsShift`, `FailureCounts`);
    then one on rates, which are rounded quotients and grow with their numerators
    (`Shares`, `AboveCosts`); then one on the advice and the score, by their rules
    (`WorseIsToldWorse`). Every voucher has one winner because the earliest moment
    and then the least source exist (`WinnerIsFound`), so the wins add up to the
    vouchers (`SummaryAddsUp`), whatever the order of the rows. `LatenessShows` is
    an invariant of the fold over lags. `LatestOfEverySource` shows that of a table
    within the limit of the query the run shown of a source is one than which it has
    none later, for every ordering the database may return.
  * `AdviceIsAlwaysSound`, for every set of vouchers, rules, baskets, policies
    and planned items. A score is a sum of parts, and no part falls when a term
    gets better, because the tiers of every table are ordered
    (`BetterTermsScoreMore`). The ranking of combinations is a strict total order
    (`RanksAreOrdered`: saving, number, labels, and then the positions that
    differ), so that the finite set of combinations has exactly one first
    (`BestIsFirst`); `Before` on candidates is one as well. The best saves most
    (`BestSavesMost`); without truncation every combination that shares no slot
    is among those searched (`NothingIsMissed`), and a combination stays allowed
    when a voucher is taken out (`LessIsAllowed`), so that no voucher of the
    best is idle. Another order of the same vouchers is a bijection of the
    candidates that keeps every record. If the labels differ it keeps `Before`,
    hence the labels of a combination, its saving, its rank and whether it is
    allowed (`MovedBefore` to `MovedCombinations`), and so moves the best to the
    best (`MovedBest`). The planner and the watch list agree by cases over the
    scope of a voucher and what the item states (`AdvisersAgreeAlways`).
* Type correctness of the six state machines. That of `Discovery` includes that
  an open transaction's candidate is still to do, which the other three rest on.
  In `Decisions` the one variable is a record of inputs, whose types are the
  assumptions.

Only model-checked:

* Liveness (`EveryRowSettles`, `LivesUntilTheSignal`) and the liveness half of
  `ImplementsDelivery`: the proof system has no support for fairness and
  `ENABLED`.

Read from the code and neither proved nor checked: that the loop over bit masks
(`planning/optimize.rs:482`) visits every set of the candidates searched and keeps
those the policy allows. `Combinations` is that set, and `Best` is its first in the
order of the code's sort.

## 5. Not modelled

* Cookie files and the browser (`session` stores and bootstrap), HTTP transport,
  database connections, migrations: input and output without decisions of their
  own.
* Wording, scrubbing and truncation of messages, explanations of plans and
  scores, JSON, dashboards, metrics pages and redaction: layout.
* `diff_versions`, building a claim request, decimals and identifiers in
  columns: conversions whose details no property here tells apart.
* Retention of versions and observations; `bump_profile_version`.
* The edges of the voucher status machine that no code takes: the claimer is the
  only writer of `vouchers.status`.
* The tools and the reliability tests: programs that use the other crates, read
  for what they claim.

## 6. Plan

Done: the state machines of the core, the supervised service, the pure crates,
settings, messages and rows; the invariants of the state machines, two
refinements, and all seven properties of the decisions proved: every invariant
that a run checks has a theorem. Left, most important first:

1. An invariant for `Session` under overlap: how far the gate may trail.
2. Liveness of `Session` and `Scheduler`, and pausing claims across a restart,
   once something in the repository spawns their workers and consults the flag.
3. A claim flow that composes scheduler, claimer, session gate and outbox once
   the repository has a loop that drives them.
