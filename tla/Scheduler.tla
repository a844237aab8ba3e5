------------------------------ MODULE Scheduler ------------------------------
(***************************************************************************)
(* The durable scheduler: the schedule_jobs table, the worker tasks that   *)
(* take due jobs from it, wait for the precise moment and run them, and    *)
(* the reconstruction at startup.  A job is its (voucher, action) pair.    *)
(* Wall-clock times are natural numbers; a wait in progress holds what is  *)
(* left of its monotonic delay.  The operations are the scheduler's; the   *)
(* order a worker calls them in (due, claim, wait, run, record) is the     *)
(* execution flow of the architecture, since no crate drives them yet.     *)
(***************************************************************************)
EXTENDS Integers, FiniteSets

CONSTANTS
  Jobs,           \* (voucher, action) pairs
  Workers,        \* worker tasks of the process
  NoJob,          \* a worker that has no job
  PreflightLead,  \* SchedulerConfig.preflight_lead
  StaleAfter,     \* SchedulerConfig.stale_after
  MaxTime,        \* bound: the last wall-clock time
  MaxUpserts,     \* bound: calls of schedule
  MaxRequeues,    \* bound: jobs put back to PENDING, for each job
  MaxCrashes      \* bound: crashes of the process

ASSUME SchedulerAssumption ==
  /\ PreflightLead \in Nat /\ StaleAfter \in Nat
  /\ MaxTime \in Nat /\ MaxUpserts \in Nat
  /\ MaxRequeues \in Nat /\ MaxCrashes \in Nat
  /\ NoJob \notin Jobs

VARIABLES
  status,     \* schedule_jobs.status, "Absent" when there is no row
  executeAt,  \* schedule_jobs.execute_at
  attempts,   \* schedule_jobs.attempt_count
  now,        \* the wall clock
  up,         \* the process is running
  pc,         \* where each worker is
  job,        \* the job each worker is on
  target,     \* execute_at in the record the worker read
  remaining,  \* what is left of the worker's monotonic wait
  upserts,    \* history: calls of schedule
  crashes,    \* history: crashes
  fired,      \* history: executions of each job begun
  requeues,   \* history: times each job was put back to PENDING
  missed      \* history: jobs long past their moment at the last start

table   == <<status, executeAt, attempts>>
workers == <<pc, job, target, remaining>>
ghost   == <<upserts, crashes, fired, requeues, missed>>
vars    == <<table, now, up, workers, ghost>>

JobStatus == {"Pending", "Ready", "Running", "Succeeded", "Failed", "Cancelled", "Stale"}
Open == {"Pending", "Ready", "Running"}

Time == 0..MaxTime

\* The two statuses try_claim_running and mark_stale_before look for.
Claimable(j) == status[j] \in {"Pending", "Ready"}

PreflightAt(j) == executeAt[j] - PreflightLead

DueForPreflight == {j \in Jobs : status[j] = "Pending" /\ PreflightAt(j) <= now}

-----------------------------------------------------------------------------

Init ==
  /\ status = [j \in Jobs |-> "Absent"]
  /\ executeAt = [j \in Jobs |-> 0]
  /\ attempts = [j \in Jobs |-> 0]
  /\ now = 0
  /\ up = TRUE
  /\ pc = [w \in Workers |-> "idle"]
  /\ job = [w \in Workers |-> NoJob]
  /\ target = [w \in Workers |-> 0]
  /\ remaining = [w \in Workers |-> 0]
  /\ upserts = 0
  /\ crashes = 0
  /\ fired = [j \in Jobs |-> 0]
  /\ requeues = [j \in Jobs |-> 0]
  /\ missed = {}

\* Mutant: scheduling again revives the row.
ScheduleReviving(j, at) ==
  /\ up /\ upserts < MaxUpserts
  /\ status' = [status EXCEPT ![j] = "Pending"]
  /\ executeAt' = [executeAt EXCEPT ![j] = at]
  /\ upserts' = upserts + 1
  /\ UNCHANGED <<attempts, now, up, workers, crashes, fired, requeues, missed>>

\* Insert the job or move the existing row, whatever its status, to the new
\* time, which may have passed already.
Schedule(j, at) ==
  /\ up /\ upserts < MaxUpserts
  /\ status' = [status EXCEPT ![j] = IF @ = "Absent" THEN "Pending" ELSE @]
  /\ executeAt' = [executeAt EXCEPT ![j] = at]
  /\ upserts' = upserts + 1
  /\ UNCHANGED <<attempts, now, up, workers, crashes, fired, requeues, missed>>

\* A worker reads the due jobs and turns to one of them; the record it holds
\* may be out of date by the time it acts on it.
Select(w) ==
  /\ up /\ pc[w] = "idle"
  /\ \E j \in DueForPreflight :
       /\ job' = [job EXCEPT ![w] = j]
       /\ target' = [target EXCEPT ![w] = executeAt[j]]
  /\ pc' = [pc EXCEPT ![w] = "selected"]
  /\ UNCHANGED <<table, now, up, remaining, ghost>>

\* Mutant: the update is not conditional on the status, so nobody loses.
ClaimUnconditional(w) ==
  /\ pc[w] = "selected"
  /\ status' = [status EXCEPT ![job[w]] = "Running"]
  /\ attempts' = [attempts EXCEPT ![job[w]] = @ + 1]
  /\ remaining' = [remaining EXCEPT ![w] = IF target[w] > now THEN target[w] - now ELSE 0]
  /\ pc' = [pc EXCEPT ![w] = "waiting"]
  /\ UNCHANGED <<executeAt, now, up, job, target, ghost>>

\* try_claim_running: one conditional update decides the winner. The winner
\* computes its monotonic delay once, from the record it read.
Claim(w) ==
  /\ pc[w] = "selected"
  /\ Claimable(job[w])
  /\ status' = [status EXCEPT ![job[w]] = "Running"]
  /\ attempts' = [attempts EXCEPT ![job[w]] = @ + 1]
  /\ remaining' = [remaining EXCEPT ![w] = IF target[w] > now THEN target[w] - now ELSE 0]
  /\ pc' = [pc EXCEPT ![w] = "waiting"]
  /\ UNCHANGED <<executeAt, now, up, job, target, ghost>>

\* Mutant: a lost race is counted as an attempt.
LoseClaimCounted(w) ==
  /\ pc[w] = "selected"
  /\ ~Claimable(job[w])
  /\ attempts' = [attempts EXCEPT ![job[w]] = @ + 1]
  /\ pc' = [pc EXCEPT ![w] = "idle"]
  /\ job' = [job EXCEPT ![w] = NoJob]
  /\ UNCHANGED <<status, executeAt, now, up, target, remaining, ghost>>

\* Mutant: the loser drops the record and goes on to the wait.
LoseClaimHalfway(w) ==
  /\ pc[w] = "selected"
  /\ ~Claimable(job[w])
  /\ pc' = [pc EXCEPT ![w] = "waiting"]
  /\ job' = [job EXCEPT ![w] = NoJob]
  /\ UNCHANGED <<table, now, up, target, remaining, ghost>>

LoseClaim(w) ==
  /\ pc[w] = "selected"
  /\ ~Claimable(job[w])
  /\ pc' = [pc EXCEPT ![w] = "idle"]
  /\ job' = [job EXCEPT ![w] = NoJob]
  /\ UNCHANGED <<table, now, up, target, remaining, ghost>>

\* Mutant: the wait is skipped.
FireAtOnce(w) ==
  /\ pc[w] = "waiting"
  /\ pc' = [pc EXCEPT ![w] = "executing"]
  /\ fired' = [fired EXCEPT ![job[w]] = @ + 1]
  /\ UNCHANGED <<table, now, up, job, target, remaining, upserts, crashes, requeues, missed>>

\* The monotonic deadline is reached and the action runs.
Fire(w) ==
  /\ pc[w] = "waiting"
  /\ remaining[w] = 0
  /\ pc' = [pc EXCEPT ![w] = "executing"]
  /\ fired' = [fired EXCEPT ![job[w]] = @ + 1]
  /\ UNCHANGED <<table, now, up, job, target, remaining, upserts, crashes, requeues, missed>>

\* The worker records the outcome: set_status is unconditional. A retryable
\* outcome puts the job back to PENDING.
Record(w) ==
  /\ pc[w] = "executing"
  /\ \E outcome \in {"Succeeded", "Failed", "Pending"} :
       /\ status' = [status EXCEPT ![job[w]] = outcome]
       /\ IF outcome = "Pending"
          THEN /\ requeues[job[w]] < MaxRequeues
               /\ requeues' = [requeues EXCEPT ![job[w]] = @ + 1]
          ELSE requeues' = requeues
  /\ pc' = [pc EXCEPT ![w] = "idle"]
  /\ job' = [job EXCEPT ![w] = NoJob]
  /\ UNCHANGED <<executeAt, attempts, now, up, target, remaining, upserts, crashes, fired, missed>>

\* set_status(CANCELLED), whatever the job is doing.
Cancel(j) ==
  /\ up
  /\ status[j] # "Absent"
  /\ status' = [status EXCEPT ![j] = "Cancelled"]
  /\ UNCHANGED <<executeAt, attempts, now, up, workers, ghost>>

\* A unit of time passes on both clocks.
Tick ==
  /\ now < MaxTime
  /\ now' = now + 1
  /\ remaining' = [w \in Workers |-> IF remaining[w] > 0 THEN remaining[w] - 1 ELSE 0]
  /\ UNCHANGED <<table, up, pc, job, target, ghost>>

\* The process stops between any two steps; the workers' memory is gone.
Crash ==
  /\ up /\ crashes < MaxCrashes
  /\ up' = FALSE
  /\ pc' = [w \in Workers |-> "idle"]
  /\ job' = [w \in Workers |-> NoJob]
  /\ target' = [w \in Workers |-> 0]
  /\ remaining' = [w \in Workers |-> 0]
  /\ crashes' = crashes + 1
  /\ UNCHANGED <<table, now, upserts, fired, requeues, missed>>

\* Rows whose moment passed by more than the grace, whatever their status.
LongPast == {j \in Jobs : status[j] # "Absent" /\ executeAt[j] < now - StaleAfter}

\* Mutant: reconstruction only counts the open jobs.
ReconstructCounting ==
  /\ ~up
  /\ up' = TRUE
  /\ missed' = LongPast
  /\ UNCHANGED <<table, now, workers, upserts, crashes, fired, requeues>>

\* Startup: jobs whose moment passed by more than the grace are stale.
Reconstruct ==
  /\ ~up
  /\ up' = TRUE
  /\ status' = [j \in Jobs |-> IF Claimable(j) /\ j \in LongPast THEN "Stale" ELSE status[j]]
  /\ missed' = LongPast
  /\ UNCHANGED <<executeAt, attempts, now, workers, upserts, crashes, fired, requeues>>

Work(w) == Select(w) \/ Claim(w) \/ LoseClaim(w) \/ Fire(w) \/ Record(w)

Next ==
  \/ \E j \in Jobs : Cancel(j) \/ \E at \in Time : Schedule(j, at)
  \/ \E w \in Workers : Work(w)
  \/ Tick
  \/ Crash
  \/ Reconstruct

Spec == Init /\ [][Next]_vars

-----------------------------------------------------------------------------
(* Properties *)

\* Every variable holds a value of its type.
TypeOK ==
  /\ status \in [Jobs -> JobStatus \union {"Absent"}]
  /\ executeAt \in [Jobs -> Time]
  /\ attempts \in [Jobs -> Nat]
  /\ now \in Time
  /\ up \in BOOLEAN
  /\ pc \in [Workers -> {"idle", "selected", "waiting", "executing"}]
  /\ job \in [Workers -> Jobs \union {NoJob}]
  /\ \A w \in Workers : pc[w] # "idle" => job[w] \in Jobs
  /\ target \in [Workers -> Time]
  /\ remaining \in [Workers -> Time]
  /\ upserts \in 0..MaxUpserts
  /\ crashes \in 0..MaxCrashes
  /\ fired \in [Jobs -> Nat]
  /\ requeues \in [Jobs -> 0..MaxRequeues]
  /\ missed \subseteq Jobs

Holds(w, j) == job[w] = j /\ pc[w] \in {"waiting", "executing"}

\* Two workers never execute the same job: the conditional update of
\* try_claim_running is enough, whatever is rescheduled, cancelled or requeued
\* meanwhile and however old the records are that the workers act on.
SoleRunner ==
  \A v, w \in Workers, j \in Jobs : Holds(v, j) /\ Holds(w, j) => v = w

\* A job is executed at most once for each time it was queued: neither a
\* restart nor a second schedule of the same pair repeats it.
FiresOncePerQueueing ==
  \A j \in Jobs : fired[j] <= 1 + requeues[j]

\* attempt_count is the number of executions, but for the win a worker is
\* still waiting on and those a crash interrupted: a lost race is not counted.
AttemptsAreExecutions ==
  \A j \in Jobs :
    /\ fired[j] <= attempts[j]
    /\ attempts[j] <= fired[j] + crashes + Cardinality({w \in Workers : Holds(w, j)})

\* A job whose moment had passed by more than the grace when the process
\* started is not run by it: not as it was left, and not when it is scheduled
\* once more for a moment to come. Only a pair that is new, or that was not
\* long missed at the start, runs when it is scheduled for a moment long past.
MissedJobsStayMissed ==
  \A w \in Workers : pc[w] # "idle" => job[w] \notin missed

\* No job runs before the time in the record its worker read.
NeverEarly ==
  \A w \in Workers : pc[w] = "executing" => now >= target[w]

\* A job runs at its time: not before it, and not when it was long missed while
\* the process was down.
RunsInTime == NeverEarly /\ MissedJobsStayMissed

\* What becomes of an intent, whoever holds it: a cancelled row is still run by
\* the worker that took it, and a RUNNING row that no worker is on is lost.
HeldAt(j, point) == \E w \in Workers : job[w] = j /\ pc[w] = point

Phase(j) ==
  IF HeldAt(j, "executing") THEN "Begun"
  ELSE IF HeldAt(j, "waiting") THEN "Taken"
  ELSE IF status[j] = "Absent" THEN "None"
  ELSE IF Claimable(j) THEN "Queued"
  ELSE "Closed"

Promise == INSTANCE Dispatch WITH phase <- [j \in Jobs |-> Phase(j)], runs <- fired

\* The table, the racing workers, the clocks, crashes and reconstruction
\* together implement the single-handed dispatch of module Dispatch.
ImplementsDispatch == Promise!Spec

-----------------------------------------------------------------------------
(* What the repository says and the program does not do *)

\* ROADMAP.md, Phase 12: restarting the service does not lose future voucher
\* actions. An open row whose moment is still to come can be taken, or somebody
\* is on it.
FutureActionsAreKept ==
  up => \A j \in Jobs :
    status[j] \in Open /\ executeAt[j] > now => Claimable(j) \/ \E w \in Workers : Holds(w, j)

\* reliability-tests/tests/restart_recovery.rs: the latest intent wins. A job
\* is not run before the time the table holds for it.
LatestIntentWins ==
  [][\A j \in Jobs : fired'[j] # fired[j] => now >= executeAt[j]]_fired

=============================================================================
