--------------------------- MODULE SchedulerProofs ---------------------------
(***************************************************************************)
(* Proofs about Scheduler for every number of jobs and workers, every      *)
(* configuration and every bound.                                          *)
(***************************************************************************)
EXTENDS Scheduler, FiniteSetTheorems, TLAPS

\* Every reachable state is well typed.
THEOREM TypeCorrect == Spec => []TypeOK
<1> USE SchedulerAssumption DEF Time
<1>1. Init => TypeOK
  BY DEF Init, TypeOK, JobStatus
<1>2. TypeOK /\ [Next]_vars => TypeOK'
  <2> SUFFICES ASSUME TypeOK, [Next]_vars PROVE TypeOK'
    OBVIOUS
  <2> USE DEF TypeOK, JobStatus
  <2>1. ASSUME NEW j \in Jobs, Cancel(j) PROVE TypeOK'
    BY <2>1 DEF Cancel, workers, ghost
  <2>2. ASSUME NEW j \in Jobs, NEW at \in Time, Schedule(j, at) PROVE TypeOK'
    BY <2>2 DEF Schedule, workers
  <2>3. ASSUME NEW w \in Workers, Select(w) PROVE TypeOK'
    BY <2>3 DEF Select, DueForPreflight, table, ghost
  <2>4. ASSUME NEW w \in Workers, Claim(w) PROVE TypeOK'
    BY <2>4 DEF Claim, ghost
  <2>5. ASSUME NEW w \in Workers, LoseClaim(w) PROVE TypeOK'
    BY <2>5 DEF LoseClaim, table, ghost
  <2>6. ASSUME NEW w \in Workers, Fire(w) PROVE TypeOK'
    BY <2>6 DEF Fire, table
  <2>7. ASSUME NEW w \in Workers, Record(w) PROVE TypeOK'
    BY <2>7 DEF Record
  <2>8. CASE Tick
    BY <2>8 DEF Tick, table, ghost
  <2>9. CASE Crash
    <3>1. crashes' \in 0..MaxCrashes
      BY <2>9 DEF Crash
    <3>2. /\ up' \in BOOLEAN
          /\ pc' = [w \in Workers |-> "idle"]
          /\ job' = [w \in Workers |-> NoJob]
          /\ target' = [w \in Workers |-> 0]
          /\ remaining' = [w \in Workers |-> 0]
          /\ UNCHANGED <<status, executeAt, attempts, now, upserts, fired, requeues, missed>>
      BY <2>9 DEF Crash, table
    <3> QED
      BY <3>1, <3>2
  <2>10. CASE Reconstruct
    BY <2>10 DEF Reconstruct, LongPast, workers
  <2>11. CASE UNCHANGED vars
    BY <2>11 DEF vars, table, workers, ghost
  <2> QED
    BY <2>1, <2>2, <2>3, <2>4, <2>5, <2>6, <2>7, <2>8, <2>9, <2>10, <2>11 DEF Next, Work
<1> QED
  BY <1>1, <1>2, PTL DEF Spec

-----------------------------------------------------------------------------

\* A job a worker holds is RUNNING, or was cancelled under it: either way
\* nobody else can claim it.
Ownership ==
  /\ \A w \in Workers, j \in Jobs : Holds(w, j) => status[j] \in {"Running", "Cancelled"}
  /\ SoleRunner

\* Ownership is an invariant.
THEOREM OwnershipInvariant == Spec => []Ownership
<1>1. Init => Ownership
  BY DEF Init, Ownership, SoleRunner, Holds
<1>2. TypeOK /\ Ownership /\ [Next]_vars => Ownership'
  <2> SUFFICES ASSUME TypeOK, Ownership, [Next]_vars PROVE Ownership'
    OBVIOUS
  <2> USE DEF TypeOK, Ownership, SoleRunner, Holds
  <2>1. ASSUME NEW j \in Jobs, Cancel(j) PROVE Ownership'
    BY <2>1 DEF Cancel, workers
  <2>2. ASSUME NEW j \in Jobs, NEW at \in Time, Schedule(j, at) PROVE Ownership'
    BY <2>2 DEF Schedule, workers
  <2>3. ASSUME NEW w \in Workers, Select(w) PROVE Ownership'
    BY <2>3 DEF Select, table
  <2>4. ASSUME NEW w \in Workers, Claim(w) PROVE Ownership'
    BY <2>4 DEF Claim, Claimable
  <2>5. ASSUME NEW w \in Workers, LoseClaim(w) PROVE Ownership'
    BY <2>5 DEF LoseClaim, table
  <2>6. ASSUME NEW w \in Workers, Fire(w) PROVE Ownership'
    BY <2>6 DEF Fire, table
  <2>7. ASSUME NEW w \in Workers, Record(w) PROVE Ownership'
    BY <2>7 DEF Record
  <2>8. CASE Tick
    BY <2>8 DEF Tick, table
  <2>9. CASE Crash
    BY <2>9 DEF Crash, table
  <2>10. CASE Reconstruct
    BY <2>10 DEF Reconstruct, workers, Claimable
  <2>11. CASE UNCHANGED vars
    BY <2>11 DEF vars, table, workers
  <2> QED
    BY <2>1, <2>2, <2>3, <2>4, <2>5, <2>6, <2>7, <2>8, <2>9, <2>10, <2>11 DEF Next, Work
<1> QED
  BY <1>1, <1>2, TypeCorrect, PTL DEF Spec

\* No two workers execute the same job.
THEOREM OneRunnerPerJob == Spec => []SoleRunner
<1>1. Ownership => SoleRunner
  BY DEF Ownership
<1> QED
  BY <1>1, OwnershipInvariant, PTL

-----------------------------------------------------------------------------

\* What a job may still do before it is queued again: one execution if it can
\* be claimed or a worker waits on it, none otherwise.
Waits(j) == \E w \in Workers : job[w] = j /\ pc[w] = "waiting"

CanStillFire(j) == status[j] \in {"Absent", "Pending", "Ready"} \/ Waits(j)

Allowance ==
  \A j \in Jobs :
    /\ fired[j] <= 1 + requeues[j]
    /\ CanStillFire(j) => fired[j] <= requeues[j]

\* A job is executed at most once per queueing, across restarts, repeated
\* scheduling and cancellation.
THEOREM NoRepeatedExecution == Spec => []FiresOncePerQueueing
<1>1. Init => Allowance
  BY DEF Init, Allowance, CanStillFire, Waits
<1>2. TypeOK /\ Ownership /\ Allowance /\ [Next]_vars => Allowance'
  <2> SUFFICES ASSUME TypeOK, Ownership, Allowance, [Next]_vars PROVE Allowance'
    OBVIOUS
  <2> USE DEF TypeOK, Ownership, SoleRunner, Holds, Allowance, CanStillFire, Waits
  <2>1. ASSUME NEW j \in Jobs, Cancel(j) PROVE Allowance'
    BY <2>1 DEF Cancel, workers, ghost
  <2>2. ASSUME NEW j \in Jobs, NEW at \in Time, Schedule(j, at) PROVE Allowance'
    BY <2>2 DEF Schedule, workers
  <2>3. ASSUME NEW w \in Workers, Select(w) PROVE Allowance'
    BY <2>3 DEF Select, table, ghost
  <2>4. ASSUME NEW w \in Workers, Claim(w) PROVE Allowance'
    BY <2>4 DEF Claim, Claimable, ghost
  <2>5. ASSUME NEW w \in Workers, LoseClaim(w) PROVE Allowance'
    BY <2>5 DEF LoseClaim, table, ghost
  <2>6. ASSUME NEW w \in Workers, Fire(w) PROVE Allowance'
    BY <2>6 DEF Fire, table
  <2>7. ASSUME NEW w \in Workers, Record(w) PROVE Allowance'
    BY <2>7 DEF Record
  <2>8. CASE Tick
    BY <2>8 DEF Tick, table, ghost
  <2>9. CASE Crash
    BY <2>9 DEF Crash, table
  <2>10. CASE Reconstruct
    BY <2>10 DEF Reconstruct, workers, Claimable
  <2>11. CASE UNCHANGED vars
    BY <2>11 DEF vars, table, workers, ghost
  <2> QED
    BY <2>1, <2>2, <2>3, <2>4, <2>5, <2>6, <2>7, <2>8, <2>9, <2>10, <2>11 DEF Next, Work
<1>3. Allowance => FiresOncePerQueueing
  BY DEF Allowance, FiresOncePerQueueing
<1> QED
  BY <1>1, <1>2, <1>3, TypeCorrect, OwnershipInvariant, PTL DEF Spec

-----------------------------------------------------------------------------

\* An attempt is counted when the claim is won: one ahead of the executions
\* while a worker waits, and for ever when a crash ended the wait.
Pending(j) == IF Waits(j) THEN 1 ELSE 0

Accounted ==
  \A j \in Jobs :
    /\ fired[j] + Pending(j) <= attempts[j]
    /\ attempts[j] <= fired[j] + crashes + Pending(j)

\* At most one worker holds a job, so the holders can be counted whatever the
\* number of workers.
LEMMA HoldersCounted ==
  ASSUME SoleRunner, NEW j \in Jobs
  PROVE  LET holders == {w \in Workers : Holds(w, j)}
         IN /\ Cardinality(holders) \in Nat
            /\ Waits(j) => Cardinality(holders) = 1
<1> DEFINE holders == {w \in Workers : Holds(w, j)}
<1>1. CASE holders = {}
  <2>1. Cardinality(holders) = 0
    BY <1>1, FS_EmptySet
  <2>2. ~Waits(j)
    BY <1>1 DEF Waits, Holds
  <2> QED BY <2>1, <2>2
<1>2. CASE holders # {}
  <2>1. PICK w \in Workers : Holds(w, j)
    BY <1>2
  <2>2. holders = {w}
    BY <2>1 DEF SoleRunner
  <2>3. Cardinality(holders) = 1
    BY <2>2, FS_Singleton
  <2> QED BY <2>3
<1> QED BY <1>1, <1>2

\* attempt_count is the number of executions, but for the win a worker waits
\* on and those a crash interrupted: a lost race is not counted.
THEOREM AttemptsAreAccounted == Spec => []AttemptsAreExecutions
<1>1. Init => Accounted
  BY DEF Init, Accounted, Pending, Waits
<1>2. TypeOK /\ Ownership /\ Accounted /\ [Next]_vars => Accounted'
  <2> SUFFICES ASSUME TypeOK, Ownership, Accounted, [Next]_vars PROVE Accounted'
    OBVIOUS
  <2> USE DEF TypeOK, Ownership, SoleRunner, Holds, Accounted, Pending, Waits
  <2>1. ASSUME NEW j \in Jobs, Cancel(j) PROVE Accounted'
    BY <2>1 DEF Cancel, workers, ghost
  <2>2. ASSUME NEW j \in Jobs, NEW at \in Time, Schedule(j, at) PROVE Accounted'
    BY <2>2 DEF Schedule, workers
  <2>3. ASSUME NEW w \in Workers, Select(w) PROVE Accounted'
    BY <2>3 DEF Select, table, ghost
  <2>4. ASSUME NEW w \in Workers, Claim(w) PROVE Accounted'
    BY <2>4, SMTT(30) DEF Claim, Claimable, ghost
  <2>5. ASSUME NEW w \in Workers, LoseClaim(w) PROVE Accounted'
    BY <2>5 DEF LoseClaim, table, ghost
  <2>6. ASSUME NEW w \in Workers, Fire(w) PROVE Accounted'
    BY <2>6 DEF Fire, table
  <2>7. ASSUME NEW w \in Workers, Record(w) PROVE Accounted'
    BY <2>7 DEF Record
  <2>8. CASE Tick
    BY <2>8 DEF Tick, table, ghost
  <2>9. CASE Crash
    BY <2>9 DEF Crash, table
  <2>10. CASE Reconstruct
    BY <2>10 DEF Reconstruct, workers
  <2>11. CASE UNCHANGED vars
    BY <2>11 DEF vars, table, workers, ghost
  <2> QED
    BY <2>1, <2>2, <2>3, <2>4, <2>5, <2>6, <2>7, <2>8, <2>9, <2>10, <2>11 DEF Next, Work
<1>3. TypeOK /\ SoleRunner /\ Accounted => AttemptsAreExecutions
  <2> SUFFICES ASSUME TypeOK, SoleRunner, Accounted, NEW j \in Jobs
               PROVE  /\ fired[j] <= attempts[j]
                      /\ attempts[j] <= fired[j] + crashes
                                         + Cardinality({w \in Workers : Holds(w, j)})
    BY DEF AttemptsAreExecutions
  <2>1. Pending(j) \in 0..1 /\ fired[j] \in Nat /\ attempts[j] \in Nat /\ crashes \in Nat
    BY DEF Pending, TypeOK
  <2>2. Cardinality({w \in Workers : Holds(w, j)}) >= Pending(j)
    BY HoldersCounted DEF Pending
  <2>3. Cardinality({w \in Workers : Holds(w, j)}) \in Nat
    BY HoldersCounted
  <2> QED BY <2>1, <2>2, <2>3 DEF Accounted
<1> QED
  BY <1>1, <1>2, <1>3, TypeCorrect, OwnershipInvariant, OneRunnerPerJob, PTL DEF Spec

-----------------------------------------------------------------------------

\* The monotonic wait never undershoots the wall clock: what is left of it
\* still covers the distance to the target.
Deadlines ==
  \A w \in Workers :
    /\ pc[w] = "waiting" => target[w] <= now + remaining[w]
    /\ pc[w] = "executing" => target[w] <= now

\* No job runs before the time in the record its worker read.
THEOREM WaitIsLongEnough == Spec => []NeverEarly
<1> USE SchedulerAssumption DEF Time
<1>1. Init => Deadlines
  BY DEF Init, Deadlines
<1>2. TypeOK /\ Deadlines /\ [Next]_vars => Deadlines'
  <2> SUFFICES ASSUME TypeOK, Deadlines, [Next]_vars PROVE Deadlines'
    OBVIOUS
  <2> USE DEF TypeOK, Deadlines
  <2>1. ASSUME NEW j \in Jobs, Cancel(j) PROVE Deadlines'
    BY <2>1 DEF Cancel, workers
  <2>2. ASSUME NEW j \in Jobs, NEW at \in Time, Schedule(j, at) PROVE Deadlines'
    BY <2>2 DEF Schedule, workers
  <2>3. ASSUME NEW w \in Workers, Select(w) PROVE Deadlines'
    BY <2>3 DEF Select
  <2>4. ASSUME NEW w \in Workers, Claim(w) PROVE Deadlines'
    BY <2>4 DEF Claim
  <2>5. ASSUME NEW w \in Workers, LoseClaim(w) PROVE Deadlines'
    BY <2>5 DEF LoseClaim
  <2>6. ASSUME NEW w \in Workers, Fire(w) PROVE Deadlines'
    BY <2>6 DEF Fire
  <2>7. ASSUME NEW w \in Workers, Record(w) PROVE Deadlines'
    BY <2>7 DEF Record
  <2>8. CASE Tick
    BY <2>8 DEF Tick
  <2>9. CASE Crash
    BY <2>9 DEF Crash
  <2>10. CASE Reconstruct
    BY <2>10 DEF Reconstruct, workers
  <2>11. CASE UNCHANGED vars
    BY <2>11 DEF vars, workers
  <2> QED
    BY <2>1, <2>2, <2>3, <2>4, <2>5, <2>6, <2>7, <2>8, <2>9, <2>10, <2>11 DEF Next, Work
<1>3. TypeOK /\ Deadlines => NeverEarly
  BY DEF Deadlines, NeverEarly, TypeOK
<1> QED
  BY <1>1, <1>2, <1>3, TypeCorrect, PTL DEF Spec

-----------------------------------------------------------------------------

\* A job that was long missed at the start has a row, can no longer be claimed,
\* and no worker is on it. Only a worker that is on a job puts it back.
Shelved ==
  /\ ~up => \A w \in Workers : pc[w] = "idle"
  /\ up => \A j \in missed : status[j] # "Absent" /\ ~Claimable(j)
  /\ \A w \in Workers : pc[w] # "idle" => job[w] \notin missed

\* A job whose moment had passed by more than the grace at startup is not run
\* by that process, even when it is scheduled once more.
THEOREM MissedJobsAreNotRun == Spec => []MissedJobsStayMissed
<1>1. Init => Shelved
  BY DEF Init, Shelved
<1>2. TypeOK /\ Shelved /\ [Next]_vars => Shelved'
  <2> SUFFICES ASSUME TypeOK, Shelved, [Next]_vars PROVE Shelved'
    OBVIOUS
  <2> USE DEF TypeOK, Shelved, Claimable
  <2>1. ASSUME NEW j \in Jobs, Cancel(j) PROVE Shelved'
    BY <2>1 DEF Cancel, workers, ghost
  <2>2. ASSUME NEW j \in Jobs, NEW at \in Time, Schedule(j, at) PROVE Shelved'
    BY <2>2 DEF Schedule, workers
  <2>3. ASSUME NEW w \in Workers, Select(w) PROVE Shelved'
    BY <2>3 DEF Select, DueForPreflight, table, ghost
  <2>4. ASSUME NEW w \in Workers, Claim(w) PROVE Shelved'
    BY <2>4 DEF Claim, ghost
  <2>5. ASSUME NEW w \in Workers, LoseClaim(w) PROVE Shelved'
    BY <2>5 DEF LoseClaim, table, ghost
  <2>6. ASSUME NEW w \in Workers, Fire(w) PROVE Shelved'
    BY <2>6 DEF Fire, table
  <2>7. ASSUME NEW w \in Workers, Record(w) PROVE Shelved'
    BY <2>7 DEF Record
  <2>8. CASE Tick
    BY <2>8 DEF Tick, table, ghost
  <2>9. CASE Crash
    BY <2>9 DEF Crash, table
  <2>10. CASE Reconstruct
    BY <2>10 DEF Reconstruct, LongPast, workers
  <2>11. CASE UNCHANGED vars
    BY <2>11 DEF vars, table, workers, ghost
  <2> QED
    BY <2>1, <2>2, <2>3, <2>4, <2>5, <2>6, <2>7, <2>8, <2>9, <2>10, <2>11 DEF Next, Work
<1>3. Shelved => MissedJobsStayMissed
  BY DEF Shelved, MissedJobsStayMissed
<1> QED
  BY <1>1, <1>2, <1>3, TypeCorrect, PTL DEF Spec

\* A job runs at its time: not before it, and not when it was long missed.
THEOREM JobsRunInTime == Spec => []RunsInTime
BY WaitIsLongEnough, MissedJobsAreNotRun, PTL DEF RunsInTime

-----------------------------------------------------------------------------
(* The scheduler implements the abstract dispatch *)

\* A job nobody holds shows the phase of its row.
LEMMA PhaseOfRow ==
  ASSUME NEW j \in Jobs, ~HeldAt(j, "executing"), ~HeldAt(j, "waiting")
  PROVE  Phase(j) = IF status[j] = "Absent" THEN "None"
                    ELSE IF Claimable(j) THEN "Queued" ELSE "Closed"
BY DEF Phase

\* A held job is neither absent nor claimable, and has one holder.
LEMMA HeldIsOwned ==
  ASSUME Ownership, NEW j \in Jobs, NEW w \in Workers, job[w] = j,
         pc[w] \in {"waiting", "executing"}
  PROVE  /\ status[j] \in {"Running", "Cancelled"}
         /\ HeldAt(j, "executing") <=> pc[w] = "executing"
         /\ HeldAt(j, "waiting") <=> pc[w] = "waiting"
BY DEF Ownership, SoleRunner, Holds, HeldAt

\* The phase of a job depends on its row and on who holds it.
LEMMA PhaseKept ==
  ASSUME NEW j \in Jobs, status'[j] = status[j],
         \A w \in Workers, p \in {"waiting", "executing"} :
           job'[w] = j /\ pc'[w] = p <=> job[w] = j /\ pc[w] = p
  PROVE  Phase(j)' = Phase(j)
<1>1. HeldAt(j, "executing")' <=> HeldAt(j, "executing")
  BY DEF HeldAt
<1>2. HeldAt(j, "waiting")' <=> HeldAt(j, "waiting")
  BY DEF HeldAt
<1>3. Claimable(j)' <=> Claimable(j)
  BY DEF Claimable
<1> QED BY <1>1, <1>2, <1>3 DEF Phase

\* Every step of the table, the workers, the clocks, a crash or a startup is a
\* step of Dispatch or leaves it unchanged.
THEOREM StepsRefineDispatch == Spec => ImplementsDispatch
<1> DEFINE phases == [j \in Jobs |-> Phase(j)]
<1>1. Init => Promise!Init
  <2> SUFFICES ASSUME Init PROVE Promise!Init
    OBVIOUS
  <2>1. ASSUME NEW j \in Jobs PROVE Phase(j) = "None"
    BY <2>1 DEF Init, Phase, HeldAt
  <2>2. phases = [j \in Jobs |-> "None"] /\ fired = [j \in Jobs |-> 0]
    BY <2>1 DEF Init
  <2> QED BY <2>2 DEF Promise!Init
<1>2. TypeOK /\ Ownership /\ [Next]_vars => [Promise!Next]_(Promise!vars)
  <2> SUFFICES ASSUME TypeOK, Ownership, [Next]_vars
               PROVE  Promise!Next \/ UNCHANGED Promise!vars
    OBVIOUS
  <2> USE DEF TypeOK
  <2> DEFINE Same == UNCHANGED Promise!vars
  <2>0. ASSUME fired' = fired, \A j \in Jobs : Phase(j)' = Phase(j) PROVE Same
    BY <2>0 DEF Promise!vars
  <2>1. ASSUME NEW j \in Jobs, Cancel(j) PROVE Promise!Next \/ Same
    <3>1. \A k \in Jobs \ {j} : Phase(k)' = Phase(k)
      BY <2>1, PhaseKept DEF Cancel, workers
    <3>2. CASE Phase(j)' = Phase(j)
      BY <2>0, <2>1, <3>1, <3>2 DEF Cancel, ghost
    <3>3. CASE Phase(j)' # Phase(j)
      <4>1. Phase(j) = "Queued" /\ Phase(j)' = "Closed"
        BY <2>1, <3>3 DEF Cancel, workers, Phase, HeldAt, Claimable
      <4>2. phases' = [k \in Jobs |-> IF k \in {j} THEN "Closed" ELSE phases[k]]
        BY <3>1, <4>1
      <4>3. Promise!GiveUp({j})
        BY <2>1, <4>1, <4>2 DEF Cancel, ghost, Promise!GiveUp
      <4>4. Promise!MoveOn(j)
        BY <4>3 DEF Promise!MoveOn
      <4> QED BY <4>4 DEF Promise!Next
    <3> QED BY <3>2, <3>3
  <2>2. ASSUME NEW j \in Jobs, NEW at \in Time, Schedule(j, at) PROVE Promise!Next \/ Same
    <3>1. \A k \in Jobs \ {j} : Phase(k)' = Phase(k)
      BY <2>2, PhaseKept DEF Schedule, workers
    <3>2. CASE status[j] = "Absent"
      <4>1. ~HeldAt(j, "executing") /\ ~HeldAt(j, "waiting")
        BY <3>2 DEF Ownership, Holds, HeldAt
      <4>2. (~HeldAt(j, "executing") /\ ~HeldAt(j, "waiting"))'
        BY <2>2, <4>1 DEF Schedule, workers, HeldAt
      <4>3. Phase(j) = "None" /\ Phase(j)' = "Queued"
        BY <2>2, <3>2, <4>1, <4>2 DEF Schedule, Phase, Claimable
      <4>4. phases' = [phases EXCEPT ![j] = "Queued"]
        BY <3>1, <4>3
      <4>5. Promise!Accept(j)
        BY <2>2, <4>3, <4>4 DEF Schedule, Promise!Accept
      <4> QED BY <4>5 DEF Promise!Next
    <3>3. CASE status[j] # "Absent"
      <4>1. Phase(j)' = Phase(j)
        BY <2>2, <3>3, PhaseKept DEF Schedule, workers
      <4> QED BY <2>0, <2>2, <3>1, <4>1 DEF Schedule
    <3> QED BY <3>2, <3>3
  <2>3. ASSUME NEW w \in Workers, Select(w) PROVE Same
    <3>1. \A j \in Jobs : Phase(j)' = Phase(j)
      BY <2>3, PhaseKept DEF Select, table
    <3> QED BY <2>0, <2>3, <3>1 DEF Select, ghost
  <2>4. ASSUME NEW w \in Workers, Claim(w) PROVE Promise!Next
    <3>0. PICK j \in Jobs : j = job[w] /\ Claimable(j)
      BY <2>4 DEF Claim
    <3>1. \A k \in Jobs \ {j} : Phase(k)' = Phase(k)
      BY <2>4, <3>0, PhaseKept DEF Claim
    <3>2. ~HeldAt(j, "executing") /\ ~HeldAt(j, "waiting")
      BY <3>0 DEF Ownership, Holds, HeldAt, Claimable
    <3>3. Phase(j) = "Queued"
      BY <3>0, <3>2 DEF Phase, Claimable
    <3>4. Phase(j)' = "Taken"
      BY <2>4, <3>0, <3>2 DEF Claim, Phase, HeldAt
    <3>5. phases' = [phases EXCEPT ![j] = "Taken"]
      BY <3>0, <3>1, <3>4
    <3>6. Promise!Take(j)
      BY <2>4, <3>0, <3>3, <3>5 DEF Claim, ghost, Promise!Take
    <3> QED BY <3>0, <3>6 DEF Promise!Next, Promise!MoveOn
  <2>5. ASSUME NEW w \in Workers, LoseClaim(w) PROVE Same
    <3>1. \A j \in Jobs : Phase(j)' = Phase(j)
      BY <2>5, PhaseKept DEF LoseClaim, table
    <3> QED BY <2>0, <2>5, <3>1 DEF LoseClaim, ghost
  <2>6. ASSUME NEW w \in Workers, Fire(w) PROVE Promise!Next
    <3>0. PICK j \in Jobs : j = job[w]
      BY <2>6 DEF Fire
    <3>1. \A k \in Jobs \ {j} : Phase(k)' = Phase(k)
      BY <2>6, <3>0, PhaseKept DEF Fire, table
    <3>2. Phase(j) = "Taken"
      BY <2>6, <3>0, HeldIsOwned DEF Fire, Phase
    <3>3. Phase(j)' = "Begun"
      BY <2>6, <3>0 DEF Fire, Phase, HeldAt
    <3>4. phases' = [phases EXCEPT ![j] = "Begun"]
      BY <3>0, <3>1, <3>3
    <3>5. Promise!Run(j)
      BY <2>6, <3>0, <3>2, <3>4 DEF Fire, Promise!Run
    <3> QED BY <3>0, <3>5 DEF Promise!Next, Promise!MoveOn
  <2>7. ASSUME NEW w \in Workers, Record(w) PROVE Promise!Next
    <3>0. PICK j \in Jobs : j = job[w]
      BY <2>7 DEF Record
    <3>1. \A k \in Jobs \ {j} : Phase(k)' = Phase(k)
      BY <2>7, <3>0, PhaseKept DEF Record
    <3>2. Phase(j) = "Begun"
      BY <2>7, <3>0, HeldIsOwned DEF Record, Phase
    <3>3. ~HeldAt(j, "executing")' /\ ~HeldAt(j, "waiting")'
      BY <2>7, <3>0 DEF Record, HeldAt, Ownership, SoleRunner, Holds
    <3>4. Phase(j)' \in {"Closed", "Queued"}
      BY <2>7, <3>0, <3>3 DEF Record, Phase, Claimable
    <3>5. phases' = [phases EXCEPT ![j] = Phase(j)']
      BY <3>0, <3>1
    <3>6. Promise!Conclude(j)
      BY <2>7, <3>0, <3>2, <3>4, <3>5 DEF Record, Promise!Conclude
    <3> QED BY <3>0, <3>6 DEF Promise!Next, Promise!MoveOn
  <2>8. CASE Tick
    <3>1. \A j \in Jobs : Phase(j)' = Phase(j)
      BY <2>8, PhaseKept DEF Tick, table
    <3> QED BY <2>0, <2>8, <3>1 DEF Tick, ghost
  <2>9. CASE Crash
    <3> DEFINE J == {j \in Jobs : HeldAt(j, "waiting") \/ HeldAt(j, "executing")}
    <3>1. \A j \in Jobs : ~HeldAt(j, "executing")' /\ ~HeldAt(j, "waiting")'
      BY <2>9 DEF Crash, HeldAt
    <3>2. ASSUME NEW j \in J PROVE Phase(j) \in {"Taken", "Begun"} /\ Phase(j)' = "Closed"
      <4>1. status[j] \in {"Running", "Cancelled"} /\ status' = status
        BY <2>9, <3>2 DEF Ownership, Holds, HeldAt, Crash, table
      <4> QED BY <3>1, <3>2, <4>1 DEF Phase, Claimable
    <3>3. ASSUME NEW j \in Jobs \ J PROVE Phase(j)' = Phase(j)
      BY <2>9, <3>1, <3>3 DEF Crash, table, Phase, Claimable
    <3>4. fired' = fired
      BY <2>9 DEF Crash
    <3>5. CASE J = {}
      BY <2>0, <3>3, <3>4, <3>5
    <3>6. CASE J # {}
      <4>1. phases' = [j \in Jobs |-> IF j \in J THEN "Closed" ELSE phases[j]]
        BY <3>2, <3>3
      <4>2. Promise!GiveUp(J)
        BY <3>2, <3>4, <4>1 DEF Promise!GiveUp
      <4>3. PICK j \in Jobs : j \in J
        BY <3>6
      <4>4. J \in SUBSET Jobs
        OBVIOUS
      <4>5. Promise!MoveOn(j)
        BY <4>2, <4>3, <4>4 DEF Promise!MoveOn
      <4> QED BY <4>5 DEF Promise!Next
    <3> QED BY <3>5, <3>6
  <2>10. CASE Reconstruct
    <3> DEFINE J == {j \in LongPast : Claimable(j)}
    <3>0. J \subseteq Jobs
      BY DEF LongPast
    <3>1. \A j \in Jobs, p \in {"waiting", "executing"} : HeldAt(j, p)' = HeldAt(j, p)
      BY <2>10 DEF Reconstruct, workers, HeldAt
    <3>2. ASSUME NEW j \in J PROVE Phase(j) = "Queued" /\ Phase(j)' = "Closed"
      <4>1. ~HeldAt(j, "executing") /\ ~HeldAt(j, "waiting")
        BY <3>0, <3>2 DEF Ownership, Holds, HeldAt, Claimable
      <4>2. status'[j] = "Stale" /\ status[j] \in {"Pending", "Ready"}
        BY <2>10, <3>0, <3>2 DEF Reconstruct, Claimable
      <4> QED BY <3>0, <3>1, <4>1, <4>2 DEF Phase, Claimable
    <3>3. ASSUME NEW j \in Jobs \ J PROVE Phase(j)' = Phase(j)
      <4>1. status'[j] = status[j]
        BY <2>10, <3>3 DEF Reconstruct, LongPast
      <4> QED BY <2>10, <4>1, PhaseKept DEF Reconstruct, workers
    <3>4. fired' = fired
      BY <2>10 DEF Reconstruct
    <3>5. CASE J = {}
      BY <2>0, <3>3, <3>4, <3>5
    <3>6. CASE J # {}
      <4>1. phases' = [j \in Jobs |-> IF j \in J THEN "Closed" ELSE phases[j]]
        BY <3>0, <3>2, <3>3
      <4>2. Promise!GiveUp(J)
        BY <3>0, <3>2, <3>4, <4>1 DEF Promise!GiveUp
      <4>3. PICK j \in Jobs : j \in J
        BY <3>0, <3>6
      <4>4. J \in SUBSET Jobs
        BY <3>0
      <4>5. Promise!MoveOn(j)
        BY <4>2, <4>3, <4>4 DEF Promise!MoveOn
      <4> QED BY <4>5 DEF Promise!Next
    <3> QED BY <3>5, <3>6
  <2>11. CASE UNCHANGED vars
    <3>1. \A j \in Jobs : Phase(j)' = Phase(j)
      BY <2>11, PhaseKept DEF vars, table, workers
    <3> QED BY <2>0, <2>11, <3>1 DEF vars, ghost
  <2> QED
    BY <2>1, <2>2, <2>3, <2>4, <2>5, <2>6, <2>7, <2>8, <2>9, <2>10, <2>11 DEF Next, Work
<1> QED BY <1>1, <1>2, TypeCorrect, OwnershipInvariant, PTL DEF Spec, ImplementsDispatch, Promise!Spec

=============================================================================
