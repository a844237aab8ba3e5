--------------------------- MODULE DiscoveryProofs ---------------------------
(***************************************************************************)
(* Proofs about Discovery for every set of collectors, vouchers and        *)
(* versions.                                                               *)
(***************************************************************************)
EXTENDS Discovery, TLAPS

\* The handling of one candidate of a batch.
Handle(c, x) == Reject(c, x) \/ Create(c, x) \/ ReadStored(c, x)

\* A transaction in progress belongs to an ingestion and holds a valid candidate.
Reads ==
  \A c \in Collectors : reading[c] # NotReading =>
    pc[c] = "ingesting" /\ Valid(reading[c].candidate)

Typed == TypeOK /\ Reads

\* Every reachable state is well typed, and transactions hold valid candidates.
LEMMA TypedInvariant == Spec => []Typed
<1> USE DiscoveryAssumption
<1> USE DEF Typed, TypeOK, Reads
<1>1. Init => Typed
  BY DEF Init, SourceHealthState
<1>2. Typed /\ [Next]_vars => Typed'
  <2> SUFFICES ASSUME Typed, [Next]_vars PROVE Typed'
    OBVIOUS
  <2>1. ASSUME NEW c \in Collectors, Collect(c) PROVE Typed'
    BY <2>1 DEF Collect, tables
  <2>2. ASSUME NEW c \in Collectors, CollectFails(c) PROVE Typed'
    <3>1. \A err \in CollectError : HealthAfter(err) \in SourceHealthState
      BY DEF CollectError, HealthAfter, SourceHealthState
    <3> QED
      BY <2>2, <3>1 DEF CollectFails, tables
  <2>3. ASSUME NEW c \in Collectors, NEW x \in todo[c], Reject(c, x) PROVE Typed'
    BY <2>3 DEF Reject, tables
  <2>4. ASSUME NEW c \in Collectors, NEW x \in todo[c], Create(c, x) PROVE Typed'
    <3>1. x \in Candidate /\ x.version \in Versions /\ x.voucher \in Vouchers
      BY <2>4 DEF Create, Candidate, Valid
    <3>2. Found("Discovered", x) \in Event
      BY <3>1 DEF Found, Event
    <3>3. events' \in [Collectors -> Seq(Event)]
      BY <2>4, <3>2 DEF Create
    <3> QED
      BY <2>4, <3>1, <3>3 DEF Create
  <2>5. ASSUME NEW c \in Collectors, NEW x \in todo[c], ReadStored(c, x) PROVE Typed'
    <3>1. x \in Candidate /\ stored[x.voucher] \in Versions
      BY <2>5 DEF ReadStored, Candidate
    <3>2. [candidate |-> x, version |-> stored[x.voucher]] \in [candidate : Candidate, version : Versions]
      BY <3>1
    <3> QED
      BY <2>5, <3>1, <3>2 DEF ReadStored, tables, Valid
  <2>6. ASSUME NEW c \in Collectors, Commit(c) PROVE Typed'
    <3> DEFINE x == reading[c].candidate
    <3>1. x \in todo[c] /\ x \in Candidate /\ x.version \in Versions /\ x.voucher \in Vouchers
      BY <2>6 DEF Commit, Candidate, Valid
    <3>2. Found("Updated", x) \in Event
      BY <3>1 DEF Found, Event
    <3>3. events' \in [Collectors -> Seq(Event)]
      BY <2>6, <3>2 DEF Commit
    <3> QED
      BY <2>6, <3>1, <3>3 DEF Commit
  <2>7. ASSUME NEW c \in Collectors, IngestFails(c) PROVE Typed'
    BY <2>7 DEF IngestFails, Ended, HealthAfter, SourceHealthState, tables
  <2>8. ASSUME NEW c \in Collectors, FinishRun(c) PROVE Typed'
    BY <2>8 DEF FinishRun, SourceHealthState, tables
  <2>9. ASSUME NEW c \in Collectors, Enqueue(c) PROVE Typed'
    <3>1. Head(events[c]) \in Event /\ Tail(events[c]) \in Seq(Event)
      BY <2>9 DEF Enqueue
    <3>2. events' \in [Collectors -> Seq(Event)]
      BY <2>9, <3>1 DEF Enqueue
    <3>3. outbox' \subseteq {IdempotencyKey(e) : e \in Event}
      BY <2>9, <3>1 DEF Enqueue
    <3>4. told' \subseteq Vouchers \X Versions
      BY <2>9, <3>1 DEF Enqueue, Event
    <3> QED
      BY <2>9, <3>2, <3>3, <3>4 DEF Enqueue
  <2>10. ASSUME NEW c \in Collectors, EnqueueFails(c) PROVE Typed'
    BY <2>10 DEF EnqueueFails, Ended, tables
  <2>11. ASSUME NEW c \in Collectors, EndIteration(c) PROVE Typed'
    BY <2>11 DEF EndIteration, Ended, tables
  <2>12. CASE Crash
    BY <2>12 DEF Crash, SourceHealthState, tables
  <2>13. CASE UNCHANGED vars
    BY <2>13 DEF vars, tables, iteration
  <2> QED
    BY <2>1, <2>2, <2>3, <2>4, <2>5, <2>6, <2>7, <2>8, <2>9, <2>10, <2>11, <2>12, <2>13
    DEF Next
<1> QED
  BY <1>1, <1>2, PTL DEF Spec

\* Every reachable state is well typed.
THEOREM TypeCorrect == Spec => []TypeOK
<1>1. Typed => TypeOK
  BY DEF Typed
<1> QED
  BY <1>1, TypedInvariant, PTL

\* The version an event or a candidate names, with its voucher.
Named(e) == <<e.voucher, e.version>>

\* What is stored, announced, or waiting to be announced is in the trail.
Backed ==
  /\ AnnouncedIsStored
  /\ \A c \in Collectors : \A i \in DOMAIN events[c] : Named(events[c][i]) \in trail

\* The row always holds a version of the trail and only versions of the trail
\* are announced, whatever transactions interleave and fail.
THEOREM AnnouncementsAreBacked == Spec => []AnnouncedIsStored
<1> USE DEF Backed, AnnouncedIsStored, Named
<1>1. Init => Backed
  BY DEF Init
<1>2. Typed /\ Backed /\ [Next]_vars => Backed'
  <2> SUFFICES ASSUME Typed, Backed, [Next]_vars PROVE Backed'
    OBVIOUS
  <2> USE DEF Typed, TypeOK
  <2>1. ASSUME NEW c \in Collectors, Collect(c) PROVE Backed'
    BY <2>1 DEF Collect, tables
  <2>2. ASSUME NEW c \in Collectors, CollectFails(c) PROVE Backed'
    BY <2>2 DEF CollectFails, tables
  <2>3. ASSUME NEW c \in Collectors, NEW x \in todo[c], Reject(c, x) PROVE Backed'
    BY <2>3 DEF Reject, tables
  <2>4. ASSUME NEW c \in Collectors, NEW x \in todo[c], Create(c, x) PROVE Backed'
    <3> DEFINE e == Found("Discovered", x)
    <3>1. e.voucher = x.voucher /\ e.version = x.version
      BY DEF Found
    <3>2. trail' = trail \union {Named(x)}
      BY <2>4 DEF Create
    <3>3. \A i \in DOMAIN events'[c] : events'[c][i] = e \/ (i \in DOMAIN events[c] /\ events'[c][i] = events[c][i])
      BY <2>4 DEF Create
    <3>4. \A d \in Collectors \ {c} : events'[d] = events[d]
      BY <2>4 DEF Create
    <3>5. \A d \in Collectors : \A i \in DOMAIN events'[d] : Named(events'[d][i]) \in trail'
      BY <3>1, <3>2, <3>3, <3>4
    <3> QED
      BY <2>4, <3>2, <3>5 DEF Create
  <2>5. ASSUME NEW c \in Collectors, NEW x \in todo[c], ReadStored(c, x) PROVE Backed'
    BY <2>5 DEF ReadStored, tables
  <2>6. ASSUME NEW c \in Collectors, Commit(c) PROVE Backed'
    <3> DEFINE x == reading[c].candidate
               e == Found("Updated", x)
    <3>1. CASE x.version = reading[c].version
      BY <2>6, <3>1 DEF Commit
    <3>2. CASE x.version # reading[c].version
      <4>1. e.voucher = x.voucher /\ e.version = x.version
        BY DEF Found
      <4>2. trail' = trail \union {Named(x)}
        BY <2>6, <3>2 DEF Commit
      <4>3. \A i \in DOMAIN events'[c] : events'[c][i] = e \/ (i \in DOMAIN events[c] /\ events'[c][i] = events[c][i])
        BY <2>6, <3>2 DEF Commit
      <4>4. \A d \in Collectors \ {c} : events'[d] = events[d]
        BY <2>6, <3>2 DEF Commit
      <4>5. \A d \in Collectors : \A i \in DOMAIN events'[d] : Named(events'[d][i]) \in trail'
        BY <4>1, <4>2, <4>3, <4>4
      <4> QED
        BY <2>6, <3>2, <4>2, <4>5 DEF Commit
    <3> QED
      BY <3>1, <3>2
  <2>7. ASSUME NEW c \in Collectors, IngestFails(c) PROVE Backed'
    BY <2>7 DEF IngestFails, Ended, tables
  <2>8. ASSUME NEW c \in Collectors, FinishRun(c) PROVE Backed'
    BY <2>8 DEF FinishRun, tables
  <2>9. ASSUME NEW c \in Collectors, Enqueue(c) PROVE Backed'
    <3>1. Named(Head(events[c])) \in trail
      BY <2>9 DEF Enqueue
    <3>2. \A i \in DOMAIN events'[c] : i + 1 \in DOMAIN events[c] /\ events'[c][i] = events[c][i + 1]
      BY <2>9 DEF Enqueue
    <3>3. \A d \in Collectors \ {c} : events'[d] = events[d]
      BY <2>9 DEF Enqueue
    <3>4. told' \subseteq told \union {Named(Head(events[c]))}
      BY <2>9 DEF Enqueue
    <3> QED
      BY <2>9, <3>1, <3>2, <3>3, <3>4 DEF Enqueue
  <2>10. ASSUME NEW c \in Collectors, EnqueueFails(c) PROVE Backed'
    BY <2>10 DEF EnqueueFails, Ended, tables
  <2>11. ASSUME NEW c \in Collectors, EndIteration(c) PROVE Backed'
    BY <2>11 DEF EndIteration, Ended, tables
  <2>12. CASE Crash
    BY <2>12 DEF Crash, tables
  <2>13. CASE UNCHANGED vars
    BY <2>13 DEF vars, tables, iteration
  <2> QED
    BY <2>1, <2>2, <2>3, <2>4, <2>5, <2>6, <2>7, <2>8, <2>9, <2>10, <2>11, <2>12, <2>13
    DEF Next
<1>3. Backed => AnnouncedIsStored
  OBVIOUS
<1> QED
  BY <1>1, <1>2, <1>3, TypedInvariant, PTL DEF Spec

\* A key that is taken was announced, and without a failure every version of
\* the trail is announced or on its way.
Complete ==
  /\ \A e \in Event : IdempotencyKey(e) \in outbox => Named(e) \in told
  /\ NothingLostWithoutFault

\* Without failures no version is lost between the tables and the outbox, for
\* any number of collectors and any interleaving of their transactions.
THEOREM NothingIsLost == Spec => []NothingLostWithoutFault
<1> USE DEF Complete, NothingLostWithoutFault, OnItsWay, Named
<1>1. Init => Complete
  BY DEF Init
<1>2. Typed /\ Complete /\ [Next]_vars => Complete'
  <2> SUFFICES ASSUME Typed, Complete, [Next]_vars PROVE Complete'
    OBVIOUS
  <2> USE DiscoveryAssumption DEF Typed, TypeOK
  <2>1. ASSUME NEW c \in Collectors, Collect(c) PROVE Complete'
    BY <2>1 DEF Collect, tables
  <2>2. ASSUME NEW c \in Collectors, CollectFails(c) PROVE Complete'
    BY <2>2 DEF CollectFails, tables
  <2>3. ASSUME NEW c \in Collectors, NEW x \in todo[c], Reject(c, x) PROVE Complete'
    BY <2>3 DEF Reject, tables
  <2>4. ASSUME NEW c \in Collectors, NEW x \in todo[c], Create(c, x) PROVE Complete'
    <3> DEFINE e == Found("Discovered", x)
    <3>1. e.voucher = x.voucher /\ e.version = x.version
      BY DEF Found
    <3>2. events'[c] = Append(events[c], e) /\ trail' = trail \union {Named(x)}
      BY <2>4 DEF Create
    <3>3. OnItsWay(x.voucher, x.version)'
      <4>1. Len(events[c]) + 1 \in DOMAIN events'[c] /\ events'[c][Len(events[c]) + 1] = e
        BY <3>2
      <4> QED
        BY <3>1, <4>1
    <3>4. \A v \in Vouchers, ver \in Versions : OnItsWay(v, ver) => OnItsWay(v, ver)'
      <4>1. \A d \in Collectors : \A i \in DOMAIN events[d] : i \in DOMAIN events'[d] /\ events'[d][i] = events[d][i]
        BY <2>4 DEF Create
      <4> HIDE DEF TypeOK
      <4> QED
        BY <4>1
    <3>5. \A y \in trail : y[1] \in Vouchers /\ y[2] \in Versions
      OBVIOUS
    <3>6. outbox' = outbox /\ told' = told /\ faults' = faults
      BY <2>4 DEF Create
    <3>7. Named(x)[1] = x.voucher /\ Named(x)[2] = x.version
      OBVIOUS
    <3> HIDE DEF TypeOK, OnItsWay, Named
    <3> QED
      BY <3>2, <3>3, <3>4, <3>5, <3>6, <3>7
  <2>5. ASSUME NEW c \in Collectors, NEW x \in todo[c], ReadStored(c, x) PROVE Complete'
    BY <2>5 DEF ReadStored, tables
  <2>6. ASSUME NEW c \in Collectors, Commit(c) PROVE Complete'
    <3> PICK x \in Candidate : x = reading[c].candidate
      BY <2>6 DEF Commit
    <3> DEFINE e == Found("Updated", x)
    <3>1. CASE x.version = reading[c].version
      <4>1. events' = [events EXCEPT ![c] = @] /\ trail' = trail
        BY <2>6, <3>1 DEF Commit
      <4>2. events' = events
        BY <4>1
      <4>3. outbox' = outbox /\ told' = told /\ faults' = faults
        BY <2>6 DEF Commit
      <4> HIDE DEF TypeOK
      <4> QED
        BY <4>1, <4>2, <4>3
    <3>2. CASE x.version # reading[c].version
      <4>1. e.voucher = x.voucher /\ e.version = x.version
        BY DEF Found
      <4>2. events'[c] = Append(events[c], e) /\ trail' = trail \union {Named(x)}
        BY <2>6, <3>2 DEF Commit
      <4>3. OnItsWay(x.voucher, x.version)'
        <5>1. Len(events[c]) + 1 \in DOMAIN events'[c] /\ events'[c][Len(events[c]) + 1] = e
          BY <4>2
        <5> QED
          BY <4>1, <5>1
      <4>4. \A v \in Vouchers, ver \in Versions : OnItsWay(v, ver) => OnItsWay(v, ver)'
        <5>1. \A d \in Collectors : \A i \in DOMAIN events[d] : i \in DOMAIN events'[d] /\ events'[d][i] = events[d][i]
          BY <2>6, <3>2 DEF Commit
        <5> HIDE DEF TypeOK
        <5> QED
          BY <5>1
      <4>5. \A y \in trail : y[1] \in Vouchers /\ y[2] \in Versions
        OBVIOUS
      <4>6. outbox' = outbox /\ told' = told /\ faults' = faults
        BY <2>6 DEF Commit
      <4>7. Named(x)[1] = x.voucher /\ Named(x)[2] = x.version
        OBVIOUS
      <4> HIDE DEF TypeOK, OnItsWay, Named
      <4> QED
        BY <4>2, <4>3, <4>4, <4>5, <4>6, <4>7
    <3> QED
      BY <3>1, <3>2
  <2>7. ASSUME NEW c \in Collectors, IngestFails(c) PROVE Complete'
    BY <2>7 DEF IngestFails, Ended, tables
  <2>8. ASSUME NEW c \in Collectors, FinishRun(c) PROVE Complete'
    BY <2>8 DEF FinishRun, tables
  <2>9. ASSUME NEW c \in Collectors, Enqueue(c) PROVE Complete'
    <3> DEFINE h == Head(events[c])
    <3>1. h \in Event
      BY <2>9 DEF Enqueue
    <3>2. told \subseteq told' /\ Named(h) \in told'
      BY <2>9, <3>1 DEF Enqueue
    <3>3. outbox' \subseteq outbox \union {IdempotencyKey(h)}
      BY <2>9 DEF Enqueue
    <3>4. \A e \in Event : IdempotencyKey(e) = IdempotencyKey(h) => Named(e) = Named(h)
      BY <3>1 DEF IdempotencyKey
    <3>5. \A v \in Vouchers, ver \in Versions :
            OnItsWay(v, ver) => OnItsWay(v, ver)' \/ <<v, ver>> = Named(h)
      <4>1. \A i \in DOMAIN events[c] :
              i = 1 \/ (i - 1 \in DOMAIN events'[c] /\ events'[c][i - 1] = events[c][i])
        BY <2>9 DEF Enqueue
      <4>2. h = events[c][1]
        BY <2>9 DEF Enqueue
      <4>3. \A d \in Collectors \ {c} : events'[d] = events[d]
        BY <2>9 DEF Enqueue
      <4> HIDE DEF TypeOK
      <4> QED
        BY <4>1, <4>2, <4>3
    <3>6. \A y \in trail : y = <<y[1], y[2]>> /\ y[1] \in Vouchers /\ y[2] \in Versions
      OBVIOUS
    <3>7. faults' = faults /\ trail' = trail
      BY <2>9 DEF Enqueue
    <3>8. \A e \in Event : IdempotencyKey(e) \in outbox' => Named(e) \in told'
      BY <3>2, <3>3, <3>4
    <3> HIDE DEF TypeOK, OnItsWay, Named
    <3> QED
      BY <3>2, <3>5, <3>6, <3>7, <3>8
  <2>10. ASSUME NEW c \in Collectors, EnqueueFails(c) PROVE Complete'
    BY <2>10 DEF EnqueueFails, Ended, tables
  <2>11. ASSUME NEW c \in Collectors, EndIteration(c) PROVE Complete'
    <3>1. \A d \in Collectors : \A i \in DOMAIN events[d] : i \in DOMAIN events'[d] /\ events'[d][i] = events[d][i]
      BY <2>11 DEF EndIteration, Ended
    <3>2. trail' = trail /\ outbox' = outbox /\ told' = told /\ faults' = faults
      BY <2>11 DEF EndIteration, tables
    <3> HIDE DEF TypeOK
    <3> QED
      BY <3>1, <3>2
  <2>12. CASE Crash
    BY <2>12 DEF Crash, tables
  <2>13. CASE UNCHANGED vars
    BY <2>13 DEF vars, tables, iteration
  <2> QED
    BY <2>1, <2>2, <2>3, <2>4, <2>5, <2>6, <2>7, <2>8, <2>9, <2>10, <2>11, <2>12, <2>13
    DEF Next
<1>3. Complete => NothingLostWithoutFault
  OBVIOUS
<1> QED
  BY <1>1, <1>2, <1>3, TypedInvariant, PTL DEF Spec

\* While a batch is ingested, each candidate is still to do, was stored, or
\* made the run partial; afterwards a healthy source stored them all.
Processed ==
  /\ HealthyMeansStored
  /\ \A c \in Collectors : pc[c] = "ingesting" =>
       \A x \in batch[c] :
         x \in todo[c] \/ partial[c] \/ (Valid(x) /\ <<c, x.voucher, x.version>> \in seen)

\* A healthy source has stored everything its last run fetched, for any number
\* of collectors and any failure.
THEOREM HealthIsEarned == Spec => []HealthyMeansStored
<1> USE DEF Processed, HealthyMeansStored
<1>1. Init => Processed
  BY DEF Init
<1>2. Typed /\ Processed /\ [Next]_vars => Processed'
  <2> SUFFICES ASSUME Typed, Processed, [Next]_vars PROVE Processed'
    OBVIOUS
  <2> USE DEF Typed, TypeOK, Reads
  <2>1. ASSUME NEW c \in Collectors, Collect(c) PROVE Processed'
    BY <2>1 DEF Collect, tables
  <2>2. ASSUME NEW c \in Collectors, CollectFails(c) PROVE Processed'
    BY <2>2 DEF CollectFails, tables
  <2>3. ASSUME NEW c \in Collectors, NEW x \in todo[c], Reject(c, x) PROVE Processed'
    BY <2>3 DEF Reject, tables
  <2>4. ASSUME NEW c \in Collectors, NEW x \in todo[c], Create(c, x) PROVE Processed'
    BY <2>4 DEF Create
  <2>5. ASSUME NEW c \in Collectors, NEW x \in todo[c], ReadStored(c, x) PROVE Processed'
    BY <2>5 DEF ReadStored, tables
  <2>6. ASSUME NEW c \in Collectors, Commit(c) PROVE Processed'
    BY <2>6 DEF Commit
  <2>7. ASSUME NEW c \in Collectors, IngestFails(c) PROVE Processed'
    BY <2>7 DEF IngestFails, Ended, HealthAfter, tables
  <2>8. ASSUME NEW c \in Collectors, FinishRun(c) PROVE Processed'
    BY <2>8 DEF FinishRun, tables
  <2>9. ASSUME NEW c \in Collectors, Enqueue(c) PROVE Processed'
    BY <2>9 DEF Enqueue
  <2>10. ASSUME NEW c \in Collectors, EnqueueFails(c) PROVE Processed'
    BY <2>10 DEF EnqueueFails, Ended, tables
  <2>11. ASSUME NEW c \in Collectors, EndIteration(c) PROVE Processed'
    BY <2>11 DEF EndIteration, Ended, tables
  <2>12. CASE Crash
    BY <2>12 DEF Crash, tables
  <2>13. CASE UNCHANGED vars
    BY <2>13 DEF vars, tables, iteration
  <2> QED
    BY <2>1, <2>2, <2>3, <2>4, <2>5, <2>6, <2>7, <2>8, <2>9, <2>10, <2>11, <2>12, <2>13
    DEF Next
<1>3. Processed => HealthyMeansStored
  OBVIOUS
<1> QED
  BY <1>1, <1>2, <1>3, TypedInvariant, PTL DEF Spec

=============================================================================
