----------------------------- MODULE Collecting -----------------------------
(***************************************************************************)
(* One collection of a source, from the answer it gives to the rows it     *)
(* leaves: the candidates of the Accesstrade, feed and replay collectors,  *)
(* their ingestion in order, the recorded run and the health of the        *)
(* source.  An answer is                                                   *)
(*   [sent : "answered" | "timeout" | "unreachable", status,               *)
(*    body : "whole" | "cut" | "garbled", echo]                            *)
(* where echo tells whether the error text of a broken body has a rate     *)
(* limit marker in it (a column 429, say).  An item is Mistyped when a     *)
(* field of it has a value of another type.                                *)
(***************************************************************************)
EXTENDS Intake, Analytics

CONSTANTS
  Mistyped,
  Answers,    \* of a source over HTTP
  Batches,    \* [from, items]: what a whole body holds, in order
  Fixtures,   \* sequences of files: None if unreadable, or their candidates
  Tokens,     \* None is an empty one
  MaxUpserts  \* bound: rows written before the database fails

\* A body holds a sequence of items, and what went wrong has a name.
ASSUME CollectingAssumption ==
  /\ MaxUpserts \in Nat
  /\ \A batch \in Batches : batch.items \in Seq(Range(batch.items))
  /\ None \notin {"Timeout", "Transient", "RateLimited", "AuthRequired", "Malformed", "Config"}

-----------------------------------------------------------------------------
(* The collectors.  A collection is [error, echo, candidates, failures].    *)

\* What is collected when nothing was read, for a reason or for None.
Failure(kind, echo) == [error |-> kind, echo |-> echo, candidates |-> << >>, failures |-> 0]

\* Mutant: the first item without a candidate ends the reading.
ParsedUntilBroken(read) ==
  LET bad  == {i \in DOMAIN read : ~Stated(read[i])}
      kept == SelectSeq(read, Stated)
  IN [error |-> None, echo |-> FALSE, failures |-> Min2(Cardinality(bad), 1),
      candidates |-> IF bad = {} THEN kept ELSE SubSeq(read, 1, FoldSet(Min2, Len(read), bad) - 1)]

\* What one item gives is a candidate, or None and a failure is counted.
ReadOne(collection, c) ==
  IF Stated(c) THEN [collection EXCEPT !.candidates = Append(@, c)]
  ELSE [collection EXCEPT !.failures = @ + 1]

\* Every item is read, whatever its neighbours are.
Parsed(read) ==
  LET after[n \in 0..Len(read)] ==
        IF n = 0 THEN Failure(None, FALSE) ELSE ReadOne(after[n - 1], read[n])
  IN after[Len(read)]

\* serde decodes a body as a whole.
Typed(items) == Mistyped \notin Range(items)

\* What both HTTP collectors make of an answer; refused is for 401 and 403.
Fetched(answer, refused, typed, read) ==
  IF answer.sent = "timeout" THEN Failure("Timeout", FALSE)
  ELSE IF answer.sent = "unreachable" THEN Failure("Transient", answer.echo)
  ELSE IF answer.status = 429 THEN Failure("RateLimited", TRUE)
  ELSE IF answer.status \in {401, 403} THEN Failure(refused, FALSE)
  ELSE IF answer.status >= 500 THEN Failure("Transient", FALSE)
  ELSE IF answer.status \notin 200..299 THEN Failure("Malformed", FALSE)
  ELSE IF answer.body = "cut" THEN Failure("Transient", answer.echo)
  ELSE IF answer.body = "garbled" \/ ~typed THEN Failure("Malformed", answer.echo)
  ELSE Parsed(read)

CollectCoupons(token, answer, items) ==
  IF ~Stated(token) THEN Failure("Config", FALSE)
  ELSE Fetched(answer, "AuthRequired", Typed(items), [i \in DOMAIN items |-> FromCoupon(items[i])])

CollectFeed(answer, items) ==
  Fetched(answer, "Malformed", Typed(items), [i \in DOMAIN items |-> FromFeed(items[i])])

\* Mutant: the files are read in the order of the directory.
LoadDirAsListed(files, listing) ==
  LET readable == SelectSeq(listing, LAMBDA name : Stated(files[name]))
  IN [error |-> None, echo |-> FALSE, failures |-> Len(files) - Len(readable),
      candidates |-> FlattenSeq([i \in DOMAIN readable |-> files[readable[i]]])]

\* Files are read by name; one that does not parse fails alone.
LoadDir(files, listing) ==
  LET readable == SelectSeq(SetToSortSeq(ToSet(listing), <), LAMBDA name : Stated(files[name]))
  IN [error |-> None, echo |-> FALSE, failures |-> Len(files) - Len(readable),
      candidates |-> FlattenSeq([i \in DOMAIN readable |-> files[readable[i]]])]

-----------------------------------------------------------------------------
(* ingest_candidates: every candidate in order, until the database fails.   *)

NothingIngested(upserts) ==
  [rows |-> [id \in {} |-> None], new |-> 0, updated |-> 0, unchanged |-> 0, rejected |-> 0,
   left |-> upserts, broken |-> FALSE]

IngestOne(done, c) ==
  LET id      == Identity(c)
      row     == IF id \in DOMAIN done.rows THEN Upsert(done.rows[id], c) ELSE FromCandidate(c)
      Counted(outcome, field) == done[field] + (IF row.outcome = outcome THEN 1 ELSE 0)
  IN IF done.broken THEN done
     ELSE IF Issues(c) # {} THEN [done EXCEPT !.rejected = @ + 1]
     ELSE IF done.left = 0 THEN [done EXCEPT !.broken = TRUE]
     ELSE [done EXCEPT !.rows      = [x \in DOMAIN @ \union {id} |-> IF x = id THEN row ELSE @[x]],
                       !.new       = Counted("Created", "new"),
                       !.updated   = Counted("Updated", "updated"),
                       !.unchanged = Counted("Unchanged", "unchanged"),
                       !.left      = @ - 1]

Ingest(candidates, upserts) ==
  LET done[n \in 0..Len(candidates)] ==
        IF n = 0 THEN NothingIngested(upserts) ELSE IngestOne(done[n - 1], candidates[n])
  IN done[Len(candidates)]

-----------------------------------------------------------------------------
(* CollectorSupervisor::run_once: the run it records, or None, and the      *)
(* health of the source after it.                                           *)

HealthAfter(error) ==
  CASE error \in {"RateLimited", "AuthRequired"} -> error
    [] error \in {"Transient", "Timeout"}        -> "Degraded"
    [] OTHER                                     -> "Failed"

\* Mutant: the run of an error has no detail.
FailedRunOfSilent(collection) ==
  [FailedRun(FALSE) EXCEPT !.errors = IF collection.error = "Malformed" THEN 1 ELSE 0]

\* The text of the error is the detail of the run, where analytics looks for
\* its markers.
FailedRunOf(collection) ==
  [FailedRun(collection.error = "RateLimited" \/ collection.echo)
     EXCEPT !.errors = IF collection.error = "Malformed" THEN 1 ELSE 0]

\* Mutant: what validation rejects is not counted.
FinishedRunParsedOnly(collection, done) ==
  [outcome    |-> IF collection.failures > 0 THEN "PARTIAL" ELSE "SUCCESS",
   candidates |-> Len(collection.candidates), new |-> done.new, updated |-> done.updated,
   errors     |-> collection.failures, limited |-> FALSE]

FinishedRun(collection, done) ==
  [outcome    |-> IF collection.failures + done.rejected > 0 THEN "PARTIAL" ELSE "SUCCESS",
   candidates |-> Len(collection.candidates), new |-> done.new, updated |-> done.updated,
   errors     |-> collection.failures + done.rejected, limited |-> FALSE]

\* recorded tells whether the row of the run could be inserted: nobody hears of
\* it when it could not.
RunOnce(collection, upserts, recorded) ==
  LET done == Ingest(collection.candidates, upserts)
      run  == IF Stated(collection.error) THEN FailedRunOf(collection) ELSE FinishedRun(collection, done)
  IN [run    |-> IF recorded /\ (Stated(collection.error) \/ ~done.broken) THEN run ELSE None,
      rows   |-> done.rows,
      health |-> IF Stated(collection.error) THEN HealthAfter(collection.error)
                 ELSE IF done.broken THEN HealthAfter("Config")
                 ELSE IF run.outcome = "PARTIAL" THEN "Degraded" ELSE "Healthy"]

-----------------------------------------------------------------------------
AskCollection ==
  \E answer \in Answers, batch \in Batches, token \in Tokens, upserts \in 0..MaxUpserts, recorded \in BOOLEAN :
    question' = [about |-> "collection", answer |-> answer, batch |-> batch, token |-> token,
                 upserts |-> upserts, recorded |-> recorded]

AskReplay ==
  \E files \in Fixtures : question' = [about |-> "replay", files |-> files]

-----------------------------------------------------------------------------
AboutCollection == question.about = "collection"

CollectionOf(items) ==
  IF question.batch.from = "coupon" THEN CollectCoupons(question.token, question.answer, items)
  ELSE CollectFeed(question.answer, items)

Collection == CollectionOf(question.batch.items)
Done       == RunOnce(Collection, question.upserts, question.recorded)
Enough     == Len(question.batch.items) <= question.upserts

Nothing    == [id \in {} |-> None]

\* A body that arrives, with what the collector needs to ask for it.
Arrived ==
  /\ question.answer.sent = "answered" /\ question.answer.status = 200 /\ question.answer.body = "whole"
  /\ question.batch.from = "coupon" => Stated(question.token)

AllIn(items, alone, done) ==
  /\ DOMAIN done.rows = UNION Range(alone)
  /\ LET lost == {i \in DOMAIN items : alone[i] = {}}
     IN /\ done.health = "Healthy" <=> lost = {}
        /\ Stated(done.run) =>
             /\ done.run.errors = Cardinality(lost)
             /\ done.run.new + done.run.updated <= Len(items) - Cardinality(lost)
             /\ done.run.outcome = "SUCCESS" <=> lost = {}

\* Nothing of it is kept, and that shows.
GivenUp(done) ==
  /\ done.rows = Nothing /\ done.health # "Healthy"
  /\ Stated(done.run) => done.run.outcome = "FAILED"

\* Every item of an answer that was read is stored among the others if it would
\* be alone, and counted once, and the run is a success and the source healthy
\* exactly if all were stored. An answer that was not read is given up whole and
\* in sight; one that arrives whole is, exactly if an item of it is Mistyped.
NoItemIsLost ==
  AboutCollection =>
    LET items == question.batch.items
    IN /\ Stated(Collection.error) => GivenUp(Done)
       /\ Arrived => (Stated(Collection.error) <=> ~Typed(items))
       /\ ~Stated(Collection.error) /\ Enough =>
            AllIn(items, [i \in DOMAIN items |-> DOMAIN RunOnce(CollectionOf(<<items[i]>>), 1, TRUE).rows], Done)

\* A rate limit reaches the health of the source, which slows it down, and
\* through the detail of its run the statistics that advise to slow it down.
LimitIsSeen ==
  AboutCollection /\ Collection.error = "RateLimited" =>
    LET log == SetToBag({Done.run})
    IN /\ Done.health = "RateLimited"
       /\ Stated(Done.run) => RateLimitIncidents(log) = 1
       /\ question.answer.status = 429

\* A source is told to be disabled after ten runs in which it failed or sent
\* only items nobody can use, and never goes without advice after ten in which
\* it sent nothing at all.
UselessSourceIsDisabled ==
  AboutCollection /\ Stated(Done.run) /\ Done.rows = Nothing =>
    ShouldDegrade(SourceStats([r \in {Done.run} |-> MinRunsForJudgement], EmptyBag, 0))
      = IF ~Stated(Collection.error) /\ question.batch.items = << >> THEN "ReducePolling" ELSE "Disable"

\* Which version of a voucher a directory of fixtures leaves does not depend
\* on the order in which the file system lists it.
ReplayIsDeterministic ==
  question.about = "replay" =>
    LET files   == question.files
        Listings == {l \in [DOMAIN files -> DOMAIN files] : ToSet(l) = DOMAIN files}
        Left(l) == RunOnce(LoadDir(files, l), 100, TRUE)
    IN \A l, m \in Listings : Left(l) = Left(m)

-----------------------------------------------------------------------------
(* What the repository says and the program does not do *)

\* collectors/external_feed.rs:4: malformed items of a feed are dropped per item
\* rather than failing the whole run. One with a field of another type fails them
\* all.
MalformedItemIsDroppedAlone ==
  AboutCollection /\ question.batch.from = "feed" /\ Arrived /\ Enough =>
    LET items == question.batch.items
    IN DOMAIN Done.rows =
         UNION {DOMAIN RunOnce(CollectionOf(<<items[i]>>), 1, TRUE).rows : i \in DOMAIN items}

\* analytics/repository.rs:33: a run whose detail has a marker is a rate limit
\* incident. The text of any error may have one.
IncidentIsALimit ==
  AboutCollection /\ Stated(Done.run) /\ Done.run.limited => Collection.error = "RateLimited"

\* collectors/supervisor.rs:51: a run is recorded either way.
EveryRunIsRecorded == AboutCollection => Stated(Done.run)

=============================================================================
