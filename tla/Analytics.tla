----------------------------- MODULE Analytics -----------------------------
(***************************************************************************)
(* What the recorded runs and observations say about a source: counters,   *)
(* rates, quality score, advice, first discoveries (analytics), and the    *)
(* precision of fired jobs (scheduler/report.rs).  Rates are in basis      *)
(* points.  The runs of a source are a bag of                              *)
(*   [outcome, candidates, new, updated, errors, limited]                  *)
(* where limited tells whether the detail has a rate limit marker.         *)
(***************************************************************************)
EXTENDS Basics, Sequences, SequencesExt, FiniteSets, FiniteSetsExt, Bags, Question

CONSTANTS
  RunLogs,          \* bags of runs of a source
  UniqueCounts,     \* vouchers whose row names the source
  ObservationLogs,  \* sequences of [voucher, source, at]
  Deltas,           \* lags of fired jobs
  MaxTimings,       \* bound: fired jobs in a report
  LateThreshold

-----------------------------------------------------------------------------
(* ratio.rs, stats.rs and the queries of repository.rs *)

Whole == 10000

FromRatio(n, d) == IF d = 0 THEN None ELSE (n * Whole) \div d

Scale(rate, budget) == (rate * budget) \div Whole

Total(log, field) == SumFunction([r \in DOMAIN log |-> log[r] * r[field]])

HowMany(log, runs) == SumFunctionOnSet(log, runs)

RunCounters(log) ==
  [runs       |-> HowMany(log, DOMAIN log),
   successful |-> HowMany(log, {r \in DOMAIN log : r.outcome = "SUCCESS"}),
   failed     |-> HowMany(log, {r \in DOMAIN log : r.outcome = "FAILED"}),
   candidates |-> Total(log, "candidates"),
   new        |-> Total(log, "new"),
   updated    |-> Total(log, "updated"),
   errors     |-> Total(log, "errors")]

RateLimitIncidents(log) == HowMany(log, {r \in DOMAIN log : r.limited})

\* Mutant: what the parser choked on is no part of what it was handed.
ParseFailureRateOfRead(c) == FromRatio(c.errors, c.candidates)

ParseFailureRate(c) == FromRatio(c.errors, c.candidates + c.errors)

\* SourceStats::from_parts.  The incidents are counted by a second query: the
\* runs that end in between are in later.
SourceStats(log, later, unique) ==
  LET c      == RunCounters(log)
      useful == c.new + c.updated
  IN [counters |-> c,
      unique   |-> unique,
      stale    |-> FromRatio(Max2(c.candidates - useful, 0), c.candidates),
      parse    |-> ParseFailureRate(c),
      perFind  |-> FromRatio(c.runs, useful),
      limited  |-> FromRatio(RateLimitIncidents(log (+) later), c.runs),
      failure  |-> FromRatio(c.failed, c.runs)]

EverSucceeded(s)     == s.counters.successful > 0
ProducedAnything(s)  == s.counters.new > 0 \/ s.counters.updated > 0 \/ s.unique > 0
AtLeast(rate, level) == Stated(rate) /\ rate >= level

-----------------------------------------------------------------------------
(* quality.rs and degrade.rs *)

MinRunsForJudgement == 10

Penalty(rate, budget) == IF Stated(rate) THEN -Scale(rate, budget) ELSE 0

\* Mutant: only what was wasted in vain counts as a waste.
WastefulPenaltyIfVain(s) ==
  IF AtLeast(s.perFind, 50 * Whole) /\ ~ProducedAnything(s) THEN -10 ELSE 0

WastefulPenalty(s) == IF AtLeast(s.perFind, 50 * Whole) THEN -10 ELSE 0

QualityScore(s) ==
  IF s.counters.runs < MinRunsForJudgement THEN 100
  ELSE 100 + Penalty(s.parse, 40) + Penalty(s.failure, 25) + Penalty(s.limited, 20) + Penalty(s.stale, 10)
         + (IF EverSucceeded(s) THEN 0 ELSE -30)
         + (IF ProducedAnything(s) THEN 0 ELSE -20)
         + WastefulPenalty(s)

\* Mutant: a rate limit is looked at before the source is given up.
ShouldDegradePatiently(s) ==
  IF s.counters.runs < MinRunsForJudgement THEN "None"
  ELSE IF AtLeast(s.limited, 2000) THEN "ReducePolling"
  ELSE IF AtLeast(s.parse, 5000) \/ ~EverSucceeded(s) \/ AtLeast(s.failure, 8000) THEN "Disable"
  ELSE IF AtLeast(s.parse, 2000) THEN "ManualReview"
  ELSE IF ~ProducedAnything(s) \/ AtLeast(s.perFind, 100 * Whole) THEN "ReducePolling"
  ELSE "None"

\* should_degrade: the most severe first.
ShouldDegrade(s) ==
  IF s.counters.runs < MinRunsForJudgement THEN "None"
  ELSE IF AtLeast(s.parse, 5000) \/ ~EverSucceeded(s) \/ AtLeast(s.failure, 8000) THEN "Disable"
  ELSE IF AtLeast(s.limited, 2000) THEN "ReducePolling"
  ELSE IF AtLeast(s.parse, 2000) THEN "ManualReview"
  ELSE IF ~ProducedAnything(s) \/ AtLeast(s.perFind, 100 * Whole) THEN "ReducePolling"
  ELSE "None"

-----------------------------------------------------------------------------
(* discovery.rs: rows are [voucher, source, at]; sources are numbers in the *)
(* order of their names.                                                    *)

Rows(rows) == ToSet(rows)

\* Mutant: of two rows of a source the one read first counts.
FirstAtAsRead(rows, voucher, source) ==
  LET i == SelectInSeq(rows, LAMBDA r : r.voucher = voucher /\ r.source = source) IN rows[i].at

\* The earliest observation of a voucher by a source.
FirstAt(rows, voucher, source) ==
  CHOOSE t \in {r.at : r \in Rows(rows)} :
    /\ [voucher |-> voucher, source |-> source, at |-> t] \in Rows(rows)
    /\ \A r \in Rows(rows) : r.voucher = voucher /\ r.source = source => t <= r.at

SourcesOf(rows, voucher) == {r.source : r \in {x \in Rows(rows) : x.voucher = voucher}}

\* The first source, and of two the one whose name is first.
Winner(rows, voucher) ==
  CHOOSE s \in SourcesOf(rows, voucher) :
    \A o \in SourcesOf(rows, voucher) \ {s} :
      \/ FirstAt(rows, voucher, s) < FirstAt(rows, voucher, o)
      \/ FirstAt(rows, voucher, s) = FirstAt(rows, voucher, o) /\ s < o

\* How much sooner the winner was than the next, or None without a next.
Lead(rows, voucher) ==
  LET w    == Winner(rows, voucher)
      next == {FirstAt(rows, voucher, o) : o \in SourcesOf(rows, voucher) \ {w}}
  IN IF next = {} THEN None ELSE Min(next) - FirstAt(rows, voucher, w)

\* summarize_discovery: a row for every source that observed anything.
Summary(rows) ==
  [s \in {r.source : r \in Rows(rows)} |->
     LET won == {v \in {r.voucher : r \in Rows(rows)} : Winner(rows, v) = s}
         led == {v \in won : Stated(Lead(rows, v))}
     IN [wins  |-> Cardinality(won),
         lead  |-> SumFunction([v \in led |-> Lead(rows, v)]),
         sized |-> Cardinality(led)]]

-----------------------------------------------------------------------------
(* scheduler/report.rs *)

IsLateBeyond(delta) == delta > LateThreshold

\* Mutant: only a late job can be the latest.
RecordLate(stats, delta) ==
  [count |-> stats.count + 1, sum |-> stats.sum + delta,
   max   |-> IF IsLateBeyond(stats.max) THEN stats.max ELSE delta,
   late  |-> stats.late + (IF IsLateBeyond(delta) THEN 1 ELSE 0)]

\* PrecisionStats::record.
Record(stats, delta) ==
  [count |-> stats.count + 1, sum |-> stats.sum + delta,
   max   |-> Max2(stats.max, delta),
   late  |-> stats.late + (IF IsLateBeyond(delta) THEN 1 ELSE 0)]

PrecisionStats(deltas) ==
  LET after[n \in 0..Len(deltas)] ==
        IF n = 0 THEN [count |-> 0, sum |-> 0, max |-> 0, late |-> 0] ELSE Record(after[n - 1], deltas[n])
  IN after[Len(deltas)]

-----------------------------------------------------------------------------
\* A run finds no more vouchers than it had candidates; sources are ordered and
\* moments and lags are numbers; a job that is fired on the dot is not late.
Runs ==
  {r \in [outcome : {"SUCCESS", "PARTIAL", "FAILED"}, candidates : Nat, new : Nat, updated : Nat,
          errors : Nat, limited : BOOLEAN] : r.new + r.updated <= r.candidates}

ASSUME AnalyticsAssumption ==
  /\ \A log \in RunLogs :
       log \in [DOMAIN log -> Nat \ {0}] /\ DOMAIN log \subseteq Runs /\ IsFiniteSet(DOMAIN log)
  /\ UniqueCounts \subseteq Nat
  /\ \A rows \in ObservationLogs :
       rows \in Seq([voucher : {r.voucher : r \in Range(rows)}, source : Int, at : Int])
  /\ Deltas \subseteq Int /\ MaxTimings \in Nat /\ LateThreshold \in Nat

AskSource ==
  \E log \in RunLogs, unique \in UniqueCounts, r \in UNION {DOMAIN x : x \in RunLogs}, n \in 0..1 :
    question' = [about |-> "source", log |-> log, unique |-> unique, later |-> SetToBag({r : i \in 1..n})]

AskDiscovery ==
  \E rows \in ObservationLogs : question' = [about |-> "discovery", rows |-> rows]

AskTimings ==
  \E n \in 0..MaxTimings : \E deltas \in [1..n -> Deltas] :
    question' = [about |-> "timings", deltas |-> deltas]

-----------------------------------------------------------------------------
AboutSource == question.about = "source"

Stats == SourceStats(question.log, question.later, question.unique)

\* Advice shows in the score: a source that is to be disabled has lost a fifth
\* of it, and none that is to be slowed down or reviewed looks perfect.
AdviceShowsInTheScore ==
  AboutSource =>
    /\ ShouldDegrade(Stats) # "None" => QualityScore(Stats) < 100
    /\ ShouldDegrade(Stats) = "Disable" => QualityScore(Stats) <= 80

\* One of the runs of the log as it would have been if it had failed.
FailedRun(limited) ==
  [outcome |-> "FAILED", candidates |-> 0, new |-> 0, updated |-> 0, errors |-> 0, limited |-> limited]

Replaced(log, r, s) == (log (-) SetToBag({r})) (+) SetToBag({s})

\* Had a run that found nothing failed, had a failed run been a rate limit on
\* top of it, the score would be no higher and the advice no milder.
FailingNeverHelps ==
  AboutSource /\ question.later = EmptyBag =>
    LET Severity == [None |-> 0, ReducePolling |-> 1, ManualReview |-> 1, Disable |-> 2]
    IN \A r \in DOMAIN question.log, limited \in BOOLEAN :
         LET worse == SourceStats(Replaced(question.log, r, FailedRun(limited)), EmptyBag, question.unique)
         IN r.candidates = 0 /\ r.errors = 0 /\ (r.limited => limited) =>
              /\ QualityScore(worse) <= QualityScore(Stats)
              /\ Severity[ShouldDegrade(worse)] >= Severity[ShouldDegrade(Stats)]

\* Every share is one, and the share of rate limited runs passes the whole
\* only if a run ended between the two queries.
RatesAreShares ==
  AboutSource =>
    /\ \A rate \in {Stats.stale, Stats.parse, Stats.failure} : Stated(rate) => rate \in 0..Whole
    /\ Stated(Stats.limited) /\ question.later = EmptyBag => Stats.limited \in 0..Whole

\* One win for each voucher, no source forgotten, no head start negative, and
\* the same in whatever order the rows are read.
EveryVoucherIsWonOnce ==
  question.about = "discovery" =>
    LET rows == question.rows
        sums == Summary(rows)
    IN /\ SumFunction([s \in DOMAIN sums |-> sums[s].wins]) = Cardinality({r.voucher : r \in Rows(rows)})
       /\ \A s \in DOMAIN sums : sums[s].lead >= 0 /\ sums[s].sized <= sums[s].wins
       /\ Summary(Reverse(rows)) = sums

\* A late job shows, in the count and in the worst lag alike.
LateIsVisible ==
  question.about = "timings" =>
    LET stats == PrecisionStats(question.deltas)
    IN /\ stats.late > 0 <=> IsLateBeyond(stats.max)
       /\ stats.sum <= stats.count * stats.max

-----------------------------------------------------------------------------
(* What the repository says and the program does not do *)

\* analytics/degrade.rs:83: a source is disabled that never succeeded or is
\* effectively unreachable. One that discovers vouchers and never fails is not.
DeliveringSourceIsKept ==
  AboutSource /\ Stats.counters.failed = 0 /\ Stats.counters.errors = 0 /\ Stats.counters.new > 0 =>
    ShouldDegrade(Stats) # "Disable"

=============================================================================
