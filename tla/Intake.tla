------------------------------- MODULE Intake -------------------------------
(***************************************************************************)
(* From what a source sends to the stored voucher: the candidates of the   *)
(* two HTTP collectors, their validation, identity and version, the row    *)
(* they leave in the vouchers table, the merge of two sources, and the     *)
(* pace at which a source is asked.  A text is None or a pair of what it   *)
(* says and how it is spelled ("plain", "upper" or "padded"); a moment is  *)
(* in fractions of a second; a hash is what is hashed.                     *)
(***************************************************************************)
EXTENDS Basics, Sequences, SequencesExt, FiniteSets, Question

CONSTANTS
  PerSecond,      \* moments within a second that the store tells apart
  Candidates,     \* observations of one source item
  Tiers,          \* the confidence of each source
  Observations,   \* bound: observations of one voucher in a row
  CouponItems,    \* items of an Accesstrade response
  FeedItems,      \* items of an external feed
  PollingConfigs,
  PollingSignals,
  Hour,           \* length of the budget's window: 3600 seconds
  Limits,         \* hourly budgets
  RequestTimes,   \* moments of the requests of a source
  MaxRequests,    \* bound: requests of a source
  Lifetimes,      \* vouchers with their status and times
  Instants        \* moments at which a lifetime is looked at

Spellings == {"plain", "upper", "padded"}

\* What is stated is a pair, and stays stated however it is spelled.
IsText(text) ==
  Stated(text) =>
    /\ text = <<text[1], text[2]>> /\ text[2] \in Spellings
    /\ \A s \in Spellings : Stated(<<text[1], s>>)

\* So does a scope with its shop or category.
IsScope(scope) ==
  /\ scope = [kind |-> scope.kind, of |-> scope.of] /\ IsText(scope.of)
  /\ Stated(scope)
  /\ Stated(scope.of) => \A s \in Spellings : Stated([scope EXCEPT !.of = <<@[1], s>>])

Word(text) == IF Stated(text) THEN text[1] ELSE ""

NonEmpty(text) == IF Word(text) # "" THEN text ELSE None

Trimmed(text) == IF Stated(text) /\ text[2] = "padded" THEN <<text[1], "plain">> ELSE text
Lowered(text) == IF Stated(text) /\ text[2] = "upper" THEN <<text[1], "plain">> ELSE text

-----------------------------------------------------------------------------
(* identity.rs and validation.rs *)

OrEmpty(text) == Otherwise(text, <<"", "plain">>)

Canonical(scope) == IF scope.kind = "Shop" THEN scope ELSE [scope EXCEPT !.of = Lowered(@)]

\* A moment as identities and versions know it: to the second.
CanonTime(t) == IF Stated(t) THEN t \div PerSecond ELSE None

Identity(c) ==
  IF Stated(NonEmpty(c.external)) THEN [basis |-> "ExternalId", key |-> <<c.source, Trimmed(c.external)>>]
  ELSE IF Stated(NonEmpty(c.promotion)) THEN [basis |-> "PromotionId", key |-> <<Trimmed(c.promotion)>>]
  ELSE [basis |-> "Fingerprint",
        key   |-> <<c.source, Word(c.code), CanonTime(c.start), CanonTime(c.end), Canonical(c.scope),
                    c.type, c.min, c.amount, c.percent, c.cap>>]

\* Mutant: the version has the fields that changed_fields compares.
VersionHashAsCompared(c) ==
  <<Word(c.code), OrEmpty(c.promotion), OrEmpty(c.signature), Trimmed(c.title), c.type,
    c.amount, c.cap, c.min, CanonTime(c.start), CanonTime(c.end), Canonical(c.scope),
    Lowered(OrEmpty(c.method))>>

\* Mutant: codes are hashed as they are spelled.
VersionHashVerbatim(c) ==
  <<OrEmpty(c.code), OrEmpty(c.promotion), OrEmpty(c.signature), Trimmed(c.title), c.type,
    c.amount, c.percent, c.cap, c.min, CanonTime(c.start), CanonTime(c.end), Canonical(c.scope),
    Lowered(OrEmpty(c.method))>>

VersionHash(c) ==
  <<Word(c.code), OrEmpty(c.promotion), OrEmpty(c.signature), Trimmed(c.title), c.type,
    c.amount, c.percent, c.cap, c.min, CanonTime(c.start), CanonTime(c.end), Canonical(c.scope),
    Lowered(OrEmpty(c.method))>>

Issues(c) ==
  (IF Word(c.title) = "" THEN {"EmptyTitle"} ELSE {})
    \union (IF Word(c.key) = "" THEN {"EmptySourceKey"} ELSE {})
    \union (IF Stated(c.start) /\ Stated(c.end) /\ c.start >= c.end THEN {"StartAfterEnd"} ELSE {})
    \union (IF \E x \in {c.amount, c.cap, c.min} : Stated(x) /\ x < 0 THEN {"NegativeAmount"} ELSE {})
    \union (IF Stated(c.percent) /\ c.percent \notin 1..100 THEN {"InvalidPercent"} ELSE {})
    \union (IF Stated(c.code) /\ Word(c.code) = "" THEN {"MalformedCode"} ELSE {})

-----------------------------------------------------------------------------
(* storage/repositories/voucher.rs and domain/voucher.rs *)

\* The columns that an update writes.
Conditions ==
  {"code", "promotion", "signature", "title", "type", "amount", "percent", "cap", "min",
   "start", "end", "scope", "method"}

FromCandidate(c) ==
  [identity |-> Identity(c), source |-> c.source, key |-> c.key, version |-> VersionHash(c),
   terms |-> [f \in Conditions |-> c[f]], outcome |-> "Created"]

ChangedFields(row, c) ==
  LET changed == {f \in {"start", "end", "min", "amount", "cap", "scope", "signature"} :
                    row.terms[f] # c[f]}
  IN IF changed = {} THEN {"other"} ELSE changed

\* A row of the identity exists: only a new version writes its conditions.
Upsert(row, c) ==
  IF row.version = VersionHash(c) THEN [row EXCEPT !.outcome = "Unchanged"]
  ELSE [row EXCEPT !.version = VersionHash(c),
                   !.terms   = [f \in Conditions |-> c[f]],
                   !.outcome = "Updated"]

HasClaimIdentifiers(v) == (Stated(v.promotion) /\ Stated(v.signature)) \/ Stated(v.code)

\* ClaimPlan::for_voucher: what the request will carry, or None.
ClaimIdentifier(v) ==
  IF Stated(NonEmpty(v.promotion)) /\ Stated(NonEmpty(v.signature)) THEN "PromotionSignature"
  ELSE IF Stated(NonEmpty(v.code)) THEN "Code" ELSE None

-----------------------------------------------------------------------------
(* provenance.rs *)

\* Mutant: a stated value always replaces the one that is known.
ResolveLatest(known, incoming, ec, ic) == Otherwise(incoming, known)

ResolveOptional(known, incoming, ec, ic) ==
  IF Stated(known) /\ Stated(incoming) THEN IF ic > ec THEN incoming ELSE known
  ELSE Otherwise(known, incoming)

\* The scope, a record here, is stated unless its kind is Unstated.
Merge(known, incoming) ==
  LET ec == Tiers[known.source]
      ic == Tiers[incoming.source]
      winner == IF ic > ec THEN incoming ELSE known
  IN [f \in DOMAIN known |->
        CASE f \in {"source", "key", "type"} -> winner[f]
          [] f = "title" -> IF Word(incoming.title) = "" THEN known.title ELSE winner.title
          [] f = "scope" -> IF incoming.scope.kind = "Unstated" THEN known.scope
                            ELSE IF known.scope.kind = "Unstated" THEN incoming.scope ELSE winner.scope
          [] OTHER -> ResolveOptional(known[f], incoming[f], ec, ic)]

-----------------------------------------------------------------------------
(* accesstrade.rs and external_feed.rs: a candidate, or None with a partial *)
(* failure.  A time is written as <<form, moment>>: "offset", or in whole   *)
(* seconds "epoch" and the "local" clock of Vietnam; a scope as [kind, of]. *)

Positive(x) == IF Stated(x) /\ x > 0 THEN x ELSE None

VietnamOffset == 7 * 3600 * PerSecond

\* Mutant: a time without an offset is taken for one in UTC.
ParseTimeInUtc(written) ==
  IF ~Stated(written) \/ written[1] \notin {"epoch", "offset", "local"} THEN None ELSE written[2]

\* What cannot be read is unknown, and the voucher is kept.
ParseTime(written) ==
  IF ~Stated(written) \/ written[1] \notin {"epoch", "offset", "local"} THEN None
  ELSE IF written[1] = "local" THEN written[2] - VietnamOffset ELSE written[2]

\* The forms a source may choose for the same time; only one has room for a
\* fraction of a second.
Forms(t) ==
  IF ~Stated(ParseTime(t)) THEN {t, None, <<"garbled", 0>>}
  ELSE {<<"offset", ParseTime(t)>>}
         \union (IF ParseTime(t) % PerSecond # 0 THEN {}
                 ELSE {<<"epoch", ParseTime(t)>>, <<"local", ParseTime(t) + VietnamOffset>>})

InferType(title) == IF Word(title) = "freeship" THEN "Freeship" ELSE "Platform"

NoScopeStated == [kind |-> "Unstated", of |-> None]

\* The whole text is lowered, the shop's id with it.
ScopeFrom(written) ==
  IF ~Stated(written) \/ written.kind = "" THEN NoScopeStated
  ELSE [kind |-> IF written.kind \in {"Platform", "Shop", "Category", "Payment"} THEN written.kind ELSE "Other",
        of   |-> Lowered(written.of)]

\* Only the first code that is stated is looked at.
FirstCode(coupons) ==
  LET i == SelectInSeq(coupons, LAMBDA x : Stated(x))
  IN IF i = 0 THEN None ELSE Trimmed(coupons[i])

\* Mutant: an item without a code is known by its name.
FromCouponNamed(item) ==
  LET code == NonEmpty(FirstCode(item.coupons))
      key  == Otherwise(code, NonEmpty(item.name))
  IN IF ~Stated(key) THEN None
     ELSE [source |-> "accesstrade", key |-> key, external |-> key, code |-> code,
           promotion |-> None, signature |-> None,
           title  |-> Trimmed(Otherwise(NonEmpty(item.name), key)),
           type   |-> InferType(Otherwise(NonEmpty(item.name), key)),
           amount |-> Positive(item.amount), percent |-> Positive(item.percent),
           cap    |-> Positive(item.cap), min |-> item.min,
           start  |-> ParseTime(item.start), end |-> ParseTime(item.end),
           scope  |-> NoScopeStated, method |-> None]

FromCoupon(item) ==
  LET code == NonEmpty(FirstCode(item.coupons))
  IN IF ~Stated(code) THEN None
     ELSE [source |-> "accesstrade", key |-> code, external |-> code, code |-> code,
           promotion |-> None, signature |-> None,
           title  |-> Trimmed(Otherwise(NonEmpty(item.name), code)),
           type   |-> InferType(Otherwise(NonEmpty(item.name), code)),
           amount |-> Positive(item.amount), percent |-> Positive(item.percent),
           cap    |-> Positive(item.cap), min |-> item.min,
           start  |-> ParseTime(item.start), end |-> ParseTime(item.end),
           scope  |-> NoScopeStated, method |-> None]

FromFeed(item) ==
  LET key == Otherwise(item.id, Otherwise(item.promotion, item.code))
  IN IF ~Stated(NonEmpty(item.title)) \/ ~Stated(key) THEN None
     ELSE [source |-> "feed", key |-> key, external |-> item.id, code |-> item.code,
           promotion |-> item.promotion, signature |-> item.signature,
           title  |-> Trimmed(item.title), type |-> item.type,
           amount |-> item.amount, percent |-> item.percent, cap |-> item.cap, min |-> item.min,
           start  |-> item.start, end |-> item.end, scope |-> ScopeFrom(item.scope),
           method |-> item.method]

-----------------------------------------------------------------------------
(* lifecycle.rs: a voucher is [status, start, end, seenOnce].               *)

\* Mutant: the start is looked at before the end.
StageStartFirst(v, now) ==
  IF v.status \in {"Saved", "Exhausted", "Ineligible", "Expired"} THEN v.status
  ELSE IF Stated(v.start) THEN IF v.start > now THEN "Upcoming" ELSE "Active"
  ELSE IF Stated(v.end) /\ v.end <= now THEN "Expired"
  ELSE IF v.seenOnce THEN "FirstSeen" ELSE "Active"

Stage(v, now) ==
  IF v.status \in {"Saved", "Exhausted", "Ineligible", "Expired"} THEN v.status
  ELSE IF Stated(v.end) /\ v.end <= now THEN "Expired"
  ELSE IF Stated(v.start) THEN IF v.start > now THEN "Upcoming" ELSE "Active"
  ELSE IF v.seenOnce THEN "FirstSeen" ELSE "Active"

IsUpcomingWithin(v, now, lead) == Stated(v.start) /\ v.start > now /\ v.start - now <= lead

-----------------------------------------------------------------------------
(* polling.rs.  A delay is in two-hundredths of the unit of the config.     *)

Even(n) == n \in Nat /\ n % 2 = 0

\* Every duration of a configuration is in whole seconds, and so is a hint of a
\* source: an even number of the nanoseconds that Jittered looks at.
ASSUME PollingAssumption ==
  /\ \A config \in PollingConfigs :
       Even(config.normal) /\ Even(config.active) /\ Even(config.backoffMax) /\ config.jitter \in Int
  /\ \A s \in PollingSignals :
       /\ DOMAIN s = {"health", "failures", "hurried", "retryAfter"}
       /\ s.failures \in Nat /\ (s.retryAfter = None \/ Even(s.retryAfter))
  /\ Hour \in Nat \ {0} /\ RequestTimes \subseteq Int /\ Limits \subseteq Nat

\* The sign of the jitter is the parity of the delay.
Jittered(d, jitter) ==
  LET spread == d * Min2(Max2(jitter, 0), 100)
  IN 200 * d + (IF d % 2 = 0 THEN spread ELSE -spread)

\* Mutant: a campaign hurries the source whatever its state.
NextIntervalEager(config, s) ==
  IF s.hurried THEN Jittered(config.active, config.jitter)
  ELSE IF s.health = "RateLimited"
    THEN Jittered(Max2(Min2(Otherwise(s.retryAfter, config.backoffMax), config.backoffMax),
                       config.normal), config.jitter)
  ELSE IF s.failures > 0
    THEN Jittered(Min2(config.normal * 2^Min2(s.failures - 1, 16), config.backoffMax), config.jitter)
  ELSE Jittered(config.normal, config.jitter)

\* A rate limit comes before errors, and errors before hurry.
NextInterval(config, s) ==
  IF s.health = "RateLimited"
    THEN Jittered(Max2(Min2(Otherwise(s.retryAfter, config.backoffMax), config.backoffMax),
                       config.normal), config.jitter)
  ELSE IF s.failures > 0
    THEN Jittered(Min2(config.normal * 2^Min2(s.failures - 1, 16), config.backoffMax), config.jitter)
  ELSE Jittered(IF s.hurried THEN config.active ELSE config.normal, config.jitter)

\* Mutant: the window starts anew when its first request is too old.
RetainedFixed(kept, times, now) ==
  IF \E i \in kept : now - times[i] >= Hour THEN {} ELSE kept

\* The requests of kept, by number, that are within the hour before now.
Retained(kept, times, now) == {i \in kept : now - times[i] < Hour}

-----------------------------------------------------------------------------
(* What the questions are about *)

Fields == Conditions \union {"source", "key", "external"}

IsCandidate(c) ==
  /\ c = [f \in Fields |-> c[f]]
  /\ \A f \in {"key", "external", "code", "promotion", "signature", "title", "method"} : IsText(c[f])
  /\ c.source \in DOMAIN Tiers /\ c.type # None
  /\ IsScope(c.scope)

\* Times that can be read are numbers, and so is the trust in a source, which
\* every observation names.
ASSUME IntakeAssumption ==
  /\ PerSecond \in Nat \ {0}
  /\ None \notin DOMAIN Tiers /\ \A s \in DOMAIN Tiers : Tiers[s] \in Nat
  /\ \A c \in Candidates : IsCandidate(c)
  /\ \A item \in CouponItems :
       /\ DOMAIN item = {"name", "coupons", "amount", "percent", "cap", "min", "start", "end"}
       /\ \A t \in {item.start, item.end} : Stated(ParseTime(t)) =>
            /\ t[2] \in Int /\ None \notin Forms(t)
            /\ t[1] # "offset" => t[2] % PerSecond = 0
  /\ \A item \in FeedItems :
       /\ DOMAIN item = (Fields \ {"source", "key", "external"}) \union {"id"}
       /\ Stated(item.scope) => IsScope(item.scope)
  /\ \A v \in Lifetimes : {v.start, v.end} \subseteq Int \union {None}
  /\ Instants \subseteq Int

-----------------------------------------------------------------------------
AboutBudget == question.about = "budget"
AboutIngest == question.about = "ingest"

Valid == {c \in Candidates : Issues(c) = {}}

\* A voucher is observed: the row that is created, and its merged view.
AskIngest ==
  \E c \in Valid :
    question' = [about |-> "ingest", observed |-> <<c>>, row |-> FromCandidate(c), merged |-> c]

\* Something is observed again: stored in the row if its identity is the row's.
Observe ==
  /\ AboutIngest /\ Len(question.observed) < Observations
  /\ \E c \in Valid :
       question' = [about    |-> "ingest",
                    observed |-> Append(question.observed, c),
                    row      |-> IF Identity(c) = question.row.identity THEN Upsert(question.row, c)
                                 ELSE question.row,
                    merged   |-> Merge(question.merged, c)]

AskCollected ==
  \E item \in CouponItems : question' = [about |-> "collected", from |-> "coupon", item |-> item]

AskFed ==
  \E item \in FeedItems : question' = [about |-> "collected", from |-> "feed", item |-> item]

AskPace ==
  \E config \in PollingConfigs, s \in PollingSignals :
    question' = [about |-> "pace", config |-> config, signals |-> s]

\* A new budget: kept are the requests whose timestamps it holds, granted is
\* what it answered to each.
AskBudget ==
  \E limit \in Limits :
    question' = [about |-> "budget", limit |-> limit, times |-> << >>, kept |-> {}, granted |-> << >>]

\* RequestBudget::try_consume, at a moment that is no earlier than the last.
TryConsume ==
  /\ AboutBudget /\ Len(question.times) < MaxRequests
  /\ \E now \in RequestTimes :
       LET times == Append(question.times, now)
           kept  == Retained(question.kept, question.times, now)
           grant == Cardinality(kept) < question.limit
       IN /\ \A i \in DOMAIN question.times : question.times[i] <= now
          /\ question' = [about   |-> "budget",
                          limit   |-> question.limit,
                          times   |-> times,
                          kept    |-> IF grant THEN kept \union {Len(times)} ELSE kept,
                          granted |-> Append(question.granted, grant)]

AskStage ==
  \E v \in Lifetimes : question' = [about |-> "stage", voucher |-> v]

-----------------------------------------------------------------------------
Observed == question.observed

\* What conditions say, however they are spelled, and to the second.
Meaning(terms) ==
  [terms EXCEPT !.code = Word(@), !.promotion = OrEmpty(@), !.signature = OrEmpty(@),
                !.title = Trimmed(@), !.scope = Canonical(@), !.method = Lowered(OrEmpty(@)),
                !.start = CanonTime(@), !.end = CanonTime(@)]

\* The claimer, the scheduler and the planner read the row: after any number
\* of observations its conditions are those of the latest one of its identity,
\* its times to the second. (Fractions of a second: StoredTimesAreTheLatest.)
StoredTermsAreTheLatest ==
  AboutIngest =>
    \E i \in DOMAIN Observed :
      /\ Identity(Observed[i]) = question.row.identity
      /\ \A j \in DOMAIN Observed : Identity(Observed[j]) = question.row.identity => j <= i
      /\ Meaning(question.row.terms) = Meaning([f \in Conditions |-> Observed[i][f]])

\* The spellings of a text that differ in case only.
InAnyCase(text) ==
  IF ~Stated(text) THEN {} ELSE IF text[2] = "padded" THEN {"padded"} ELSE {"plain", "upper"}

\* The spellings of a text that differ in padding only.
InAnyPadding(text) == IF text[2] = "upper" THEN {"upper"} ELSE {"plain", "padded"}

\* The same observation in another spelling.
Respelled(c) ==
  {[c EXCEPT !.title = <<c.title[1], s>>] : s \in InAnyPadding(c.title)}
    \union {[c EXCEPT !.code = <<c.code[1], s>>] : s \in IF Stated(c.code) THEN Spellings ELSE {}}
    \union {[c EXCEPT !.method = <<c.method[1], s>>] : s \in InAnyCase(c.method)}
    \union {[c EXCEPT !.scope = [kind |-> @.kind, of |-> <<@.of[1], s>>]] :
              s \in IF c.scope.kind = "Shop" THEN {} ELSE InAnyCase(c.scope.of)}

\* Respelling makes neither a second voucher nor a second announcement.
RespellingIsQuiet ==
  AboutIngest =>
    \A c \in ToSet(Observed) : \A d \in Respelled(c) :
      /\ Identity(d) = Identity(c)
      /\ Upsert(FromCandidate(c), d).outcome = "Unchanged"

\* Merging loses no field that any of the observations states, in any order,
\* and observing any of them again changes nothing (provenance.rs:60, :62).
MergeIsLosslessAndStable ==
  AboutIngest =>
    \A i \in DOMAIN Observed :
      LET c == Observed[i]
      IN /\ \A f \in DOMAIN c : Stated(c[f]) => Stated(question.merged[f])
         /\ c.scope.kind # "Unstated" => question.merged.scope.kind # "Unstated"
         /\ Merge(question.merged, c) = question.merged

\* Whatever Accesstrade sends, a candidate that passes validation can be
\* claimed, and the request carries the code the owner was shown.
CouponsAreClaimable ==
  question.about = "collected" /\ question.from = "coupon" =>
    LET c == FromCoupon(question.item)
    IN Stated(c) /\ Issues(c) = {} =>
         /\ HasClaimIdentifiers(FromCandidate(c).terms)
         /\ ClaimIdentifier(FromCandidate(c).terms) = "Code"
         /\ Identity(c).basis = "ExternalId"

\* The same item as the source may write it another time.
WithTimes(item, s, e) == [item EXCEPT !.start = s, !.end = e]

ScopesAs(x) ==
  IF ~Stated(x) \/ ~Stated(x.of) THEN {x} ELSE {[x EXCEPT !.of = <<x.of[1], s>>] : s \in InAnyCase(x.of)}

Rewritten(item, from) ==
  IF from = "coupon" THEN {WithTimes(item, s, e) : s \in Forms(item.start), e \in Forms(item.end)}
  ELSE {[item EXCEPT !.scope = x] : x \in ScopesAs(item.scope)}

\* However a source writes a time or a scope, the candidate is the same: the
\* voucher keeps its version and the owner is told nothing.
WritingDoesNotMatter ==
  question.about = "collected" =>
    LET Read(item) == IF question.from = "coupon" THEN FromCoupon(item) ELSE FromFeed(item)
    IN \A other \in Rewritten(question.item, question.from) : Read(other) = Read(question.item)

\* A source in trouble is never asked sooner than a healthy one in a quiet
\* hour, campaign or not, and another failure never shortens the delay.
TroubledSourceIsNotHurried ==
  question.about = "pace" =>
    LET config == question.config
        s      == question.signals
        quiet  == [s EXCEPT !.health = "Healthy", !.failures = 0, !.hurried = FALSE]
        delay  == NextInterval(config, s)
    IN config.normal <= config.backoffMax =>
         /\ s.failures > 0 \/ s.health = "RateLimited" => delay >= NextInterval(config, quiet)
         /\ s.failures > 0 => NextInterval(config, [s EXCEPT !.failures = @ + 1]) >= delay

\* In every hour, wherever it begins, at most the limit is granted, and a
\* request is refused only if the limit was used up in the hour before it.
RollingHourIsCapped ==
  AboutBudget =>
    LET times   == question.times
        granted == question.granted
        InHour(i) == {j \in 1..i : granted[j] /\ times[i] - times[j] < Hour}
    IN \A i \in DOMAIN times :
         /\ Cardinality(InHour(i)) <= question.limit
         /\ ~granted[i] => Cardinality(InHour(i)) = question.limit

\* Time takes an open voucher forward only, and past its end it is expired.
StageMovesForward ==
  question.about = "stage" =>
    LET v == question.voucher
        Order == [FirstSeen |-> 0, Upcoming |-> 1, Active |-> 2, Expired |-> 3]
    IN v.status = "Open" =>
         \A now, later \in Instants :
           /\ now <= later => Order[Stage(v, now)] <= Order[Stage(v, later)]
           /\ Stage(v, now) = "Expired" <=> Stated(v.end) /\ v.end <= now
           /\ IsUpcomingWithin(v, now, later) /\ (Stated(v.end) => v.start < v.end)
                => Stage(v, now) = "Upcoming"

-----------------------------------------------------------------------------
(* What the repository says and the program does not do *)

\* domain/identity.rs:126: the version changes when conditions change, times
\* first. A time that moved within its second changes none, and the row keeps the
\* time it had.
StoredTimesAreTheLatest ==
  AboutIngest =>
    \E i \in DOMAIN Observed :
      /\ Identity(Observed[i]) = question.row.identity
      /\ \A j \in DOMAIN Observed : Identity(Observed[j]) = question.row.identity => j <= i
      /\ question.row.terms.start = Observed[i].start
      /\ question.row.terms.end = Observed[i].end

\* shopee-client/plan.rs:62: the identifiers of a plan mirror those the claim
\* policy asks for.
ClaimableIsPlannable ==
  AboutIngest =>
    \A c \in ToSet(Observed) :
      HasClaimIdentifiers(FromCandidate(c).terms) => Stated(ClaimIdentifier(FromCandidate(c).terms))

\* collectors/polling.rs:16: the ceiling of backoff.
BackoffHasACeiling ==
  question.about = "pace" /\ question.signals.failures > 0 =>
    NextInterval(question.config, question.signals)
      <= 200 * Max2(question.config.backoffMax, question.config.normal)

\* domain/identity.rs:8: conditions change on the same logical voucher and
\* make no duplicate identity.
ChangedTermsKeepTheIdentity ==
  AboutIngest =>
    \A c \in ToSet(Observed) : Identity([c EXCEPT !.min = Otherwise(@, 0) + 1]) = Identity(c)

\* ROADMAP.md:573: a known start is not overwritten by a less trusted source.
KnownTimeIsKept ==
  AboutIngest =>
    \A c \in ToSet(Observed) :
      Identity(c) = Identity(Observed[1]) /\ Stated(c.start)
        /\ Tiers[c.source] > Tiers[Last(Observed).source] => Stated(question.row.terms.start)

=============================================================================
