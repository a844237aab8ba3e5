------------------------------ MODULE Records ------------------------------
(***************************************************************************)
(* The text columns of the store: how moments and enumerations are written *)
(* and read back (convert.rs, the as_str and parse of the domain), and the *)
(* queries that compare and order what is written.  A moment is a number,  *)
(* 1000 to the second; its text has two of the three digits behind the     *)
(* second, as the text in the code has six of nine.                        *)
(***************************************************************************)
EXTENDS Basics, Sequences, FiniteSets, Functions, Question

CONSTANTS
  Undecodable,  \* StorageError::Decode
  WrittenTimes, \* moments that are written
  JobTables,    \* sequences of jobs: [action, status, execute, preflight]
  RunTables,    \* sequences of runs: [source, started, outcome]
  RecentRuns    \* the rows last_per_source looks at: 500

-----------------------------------------------------------------------------
(* convert.rs: texts are sequences of characters in their order.            *)

Dot  == -1
Zulu == 10  \* the digits are 0 to 9

\* Mutant: a fraction of zero is left out, as to_rfc3339 does.
TsToStrShort(t) ==
  IF (t \div 10) % 100 = 0 THEN <<t \div 1000, Zulu>>
  ELSE <<t \div 1000, Dot, (t \div 100) % 10, (t \div 10) % 10, Zulu>>

\* The width is fixed, and what is finer than it is cut off.
TsToStr(t) == <<t \div 1000, Dot, (t \div 100) % 10, (t \div 10) % 10, Zulu>>

StrToTs(text) ==
  IF Len(text) = 2 THEN 1000 * text[1] ELSE 1000 * text[1] + 100 * text[3] + 10 * text[4]

OptTsToStr(t)    == IF Stated(t) THEN TsToStr(t) ELSE None
OptStrToTs(text) == IF Stated(text) THEN StrToTs(text) ELSE None

\* How the database orders texts.
TextBefore(a, b) ==
  \E i \in 1..(Min2(Len(a), Len(b)) + 1) :
    /\ \A j \in 1..(i - 1) : a[j] = b[j]
    /\ i <= Len(b) /\ (i <= Len(a) => a[i] < b[i])

-----------------------------------------------------------------------------
(* The domain's enumerations: as_str, and parse where the code has one.     *)

VoucherStatusAsStr ==
  [Discovered |-> "DISCOVERED", Validated |-> "VALIDATED", Eligible |-> "ELIGIBLE",
   Scheduled |-> "SCHEDULED", Claiming |-> "CLAIMING", Saved |-> "SAVED", Exhausted |-> "EXHAUSTED",
   Ineligible |-> "INELIGIBLE", Expired |-> "EXPIRED", ReviewRequired |-> "REVIEW_REQUIRED"]
VoucherStatusParse ==
  [DISCOVERED |-> "Discovered", VALIDATED |-> "Validated", ELIGIBLE |-> "Eligible",
   SCHEDULED |-> "Scheduled", CLAIMING |-> "Claiming", SAVED |-> "Saved", EXHAUSTED |-> "Exhausted",
   INELIGIBLE |-> "Ineligible", EXPIRED |-> "Expired", REVIEW_REQUIRED |-> "ReviewRequired"]

VoucherTypeAsStr ==
  [Platform |-> "PLATFORM", Shop |-> "SHOP", Freeship |-> "FREESHIP", Payment |-> "PAYMENT",
   Live |-> "LIVE", Video |-> "VIDEO", Category |-> "CATEGORY", Unknown |-> "UNKNOWN"]
VoucherTypeParse ==
  [PLATFORM |-> "Platform", SHOP |-> "Shop", FREESHIP |-> "Freeship", PAYMENT |-> "Payment",
   LIVE |-> "Live", VIDEO |-> "Video", CATEGORY |-> "Category"]

\* Written by its name in the program.
ParseDiscountType(text) ==
  IF text \in {"FixedAmount", "Percentage", "Coins", "FreeShipping"} THEN text ELSE None

IdentityBasisAsStr ==
  [ExternalId |-> "EXTERNAL_ID", PromotionId |-> "PROMOTION_ID", Fingerprint |-> "FINGERPRINT"]
IdentityBasisParse ==
  [EXTERNAL_ID |-> "ExternalId", PROMOTION_ID |-> "PromotionId", FINGERPRINT |-> "Fingerprint"]

ActionAsStr ==
  [ClaimVoucher |-> "CLAIM_VOUCHER", RefreshMetadata |-> "REFRESH_METADATA",
   SessionPreflight |-> "SESSION_PREFLIGHT", NotifyUpcoming |-> "NOTIFY_UPCOMING"]
ActionParse ==
  [CLAIM_VOUCHER |-> "ClaimVoucher", REFRESH_METADATA |-> "RefreshMetadata",
   SESSION_PREFLIGHT |-> "SessionPreflight", NOTIFY_UPCOMING |-> "NotifyUpcoming"]

JobStatusAsStr ==
  [Pending |-> "PENDING", Ready |-> "READY", Running |-> "RUNNING", Succeeded |-> "SUCCEEDED",
   Failed |-> "FAILED", Cancelled |-> "CANCELLED", Stale |-> "STALE"]
JobStatusParse ==
  [PENDING |-> "Pending", READY |-> "Ready", RUNNING |-> "Running", SUCCEEDED |-> "Succeeded",
   FAILED |-> "Failed", CANCELLED |-> "Cancelled", STALE |-> "Stale"]
IsOpen(status) == status \in {"Pending", "Ready", "Running"}

ResultClassAsStr ==
  [Success |-> "SUCCESS", AlreadySaved |-> "ALREADY_SAVED", NotActive |-> "NOT_ACTIVE",
   Expired |-> "EXPIRED", Exhausted |-> "EXHAUSTED", Ineligible |-> "INELIGIBLE",
   InvalidVoucher |-> "INVALID_VOUCHER", SessionExpired |-> "SESSION_EXPIRED",
   VerificationRequired |-> "VERIFICATION_REQUIRED", RateLimited |-> "RATE_LIMITED",
   TransientFailure |-> "TRANSIENT_FAILURE", UnknownResponse |-> "UNKNOWN_RESPONSE"]

\* Mutant: one of the classes is read as another.
ResultClassParseSwapped ==
  [text \in {ResultClassAsStr[c] : c \in DOMAIN ResultClassAsStr} |->
     IF text = "ALREADY_SAVED" THEN "Success"
     ELSE CHOOSE c \in DOMAIN ResultClassAsStr : ResultClassAsStr[c] = text]

ResultClassParse ==
  [SUCCESS |-> "Success", ALREADY_SAVED |-> "AlreadySaved", NOT_ACTIVE |-> "NotActive",
   EXPIRED |-> "Expired", EXHAUSTED |-> "Exhausted", INELIGIBLE |-> "Ineligible",
   INVALID_VOUCHER |-> "InvalidVoucher", SESSION_EXPIRED |-> "SessionExpired",
   VERIFICATION_REQUIRED |-> "VerificationRequired", RATE_LIMITED |-> "RateLimited",
   TRANSIENT_FAILURE |-> "TransientFailure", UNKNOWN_RESPONSE |-> "UnknownResponse"]
IsSuccessEquivalent(class) == class \in {"Success", "AlreadySaved"}

-----------------------------------------------------------------------------
(* Rows: what is bound, and what row_to_... makes of it.                    *)

VoucherRow(v) ==
  [basis |-> IdentityBasisAsStr[v.basis], type |-> VoucherTypeAsStr[v.type], discount |-> v.discount,
   status |-> VoucherStatusAsStr[v.status], start |-> OptTsToStr(v.start), seen |-> TsToStr(v.seen)]

\* An unknown type is Unknown and an unknown discount none; an unknown basis or
\* status is an error.
RowToVoucher(row) ==
  IF row.basis \notin DOMAIN IdentityBasisParse \/ row.status \notin DOMAIN VoucherStatusParse THEN Undecodable
  ELSE [basis    |-> IdentityBasisParse[row.basis],
        type     |-> IF row.type \in DOMAIN VoucherTypeParse THEN VoucherTypeParse[row.type] ELSE "Unknown",
        discount |-> IF Stated(row.discount) THEN ParseDiscountType(row.discount) ELSE None,
        status   |-> VoucherStatusParse[row.status],
        start    |-> OptStrToTs(row.start), seen |-> StrToTs(row.seen)]

JobRow(j) ==
  [action |-> ActionAsStr[j.action], status |-> JobStatusAsStr[j.status],
   execute |-> TsToStr(j.execute), preflight |-> TsToStr(j.preflight)]

RowToJob(row) ==
  IF row.action \notin DOMAIN ActionParse \/ row.status \notin DOMAIN JobStatusParse THEN Undecodable
  ELSE [action |-> ActionParse[row.action], status |-> JobStatusParse[row.status],
        execute |-> StrToTs(row.execute), preflight |-> StrToTs(row.preflight)]

\* complete_attempt; an attempt in flight has neither class nor end.
AttemptRow(a) ==
  [class |-> IF Stated(a.class) THEN ResultClassAsStr[a.class] ELSE None,
   started |-> TsToStr(a.started), completed |-> OptTsToStr(a.completed)]

RowToAttempt(row) ==
  [class |-> IF Stated(row.class) /\ row.class \in DOMAIN ResultClassParse THEN ResultClassParse[row.class] ELSE None,
   started |-> StrToTs(row.started), completed |-> OptStrToTs(row.completed)]

\* One row that cannot be decoded fails the whole list.
ListOf(decoded) == IF \E i \in DOMAIN decoded : decoded[i] = Undecodable THEN Undecodable ELSE decoded

-----------------------------------------------------------------------------
(* Queries: the numbers of the rows that are found, and the orders in which *)
(* the database may return them.  Which of two equal texts comes first is   *)
(* its choice.                                                              *)

Returned(found, Before(_, _)) ==
  {list \in Bijection(1..Cardinality(found), found) :
     \A i, j \in DOMAIN list : i < j => ~Before(list[j], list[i])}

ByExecute(rows, found) == Returned(found, LAMBDA i, j : TextBefore(rows[i].execute, rows[j].execute))

\* Mutant: a job that its preflight made ready is not loaded.
OpenJobsPending(rows) == {i \in DOMAIN rows : rows[i].status \in {"PENDING", "RUNNING"}}

OpenJobs(rows) == {i \in DOMAIN rows : rows[i].status \in {"PENDING", "READY", "RUNNING"}}

DueForPreflight(rows, at) ==
  {i \in DOMAIN rows : rows[i].status = "PENDING" /\ ~TextBefore(TsToStr(at), rows[i].preflight)}

HasSuccessfulAttempt(rows) == \E i \in DOMAIN rows : rows[i].class \in {"SUCCESS", "ALREADY_SAVED"}

\* The latest first, and no more than the limit.
Recent(runs, limit) ==
  {SubSeq(list, 1, Min2(limit, Len(list))) :
     list \in Returned(DOMAIN runs, LAMBDA i, j : TextBefore(runs[j].started, runs[i].started))}

\* Mutant: a later row of a source replaces an earlier one.
LastPerSourceReplaced(runs, recent) ==
  {recent[i] : i \in {k \in DOMAIN recent :
                       \A l \in DOMAIN recent : runs[recent[l]].source = runs[recent[k]].source => l <= k}}

\* The first of the recent runs of every source.
LastPerSource(runs, recent) ==
  {recent[i] : i \in {k \in DOMAIN recent :
                       \A l \in DOMAIN recent : runs[recent[l]].source = runs[recent[k]].source => k <= l}}

-----------------------------------------------------------------------------
\* The moment as the store has it.
Cut(t) == IF Stated(t) THEN t - (t % 10) ELSE None

\* Moments are numbers, texts are told from what is absent, and rows from the
\* error of one that cannot be decoded.
ASSUME RecordsAssumption ==
  /\ \A t \in WrittenTimes : t \in Int /\ Stated(TsToStr(t))
  /\ \A c \in DOMAIN ResultClassAsStr : Stated(ResultClassAsStr[c])
  /\ \A jobs \in JobTables :
       /\ jobs \in Seq([action : DOMAIN ActionAsStr, status : DOMAIN JobStatusAsStr, execute : Int, preflight : Int])
       /\ \A i \in DOMAIN jobs : [jobs[i] EXCEPT !.execute = Cut(@), !.preflight = Cut(@)] # Undecodable
  /\ RecentRuns \in Nat
  /\ \A runs \in RunTables :
       /\ runs \in Seq(Range(runs))
       /\ \A i \in DOMAIN runs : {"source", "started"} \subseteq DOMAIN runs[i] /\ runs[i].started \in Int

AskVoucherRow ==
  \E b \in DOMAIN IdentityBasisAsStr, t \in DOMAIN VoucherTypeAsStr, s \in DOMAIN VoucherStatusAsStr,
     d \in {None, "FixedAmount", "Percentage", "Coins", "FreeShipping"}, m \in WrittenTimes \union {None} :
    question' = [about |-> "voucherRow",
                 record |-> [basis |-> b, type |-> t, discount |-> d, status |-> s, start |-> m, seen |-> 0]]

AskAttemptRow ==
  \E c \in DOMAIN ResultClassAsStr \union {None}, m \in WrittenTimes :
    question' = [about |-> "attemptRow",
                 record |-> [class |-> c, started |-> m, completed |-> IF Stated(c) THEN m ELSE None]]

AskJobTable ==
  \E jobs \in JobTables, at \in WrittenTimes : question' = [about |-> "jobs", jobs |-> jobs, at |-> at]

AskRunTable == \E runs \in RunTables : question' = [about |-> "runs", runs |-> runs]

-----------------------------------------------------------------------------
\* Whatever the program writes it reads back, but for the digits of a moment
\* that the text has no room for: no row of its own makes a list fail.
EveryRowReadsBack ==
  /\ question.about = "voucherRow" =>
       RowToVoucher(VoucherRow(question.record)) =
         [question.record EXCEPT !.start = Cut(@), !.seen = Cut(@)]
  /\ question.about = "attemptRow" =>
       RowToAttempt(AttemptRow(question.record)) =
         [question.record EXCEPT !.started = Cut(@), !.completed = Cut(@)]
  /\ question.about = "jobs" =>
       ListOf([i \in DOMAIN question.jobs |-> RowToJob(JobRow(question.jobs[i]))]) =
         [i \in DOMAIN question.jobs |->
            [question.jobs[i] EXCEPT !.execute = Cut(@), !.preflight = Cut(@)]]

RowsOf(jobs) == [i \in DOMAIN jobs |-> JobRow(jobs[i])]

\* The scheduler's queries compare texts: a pending job is found when its
\* preflight has come and never before, and the jobs found are in the order of
\* their times.
TextOrderIsTimeOrder ==
  question.about = "jobs" =>
    LET jobs == question.jobs
        due  == DueForPreflight(RowsOf(jobs), question.at)
    IN /\ due = {i \in DOMAIN jobs : jobs[i].status = "Pending" /\ Cut(jobs[i].preflight) <= Cut(question.at)}
       /\ \A list \in ByExecute(RowsOf(jobs), due) : \A i, j \in DOMAIN list :
            i < j => Cut(jobs[list[i]].execute) <= Cut(jobs[list[j]].execute)

\* The words in the queries are those the program writes: the jobs loaded at a
\* restart are the open ones, and a voucher counts as claimed exactly after an
\* attempt that is as good as a success.
QueriesSpeakTheProgramsWords ==
  /\ question.about = "jobs" =>
       OpenJobs(RowsOf(question.jobs)) = {i \in DOMAIN question.jobs : IsOpen(question.jobs[i].status)}
  /\ question.about = "attemptRow" =>
       LET a == question.record
       IN HasSuccessfulAttempt(<<AttemptRow(a)>>) <=> Stated(a.class) /\ IsSuccessEquivalent(a.class)

\* Runs as they are stored.
Stored(runs) == [i \in DOMAIN runs |-> [runs[i] EXCEPT !.started = TsToStr(@)]]

\* The dashboard shows one run of every source, and none that is older than
\* another of its source, as long as the table is no longer than what is read.
ShownRunIsTheLatest ==
  question.about = "runs" /\ Len(question.runs) <= RecentRuns =>
    LET runs == question.runs
    IN \A recent \in Recent(Stored(runs), RecentRuns) :
         LET shown == LastPerSource(Stored(runs), recent)
         IN /\ \A x \in DOMAIN runs : \E r \in shown : runs[r].source = runs[x].source
            /\ \A r, x \in shown : runs[r].source = runs[x].source => r = x
            /\ \A r \in shown, x \in DOMAIN runs :
                 runs[x].source = runs[r].source => Cut(runs[x].started) <= Cut(runs[r].started)

-----------------------------------------------------------------------------
(* What the repository says and the program does not do *)

\* storage/repositories/collector.rs:121: the single most recent run per
\* source. A busy source crowds the others out of the rows that are read.
EverySourceIsShown ==
  question.about = "runs" =>
    \A recent \in Recent(Stored(question.runs), RecentRuns) :
      \A x \in DOMAIN question.runs : \E r \in LastPerSource(Stored(question.runs), recent) :
        question.runs[r].source = question.runs[x].source

=============================================================================
