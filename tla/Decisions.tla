----------------------------- MODULE Decisions -----------------------------
(* Every crate that decides, asked one question; what keeps a state between *)
(* two questions carries it in the question and is asked again.             *)
EXTENDS Advice, Campaign, Collecting, Responses, Messages, Startup, Records

\* A new question, of any crate.
Ask ==
  /\ Unasked
  /\ \/ AskScore \/ AskRelevance \/ AskPlan
     \/ AskCampaign
     \/ AskIngest \/ AskCollected \/ AskFed \/ AskPace \/ AskBudget \/ AskStage
     \/ AskCollection \/ AskReplay
     \/ AskResponse
     \/ AskSource \/ AskDiscovery \/ AskTimings
     \/ AskSend \/ AskMessage \/ AskAlerts
     \/ AskStart \/ AskDelay \/ AskControl \/ AskCommand
     \/ AskVoucherRow \/ AskAttemptRow \/ AskJobTable \/ AskRunTable

\* An evaluator, a control plane or a budget that was asked is asked again, and
\* a voucher that was observed is observed again.
Next == Ask \/ EvaluateAlerts \/ CallControl \/ TryConsume \/ Observe

Spec == Init /\ [][Next]_question

-----------------------------------------------------------------------------
(* What the answers are to be.  The parts are stated where their code is     *)
(* modelled, next to an operator for each that breaks it.                    *)

\* Advice is sound: better terms rank no lower and expired vouchers last; a
\* plan is the best there is or says that it may not be, has no idle voucher,
\* does not depend on the order of its input, and keeps its savings in their
\* pools and shops; and the planner and the watch list contradict each other
\* about no purchase (ranking, planning).
AdviceIsSound ==
  /\ BetterTermsNeverScoreLess /\ ExpiredRanksLast
  /\ BestOrDisclosed /\ NoIdleVoucher /\ SameForEveryOrder
  /\ SavingsStayInTheirPool /\ ShopIsMeasuredWhole
  /\ AdvisersAgree /\ LikelyIsChecked

\* Sources are asked at a measured pace: the campaign that governs does not
\* depend on the file, no setting that is accepted and no broken offset makes
\* polling run wild, a source in trouble is not hurried, an hour holds no more
\* requests than allowed, and failing workers wait (campaign, polling.rs,
\* worker.rs:63).
PollingIsMeasured ==
  /\ FileOrderIsIrrelevant /\ NoPollWithoutDelay
  /\ WindowFindsCampaignRunning /\ BrokenOffsetNeverWidens
  /\ TroubledSourceIsNotHurried /\ RollingHourIsCapped /\ FailingWorkerWaits

\* What is collected is kept, once and as it was last seen, its times to the
\* second, whatever way and in whatever order it was written down: from the items
\* of an answer that can be read to the rows of the store and the queries on
\* them; what cannot be read is given up whole and in sight (collectors,
\* identity.rs, convert.rs).
CollectedIsKept ==
  /\ NoItemIsLost /\ ReplayIsDeterministic /\ CouponsAreClaimable
  /\ WritingDoesNotMatter /\ RespellingIsQuiet
  /\ StoredTermsAreTheLatest /\ MergeIsLosslessAndStable /\ StageMovesForward
  /\ EveryRowReadsBack /\ TextOrderIsTimeOrder /\ QueriesSpeakTheProgramsWords

\* Answers of the platform are read the same on both paths: a wall is one to
\* claims and probes, a refusal in words is a success only where an explicit code
\* says so, and an account is healthy only on proof (classify.rs).
AnswersAreReadRight == WallsLookTheSame /\ RefusalIsNotSaved /\ HealthyIsProven

\* The owner is told once, in time, and what is so: of a message the platform
\* took and said so in words that can be read, of pauses, final results, discounts and lasting alerts (notifier,
\* alerts.rs).
OwnerIsTold ==
  /\ TakenIsNotSentAgain /\ CooldownIsKept
  /\ PauseIsSaid /\ FinalStatusIsNotRetried /\ ShownDiscountIsCountedOn
  /\ AlertsAreApart /\ RaisedIsTold

\* Sources are judged by what they did: advice and score agree, failing never
\* helps, limits and useless sources are seen through the rows of their runs,
\* and figures do not depend on the order of rows (analytics, report.rs,
\* collector.rs:122).
SourcesAreJudged ==
  /\ AdviceShowsInTheScore /\ FailingNeverHelps /\ RatesAreShares
  /\ EveryVoucherIsWonOnce /\ LateIsVisible
  /\ LimitIsSeen /\ UselessSourceIsDisabled /\ ShownRunIsTheLatest

\* The owner's settings and commands are honoured: of the sources a worker exists
\* for, those that are enabled run and no others, what is off cannot hurt, what
\* is accepted starts, and nobody else operates (config.rs, api.rs, control.rs,
\* commands.rs).
SettingsAreHonoured ==
  /\ EnabledSourceRuns /\ SwitchedOffIsIgnored /\ AcceptedSettingsStart
  /\ OnlyTheOwnerOperates /\ CommandsKeepTheirMeaning

=============================================================================
