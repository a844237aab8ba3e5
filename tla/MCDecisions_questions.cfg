\* Every crate that decides is asked, and asked again where it keeps a state.
SPECIFICATION Spec
CONSTANTS
  None = None
  ScoredVouchers <- MCScored
  RuleSets <- MCRules
  Times <- MCTimes
  Better <- MCBetter
  PlanVouchers <- MCPlanVouchers
  MaxVouchers = 3
  Baskets <- MCBaskets
  Policies <- MCPolicies
  WatchItems <- MCWatchItems
  MaxOffset = 6
  Horizon = 12
  Calendars <- MCCalendars
  Moments <- MCMoments
  Bases <- MCBases
  Candidates <- MCCandidates
  Tiers <- MCTiers
  Observations = 3
  CouponItems <- MCCouponItems
  FeedItems <- MCFeedItems
  PollingConfigs <- MCPollingConfigs
  PollingSignals <- MCPollingSignals
  Hour = 2
  Limits = {0, 1, 2}
  RequestTimes = {0, 1, 2, 3, 4}
  MaxRequests = 5
  Lifetimes <- MCLifetimes
  Instants = {0, 1, 2, 3, 4}
  Answers <- MCAnswers
  Batches <- MCBatches
  Fixtures <- MCFixtures
  Tokens = {None, token}
  MaxUpserts = 3
  Statuses = {200, 204, 401, 403, 429, 503}
  Bodies <- MCBodies
  RunLogs <- MCRunLogs
  UniqueCounts = {0, 1}
  ObservationLogs <- MCObservationLogs
  Deltas <- MCDeltas
  MaxTimings = 4
  LateThreshold = 3
  Replies <- MCReplies
  MaxSends = 3
  BaseDelay = 500
  MaxDelay = 10000
  MaxHonoured = 30000
  ClaimBudget = 3
  UnknownBudget = 2
  ShownVouchers <- MCShownVouchers
  Inputs <- MCInputs
  Thresholds <- MCThresholds
  AlertTimes = {0, 1, 2, 3, 4, 5}
  MaxRounds = 3
  Bad = Bad
  Mistyped = Mistyped
  PerSecond = 2
  Environments <- MCEnvironments
  Failures = {0, 1, 2, 7, 8, 9, 31, 32, 40}
  AdminTokens = {None, "secret"}
  AdminCalls <- MCAdminCalls
  MaxCalls = 3
  ChatMessages <- MCChatMessages
  Undecodable = Undecodable
  WrittenTimes = {0, 9, 990, 1000, 1009, 1010, 1500}
  JobTables <- MCJobTables
  RunTables <- MCRunTables
  RecentRuns = 3
INVARIANTS
  AdviceIsSound
  PollingIsMeasured
  CollectedIsKept
  AnswersAreReadRight
  OwnerIsTold
  SourcesAreJudged
  SettingsAreHonoured
CHECK_DEADLOCK FALSE
