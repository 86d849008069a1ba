SPECIFICATION ServicesSpec
CONSTANTS
  p1 = p1
  p2 = p2
  k1 = k1
  k2 = k2
  RuleServers = {p1, p2}
  CallSlots = {k1, k2}
  RuleIds = {r1}
  PromoteEvals = 1
  PromotePercent = 50
  RetireEvals = 3
  DemotePercent = 70
  TrustEvals = 2
  TrustPercent = 10
  DistrustFires = 0
  DistrustPercent = 20
  ReloadInterval = 2
  MaxRuleCalls = 3
  MaxJudgements = 3
  ToolServers = {p1, p2}
  ToolCallIds = {p1, p2}
  MaxRetries = 2
  ScanEvery = 2
  CheckEvery = 1
  GoalCooldown = 1
  MaxOutages = 3
  Addresses = {a1}
  Clients = {u1}
  Requests = {q1, q2}
  RateMax = 2
  RateWindow = 1
  MaxHubTime = 3
  MaxHubRequests = 4
  MaxCases = 20
  MaxOverspend = 1
  Scipy = TRUE
  Functions = {f1, f2, f3}
  MaxCallPairs = 3
  ConfigProcs = {p1, p2}
  MaxEdits = 1
  MaxConfigFaults = 1
  w1 = w1
  w2 = w2
  w3 = w3
  key = key
  file = file
  log = log
  fake = fake
  avoid = avoid
  marker = marker
  Terms = {w1, w2, w3, key, file, log, fake}
  Inside <- SomeInside
  Files = {file}
  Lexicon <- SomeLexicon
  Values = {"one", "other", "two", "twice", "three", "secretive", "noisy"}
  TermsOf <- SomeTermsOf
  Tokens = {key}
  Marker = marker
  Avoid = avoid
  Prompts <- SomePrompts
  Drafts <- SomeDrafts
  TermLimit = 2
  ClauseLimit = 2
  ContractLimit = 5
  PluginFiles <- SomePluginFiles
  RequirementLists <- SomeRequirementLists
  Candidates <- SomeCandidates
  CandidateLists <- SomeCandidateLists
  g1 = g1
  g2 = g2
  g3 = g3
  WebPages = {g1, g2, g3}
  FirstWebs <- SomeWebs
  Spans = {1, 2, 3}
  Length <- SomeLengths
  Index <- SomeIndex
  Pairable = {1, 2}
  Citations <- SomeCitations
  SourceLimit = 2
  SpanLimit = 2
  QuoteLimit = 3
  CharBudget = 6
  MaxVerifies = 2
  MaxPageChanges = 1
INVARIANTS ServicesTypeOK StaleRulesFade AnswerTellsAttempts OneGoalPerServer LimiterExact SeenIsLatest RadiusIsUpstream SettingsKept DoneMeansWhatWasAsked  AcceptedDraftsComply PassMeansRead
PROPERTIES RetiredStaysOff EvidenceMovesDecision
SYMMETRY ProcessSymmetry
CHECK_DEADLOCK FALSE
