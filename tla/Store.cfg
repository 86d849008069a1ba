SPECIFICATION StoreSpec
CONSTANTS
  p1 = p1
  p2 = p2
  b1 = b1
  ok1 = ok1
  poor = poor
  Openers = {p1, p2}
  LegacyRows = {l1}
  UserRows = {u1}
  KeepBackups = 1
  MaxSeconds = 2
  MaxStarts = 3
  MaxFiles = 5
  m1 = m1
  m2 = m2
  d1 = d1
  r1 = r1
  Writers = {p1, p2}
  Records = {m1, m2, d1, r1}
  Kind <- KindDef
  Twins <- TwinsDef
  NoWriter = NoWriter
  MaxWrites = 4
  a = a
  b = b
  r = r
  MemCallers = {p1, p2}
  LocalItems = {a, b}
  RemoteItems = {r}
  SameWords <- SameWordsDef
  MemGrades <- GradesDef
  MaxMemCalls = 4
  Sessions = {p1, p2}
  N = 2
  Requested <- SomeStatuses
  Tools <- AllTools
  Crashes = TRUE
  MaxCalls = 4
  Brains = {b1}
  Windows = {p1, p2}
  Brain <- SameBrain
  Contents = {ok1, poor}
  Good = {ok1}
  Directions <- SomeDirections
  Events = {"judge", "abort", "give_up"}
  Delay = 0
  PayloadLimit = 1
  QueryLimit = 2
  MaxTime = 2
  MaxPushes = 2
  LoopCallers = {p1, p2}
  DetectionKinds = {"security"}
  HandNames = {h}
  PastScores <- SomePastScores
  PastPrompts <- SomePastPrompts
  TrendWindow = 4
  PromptWindow = 6
  MaxDetections = 2
  MaxLoopCalls = 3
  x1 = x1
  x2 = x2
  x3 = x3
  Mistakes = {x1, x2, x3}
  MistakeWords <- SomeMistakeWords
  Cause <- SomeCauses
  HasVector = {x1, x3}
  PromptTexts = {{"a"}, {"a", "b"}}
  Weights <- SomeWeights
  PastEvents <- SomePastEvents
  RankOffset = 60
  ShowLimit = 1
  Optimizers = {o1}
  JudgeAfter = 3
  NeutralBelow = 1
  FloorPercent = 30
  BoostPercent = 70
  AdjustPercent = 101
  MaxEvents = 1
  MaxResolutions = 6
INVARIANTS StoreTypeOK LedgerMeansSanitized LostOnlyIfRaced LoneFailureRestores NoTwins DecisionNodeFollows VisibleIsFit AnswerHolds NoSkipAhead StatusWasTrue LoneUpdateHeals HashMeansStored PushSkipsNothing PullSkipsNothing OneCopyUnlessRaced ReportsHold BetterHitShown
PROPERTIES RecordsAreWhole StaysResolved PoolDoesNotFlap
SYMMETRY ProcessSymmetry
CHECK_DEADLOCK FALSE
