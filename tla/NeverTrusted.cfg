SPECIFICATION RuleSpec
CONSTANTS
  RuleServers = {p1}
  RuleIds = {r1}
  CallSlots = {k1}
  PromoteEvals = 1
  PromotePercent = 50
  RetireEvals = 3
  DemotePercent = 70
  TrustEvals = 2
  TrustPercent = 10
  DistrustFires = 0
  DistrustPercent = 20
  ReloadInterval = 2
  MaxRuleCalls = 4
  MaxJudgements = 3
PROPERTY RulesEarnTrust
CHECK_DEADLOCK FALSE
