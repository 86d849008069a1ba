SPECIFICATION StepsSpec
CONSTANTS
  s1 = s1
  s2 = s2
  Sessions = {s1, s2}
  N = 2
  Requested = {"passed"}
  Tools <- GatewayOnly
  Crashes = FALSE
  MaxCalls = 2
INVARIANT CompletedWhenAllPassed
CHECK_DEADLOCK FALSE
