SPECIFICATION SyncSpec
CONSTANTS
  b1 = b1
  w1 = w1
  w2 = w2
  ok1 = ok1
  poor = poor
  Brains = {b1}
  Windows = {w1, w2}
  Brain <- SameBrain
  Contents = {ok1, poor}
  Good = {ok1}
  Directions <- AllDirections
  Events = {}
  Delay = 1
  PayloadLimit = 1
  QueryLimit = 2
  MaxTime = 2
  MaxPushes = 2
INVARIANT PullSkipsNothing
CHECK_DEADLOCK FALSE
