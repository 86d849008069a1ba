SPECIFICATION HostSpec
CONSTANTS
  good = good
  broken = broken
  s1 = s1
  s2 = s2
  Clean = Clean
  NoDigest = NoDigest
  Sessions = {s1}
  Trees = {good, broken}
  Base = good
  Green = {good}
  InScope = {good}
  Contracts <- AnyContract
  Requests <- CompliantRequests
  Events = {"commit"}
  GateWindow = 2
  DirectiveWindow = 20
  MaxMoves = 3
  MaxRows <- ManyRows
PROPERTY CompliantHostFinishes
CHECK_DEADLOCK FALSE
