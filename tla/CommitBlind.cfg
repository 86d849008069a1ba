SPECIFICATION Spec
CONSTANTS
  good = good
  broken = broken
  s1 = s1
  s2 = s2
  Clean = Clean
  NoDigest = NoDigest
  Sessions = {s1}
  Trees = {good, broken}
  Base = good
  Green = {good}
  InScope = {good}
  Contracts <- TestsOnly
  Requests <- CompliantRequests
  Events = {"commit", "crash"}
  GateWindow = 20
  DirectiveWindow = 200
  MaxMoves = 2
  MaxRows <- OneRowEach
INVARIANT QuietAcceptedTreeWasTested
