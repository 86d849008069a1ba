SPECIFICATION GateSpec
CONSTANTS
  good = good
  broken = broken
  s1 = s1
  s2 = s2
  Clean = Clean
  NoDigest = NoDigest
  Sessions = {s1, s2}
  Trees = {good, broken}
  Base = good
  Green = {good}
  InScope = {good}
  Contracts <- GateContracts
  Requests <- SloppyRequests
  Events = {"crash"}
  GateWindow = 2
  DirectiveWindow = 3
  MaxMoves = 2
  MaxRows <- OneRowEach
INVARIANTS TypeOK GateSound TestRowsSound
PROPERTY KeepsPromise
SYMMETRY SessionSymmetry
