SPECIFICATION OpenSpec
CONSTANTS
  Openers = {p1, p2}
  LegacyRows = {l1}
  UserRows = {u1}
  KeepBackups = 1
  MaxSeconds = 2
  MaxStarts = 3
  MaxFiles = 5
INVARIANT AckedRowsKept
CHECK_DEADLOCK FALSE
