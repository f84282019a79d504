SPECIFICATION FairSpec
CONSTANTS
  f1 = f1  f2 = f2  v1 = v1  v2 = v2
  NoFile = NoFile  Hole = Hole  Old = Old
  Files = {f1, f2}
  Versions = {v1, v2}
  First = v1
  Length <- MCLength
  OldLengths = {1}
  Options <- MCOptions
  MaxTime = 2
  MaxEdits = 1
  MaxRuns = 2
CHECK_DEADLOCK FALSE
INVARIANTS UpToDate NothingLeft
PROPERTIES OnlyExtrasGo SyncEnds
