SPECIFICATION FairSpec
CONSTANTS
  a = a  b = b  c = c  v = v  w = w
  Gone = Gone  Unreadable = Unreadable
  Paths = {a, b, c}
  Contents = {v, w}
  Size <- MCSize
  Start64 <- MCStart
  Tabs = {"duplicates", "large", "folders", "search"}
  Walks <- MCWalks
  Within <- MCWithin
  Disks <- MCDisks
  Needles <- MCNeedles
  MaxScans = 2
  MaxDeletes = 1
  MaxMoves = 1
  MaxEdits <- MCEdits
CHECK_DEADLOCK FALSE
INVARIANTS TypeOK ListIsHonest
PROPERTIES OneCopyStays JobsEnd
