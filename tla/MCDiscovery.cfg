SPECIFICATION FairSpec
CONSTANTS
  p1 = p1  p2 = p2  self = self
  Peers = {p1, p2}
  Self = self
  Timeout = 1
  MaxSwitches = 3
  MaxMoves = 2
  MaxEvents = 2
CHECK_DEADLOCK FALSE
INVARIANTS ListCatchesUp
PROPERTIES ListFollows
