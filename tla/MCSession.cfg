SPECIFICATION FairSpec
CONSTANTS
  a = a  b = b
  MoveFlag = MoveFlag  NoTotals = NoTotals
  Paths = {a, b}
  First = {a, b}
  MaxAdded = 2
  MaxStarts = 2
INVARIANTS HandedExactlyOnce TotalsAddUp
PROPERTIES MoveRequestsMove SessionEnds
