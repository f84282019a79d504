SPECIFICATION FairSpec
CONSTANTS
  A = A  B = B  ax = ax  ay = ay  by = by  dx = dx  dy = dy
  spare1 = spare1  spare2 = spare2
  NoInode = NoInode  Hole = Hole  Old = Old
  Sources <- MCSources
  Files <- MCFiles
  Unread = {ax}
  Paths <- MCPaths
  Inodes <- MCInodes
  SourceOf <- MCSourceOf
  SrcPath <- MCSrcPath
  DstPath <- MCDstPath
  DstTree <- MCDstTree
  Size <- MCSizeEmpty
  OldLengths = {}
  Threads = 2
  Options <- MCOptions
  MaxRuns = 2
CHECK_DEADLOCK FALSE
INVARIANTS TypeOK CopiedIsComplete FinishedHidesNothing UnskippedSurvives
PROPERTIES JobEnds ImplementsTransfer
