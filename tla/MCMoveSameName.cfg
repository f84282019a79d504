SPECIFICATION Spec
CONSTANTS
  A = A  B = B  ax = ax  ay = ay  by = by  dx = dx  dy = dy
  spare1 = spare1  spare2 = spare2
  NoInode = NoInode  Hole = Hole  Old = Old
  Sources <- MCSources
  Files <- MCFiles
  Unread = {}
  Paths <- MCPaths
  Inodes <- MCInodes
  SourceOf <- MCSourceOf
  SrcPath <- MCSrcPath
  DstPath <- MCDstPath
  DstTree <- MCDstTree
  Size <- MCSize
  OldLengths = {}
  Threads = 2
  Options <- MCMove
  MaxRuns = 1
CHECK_DEADLOCK FALSE
INVARIANT MoveLosesNothing
