SPECIFICATION FairSpec
CONSTANTS
  o1 = o1  o2 = o2  r1 = r1  r2 = r2  a = a  b = b  c = c  colon = colon
  Nobody = Nobody  NoPath = NoPath  NoFile = NoFile
  Offers = {o1, o2}
  Receivers = {r1, r2}
  Names <- MCNames
  Paths <- MCPaths
  SafePath <- MCSafePath
  Manifest <- MCManifest
  Drift <- MCDrift
  Window = 1
CHECK_DEADLOCK FALSE
INVARIANTS TypeOK ConsentBeforeWriting NothingLeavesUnaccepted DeliveredIsWhole
PROPERTIES EverySendEnds StoppedFreesPort
