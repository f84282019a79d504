SPECIFICATION Spec
CONSTANTS
  stick = stick  small = small  a = a  b = b  None = None
  Drives = {stick, small}
  Size <- MCSize
  Unlisted = {}
  Virtual = {small}
  AllowVirtual = TRUE
  Ids = {a, b}
  Images <- MCImages
  MaxNews = 2
  MaxStarts = 2
SYMMETRY Symmetry
CHECK_DEADLOCK FALSE
INVARIANTS TypeOK ReadyMeansComplete IsoDetached
PROPERTIES ErasesAreSanctioned
