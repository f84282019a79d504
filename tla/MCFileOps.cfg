SPECIFICATION FairSpec
CONSTANTS
  pic1 = pic1  pic2 = pic2  old = old  other = other  Torn = Torn
  Files = {pic1, pic2, old, other}
  Names <- MCNames
  Category <- MCCategory
  Month <- MCMonth
  Elsewhere <- MCElsewhere
  Trees <- MCTrees
  Lists <- MCLists
  Patterns <- MCPatterns
  Numeral <- MCNumeral
  MaxJobs = 2
  MaxRenames = 1
  MaxEdits = 1
  MaxFaults = 1
CHECK_DEADLOCK FALSE
INVARIANTS SortedWhenDone
PROPERTIES NothingVanishes OrganizeEnds
