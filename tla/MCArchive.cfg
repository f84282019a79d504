SPECIFICATION Spec
CONSTANTS
  f1 = f1  f2 = f2  twin = twin  slip = slip  o1 = o1  o2 = o2
  Dest = Dest  Partial = Partial  NoPath = NoPath  NoFile = NoFile  NoToc = NoToc  Old = Old
  Files = {f1, f2}
  Names = {f1, f2, twin, slip}
  Outs = {o1, o2}
  Length <- MCLength
  Target <- MCTarget
  Found <- MCFound
  Sources <- MCSources
  Walked <- MCWalked
  MaxRuns = 2
INVARIANTS ZipIsOldOrWhole OutcomeIsTrue ExtractedIsWhole
