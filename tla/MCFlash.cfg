SPECIFICATION FairSpec
CONSTANTS
  Sector = 2
  Chunk = 4
  DeviceSize = 8
  ImageSizes = {1, 5, 9}
  Faulty = TRUE
CHECK_DEADLOCK FALSE
INVARIANTS OneVerdict SuccessIsWritten
PROPERTIES QuietAfterVerdict FlashEnds
