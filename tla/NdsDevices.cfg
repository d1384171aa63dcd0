SPECIFICATION NdsSpec
CONSTANTS
  Units = {"ipc", "vram", "cache", "memory", "card", "backup", "clock", "spi", "math",
           "sound", "wifi", "radio", "frame", "blank", "stream", "matrices", "assembly",
           "clip", "raster", "pixels"}
  arm9 = arm9
  arm7 = arm7
  Core = {arm9, arm7}
  FifoDepth = 2
  MaxWords = 3
  VramBanks = {2, 4, 5, 7, 8}
  VramEnabled = 2
  CacheSets = 2
  CacheWays = 2
  CacheLines = 6
  DtcmBases = {8192, 12288, 24576, 1048572}
  TcmFields = {3, 5, 6, 16, 20, 22, 23, 31}
SYMMETRY CoreSymmetry
INVARIANTS
  NdsTypeOK
  EveryEdgeRaises
  CellsHaveOneOwner
  GeometryIsBuilt
  PixelsAreDrawn
PROPERTIES
  WordsInOrder
  ChipsAnswer
CHECK_DEADLOCK FALSE
