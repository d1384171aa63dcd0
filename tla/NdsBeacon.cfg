SPECIFICATION NdsSpec
CONSTANTS
  Units = {"wifi"}
  arm9 = arm9
  arm7 = arm7
  Core = {arm9, arm7}
  FifoDepth = 2
  MaxWords = 3
  VramBanks = {2, 4, 5, 7, 8}
  VramEnabled = 2
  CacheSets = 2
  CacheWays = 2
  CacheLines = 6
  DtcmBases = {8192, 12288, 24576, 1048572}
  TcmFields = {3, 5, 6, 16, 20, 22, 23, 31}
INVARIANTS
  OneBeaconChain
CHECK_DEADLOCK FALSE
