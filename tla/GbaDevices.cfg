SPECIFICATION GbaSpec
CONSTANTS
  Units = {"timers", "link", "banks", "block", "alu", "flow", "decode", "memory", "prefetch",
           "dma", "fifo", "psg", "flash", "eeprom", "clock", "cartridge", "video", "blender",
           "objects", "maps"}
  NTimers = 3
  Wrap = 2
  Shifts = {0, 1}
  GenMod = 7
  MaxFetch = 1
  MaxStore = 1
  MaxTime = 6
  LinkHalfwords = {0}
  LinkModes = {"Multiplayer", "Normal32"}
  LinkRounds = 3
  LinkSessions = 2
  BufferSize = 3
  SeqWait = 2
  BranchTargets = {0, 2, 4}
  StreamCycles = 7
  DmaLines = 5
  DmaBlank = 2
  DmaCounts = {1, 2}
  DmaStarts = {0, 10}
  DmaRuns = 1
  FifoSize = 32
  RefillThreshold = 16
  Burst = 16
  Stream = 64
  TopFrequency = 1
  FullLength = 2
  Loudest = 1
  HasSweep = TRUE
INVARIANTS
  GbaTypeOK
  OneLiveOverflow
  OverflowOnTime
  RoundsAgree
  CpuExact
  MemoryCoherent
  StreamsUnbroken
  PictureExact
PROPERTIES
  TimersStepRight
  BackupsKeep
CHECK_DEADLOCK FALSE
