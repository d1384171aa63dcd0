-------------------------------- MODULE MCGba --------------------------------
(***************************************************************************)
(* The GBA's parts for TLC: the timers, two linked serial ports, the CPU,  *)
(* memory, DMA, sound, the cartridge's chips and the picture.  `unit` says *)
(* which of them a behaviour is about; `dev` is the state of every part    *)
(* but the timers and the serial link.                                     *)
(***************************************************************************)
EXTENDS GbaTimers

CONSTANTS
  Units,
  LinkHalfwords, LinkModes, LinkRounds, LinkSessions,       (* of the serial link *)
  BufferSize, SeqWait, BranchTargets, StreamCycles,         (* of the prefetch buffer *)
  DmaLines, DmaBlank, DmaCounts, DmaStarts, DmaRuns,
  FifoSize, RefillThreshold, Burst, Stream,                 (* of DirectSound *)
  TopFrequency, FullLength, Loudest, HasSweep               (* of the sound generator *)

AllOnes == 65535   (* what a port receives when nothing was sent *)

(* A word the cable could not tell from no word is not sent; there is more *)
(* than one round number; a cartridge takes its time; and the refill of a  *)
(* FIFO finds room for its burst.                                          *)
ASSUME GbaAssumption ==
  /\ 0 \in LinkHalfwords /\ LinkHalfwords \subseteq 0 .. AllOnes - 1
  /\ LinkModes \subseteq {"Normal8", "Normal32", "Multiplayer", "Other"}
  /\ LinkRounds \in Nat \ {0, 1} /\ LinkSessions \in Nat
  /\ BufferSize \in Nat /\ SeqWait \in Nat \ {0}
  /\ BranchTargets \subseteq Nat /\ StreamCycles \in Nat
  /\ DmaLines \in Nat \ {0} /\ DmaBlank \in Nat /\ DmaRuns \in Nat
  /\ DmaCounts \subseteq Nat /\ DmaStarts \subseteq Nat
  /\ RefillThreshold \in Nat /\ Burst \in Nat \ {0} /\ FifoSize \in Nat /\ Stream \in Nat
  /\ RefillThreshold + Burst <= FifoSize /\ Burst < Stream
  /\ TopFrequency \in Nat /\ FullLength \in Nat \ {0} /\ Loudest \in Nat
  /\ HasSweep \in BOOLEAN

VARIABLES unit, dev, ports, host, carrier, session, up, wire

Link == INSTANCE SerialLink WITH
  Halfwords <- LinkHalfwords, NoData <- AllOnes, Modes <- LinkModes, Count <- 2,
  RoundMod <- LinkRounds, Reconciles <- FALSE, MaxSessions <- LinkSessions

Registers == INSTANCE ArmRegisters WITH
  core <- dev, block <- dev, Modes <- {"User", "System", "Fiq", "Irq"}, PC <- 3, Top <- 12,
  alu <- dev, W <- 4
Flow == INSTANCE ArmFlow WITH
  flow <- dev, Targets <- {8}, Depth <- 2, Limit <- 12, decode <- dev

Bus == INSTANCE GbaBus WITH
  access <- dev, prefetch <- dev, Capacity <- BufferSize, Addresses <- BranchTargets,
  MaxElapsed <- StreamCycles
Dma == INSTANCE GbaDma WITH
  dma <- dev, Lines <- DmaLines, VBlankLine <- DmaBlank, Counts <- DmaCounts,
  Starts <- DmaStarts, MaxRuns <- DmaRuns
Sound == INSTANCE GbaSound WITH fifo <- dev, psg <- dev, Top <- TopFrequency

Backups == INSTANCE GbaBackups WITH flash <- dev, eeprom <- dev, Sizes <- {"K64", "K128"}
Cartridge == INSTANCE GbaCartridge WITH cartridge <- dev, MaxValue <- 1, rtc <- dev, TimeBytes <- 2

Video == INSTANCE GbaVideo WITH
  video <- dev, Width <- 2, Height <- 2, Lines <- 3, Dot <- 2, LineCycles <- 6, MaxWrites <- 2
Layers == INSTANCE RenderLayers WITH
  oam <- dev, Count <- 2, Width <- 3, XSpan <- 8, YSpan <- 4, Budget <- 6, Setup <- 1,
  MosaicX <- 2,
  bg <- dev, Blocks <- {31}, References <- {0},
  pixel <- dev, Edge <- 3, Bounds <- {<<2, 1>>}, Weights <- {31}

linkVars == <<ports, host, carrier, session, up, wire>>
allVars == <<vars, unit, dev, linkVars>>

LinkParked ==
  /\ ports = <<>> /\ host = <<>> /\ carrier = <<>> /\ session = 0 /\ up = FALSE /\ wire = <<>>

DeviceInit ==
  \/ unit = "banks" /\ Registers!BanksInit
  \/ unit = "block" /\ Registers!BlockInit
  \/ unit = "alu" /\ Registers!AluInit
  \/ unit = "flow" /\ Flow!FlowInit
  \/ unit = "decode" /\ Flow!DecodeInit
  \/ unit = "memory" /\ Bus!MemoryInit
  \/ unit = "prefetch" /\ Bus!PrefetchInit
  \/ unit = "dma" /\ Dma!Init
  \/ unit = "fifo" /\ Sound!FifoInit
  \/ unit = "psg" /\ Sound!PsgInit
  \/ unit = "flash" /\ Backups!FlashInit
  \/ unit = "eeprom" /\ Backups!EepromInit
  \/ unit = "clock" /\ Cartridge!ClockInit
  \/ unit = "cartridge" /\ Cartridge!BackupInit
  \/ unit = "video" /\ Video!Init
  \/ unit = "blender" /\ Layers!PixelInit
  \/ unit = "objects" /\ Layers!ObjectInit
  \/ unit = "maps" /\ Layers!MapInit

GbaInit ==
  /\ unit \in Units /\ Init
  /\ \/ unit = "timers" /\ LinkParked /\ dev = <<>>
     \/ unit = "link" /\ Link!Init /\ dev = <<>>
     \/ DeviceInit /\ LinkParked

Still == UNCHANGED <<vars, unit, linkVars>>

GbaNext ==
  \/ unit = "timers" /\ Next /\ UNCHANGED <<unit, dev, linkVars>>
  \/ unit = "link" /\ Link!Next /\ UNCHANGED <<vars, unit, dev>>
  \/ unit = "banks" /\ Registers!BanksNext /\ Still
  \/ unit = "block" /\ Registers!BlockNext /\ Still
  \/ unit = "alu" /\ Registers!AluNext /\ Still
  \/ unit = "flow" /\ Flow!FlowNext /\ Still
  \/ unit = "decode" /\ Flow!DecodeNext /\ Still
  \/ unit = "memory" /\ Bus!MemoryNext /\ Still
  \/ unit = "prefetch" /\ Bus!PrefetchNext /\ Still
  \/ unit = "dma" /\ Dma!Next /\ Still
  \/ unit = "fifo" /\ Sound!FifoNext /\ Still
  \/ unit = "psg" /\ Sound!PsgNext /\ Still
  \/ unit = "flash" /\ Backups!FlashNext /\ Still
  \/ unit = "eeprom" /\ Backups!EepromNext /\ Still
  \/ unit = "clock" /\ Cartridge!ClockNext /\ Still
  \/ unit = "cartridge" /\ Cartridge!BackupNext /\ Still
  \/ unit = "video" /\ Video!Next /\ Still
  \/ unit = "blender" /\ Layers!PixelNext /\ Still
  \/ unit = "objects" /\ Layers!ObjectNext /\ Still
  \/ unit = "maps" /\ Layers!MapNext /\ Still

GbaSpec == GbaInit /\ [][GbaNext]_allVars
-----------------------------------------------------------------------------
(* The state of every part is well formed.                                 *)
GbaTypeOK ==
  /\ TypeOK
  /\ unit = "link" => Link!TypeOK
  /\ unit = "banks" => Registers!BanksTypeOK
  /\ unit = "block" => Registers!BlockTypeOK
  /\ unit = "alu" => Registers!AluTypeOK
  /\ unit = "flow" => Flow!FlowTypeOK
  /\ unit = "decode" => Flow!DecodeTypeOK
  /\ unit = "memory" => Bus!MemoryTypeOK
  /\ unit = "prefetch" => Bus!PrefetchTypeOK
  /\ unit = "dma" => Dma!TypeOK
  /\ unit = "fifo" => Sound!FifoTypeOK
  /\ unit = "psg" => Sound!PsgTypeOK
  /\ unit = "flash" => Backups!FlashTypeOK
  /\ unit = "eeprom" => Backups!EepromTypeOK
  /\ unit = "clock" => Cartridge!ClockTypeOK
  /\ unit = "cartridge" => Cartridge!BackupTypeOK
  /\ unit = "video" => Video!TypeOK
  /\ unit = "blender" => Layers!PixelTypeOK
  /\ unit = "objects" => Layers!ObjectTypeOK
  /\ unit = "maps" => Layers!MapTypeOK

(* Two linked units, whose games switch between the modes at will, build   *)
(* each round from the same words, and the barrier holds the parent.       *)
RoundsAgree == unit = "link" => Link!RoundAgreement /\ Link!ParentHeldAtBarrier

(* The CPU computes what its architecture says: results and flags, the     *)
(* registers of each mode, block transfers, the way back from every call   *)
(* and exception, and the instruction a word stands for.                   *)
CpuExact ==
  /\ unit = "banks" => Registers!BanksHold
  /\ unit = "block" => Registers!BlockIsContiguous /\ Registers!StackRestores
  /\ unit = "alu" => Registers!AluExact
  /\ unit = "flow" => Flow!ReturnsHome
  /\ unit = "decode" => Flow!DecodesByTheTable

(* What is stored is what is loaded, by every width, mirror and region,    *)
(* and a prefetched halfword never comes before the cartridge had it.      *)
MemoryCoherent ==
  /\ unit = "memory" => Bus!MemoryCoherent
  /\ unit = "prefetch" => Bus!NoFasterThanCartridge

(* DMA jobs go on where they stopped, sample streams play unbroken, and a  *)
(* sound channel that is on can be heard.                                  *)
StreamsUnbroken ==
  /\ unit = "dma" => Dma!JobKeepsItsPlace
  /\ unit = "fifo" => Sound!StreamUnbroken
  /\ unit = "psg" => Sound!OnCanSound

(* The chips of the cartridge: a save survives every restart, is marked    *)
(* when it changes, reads back as an EEPROM's, and the clock takes whole   *)
(* commands; and a Flash changes under an unlocked command only.           *)
ChipsKeep ==
  /\ unit = "flash" => Backups!UnsavedIsDirty
  /\ unit = "eeprom" => Backups!IsAMemory
  /\ unit = "clock" => Cartridge!CommandsAreWhole
  /\ unit = "cartridge" => Cartridge!SaveSurvivesRestart
BackupsKeep == [][ChipsKeep' /\ (unit = "flash" => Backups!CommandedChange)]_allVars

(* The picture: pixels as the beam saw the registers, references for the   *)
(* next line, the two front surfaces blended, each pixel its sprite, and   *)
(* each tile its place in the map.                                         *)
PictureExact ==
  /\ unit = "video" => Video!BeamExact /\ Video!ReferenceReconstructed
  /\ unit = "blender" => Layers!FrontTwo
  /\ unit = "objects" => Layers!PixelOwners
  /\ unit = "maps" => Layers!MapsAndPages
=============================================================================
