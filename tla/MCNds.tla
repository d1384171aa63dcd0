-------------------------------- MODULE MCNds --------------------------------
(***************************************************************************)
(* The DS's parts for TLC: the queues between its cores (which are inter-  *)
(* changeable model values), its memory and caches, the devices on its     *)
(* buses and the 3D engine.  `unit` says which of them a behaviour is      *)
(* about; `dev` is the state of every part but the queues.                 *)
(***************************************************************************)
EXTENDS Ipc, Integers, TLC

CONSTANTS
  arm9, arm7, Units,
  VramBanks, VramEnabled,             (* Banks and MaxEnabled of the video memory *)
  CacheSets, CacheWays, CacheLines,   (* Sets, Ways and Lines of the cache model *)
  DtcmBases, TcmFields

(* The banks are the nine there are; a cache has sets and ways; the data   *)
(* TCM is placed at a page.                                                *)
ASSUME NdsAssumption ==
  /\ VramBanks \subseteq 0 .. 8
  /\ CacheSets \in Nat \ {0} /\ CacheWays \in Nat \ {0} /\ CacheLines \in Nat
  /\ DtcmBases \subseteq Nat

VARIABLES unit, dev

CoreSymmetry == Permutations(Core)

Vram == INSTANCE NdsVram WITH vram <- dev, Banks <- VramBanks, MaxEnabled <- VramEnabled
Memory == INSTANCE NdsMemory WITH
  cache <- dev, Sets <- CacheSets, Ways <- CacheWays, Lines <- CacheLines, mem <- dev

Cart == INSTANCE NdsCart WITH
  card <- dev, Channels <- {0, 1}, Blocks <- {0, 3}, Latencies <- {1, 3}, Counts <- {2},
  MaxTime <- 4, MaxWrites <- 3,
  save <- dev, Digit <- 2, Chips <- {"tiny", "eeprom", "flash", "infrared"}, MaxStored <- 4
Spi == INSTANCE NdsSpi WITH
  spi <- dev, Size <- 2, Registers <- 1, Bytes <- {1, 2}, Pixels <- {<<128, 96>>},
  clock <- dev, Hours <- 4, Noon <- 2, FirstDay <- 10957, LastDay <- 12800, MaxTicks <- 1,
  Modes <- {24}

Stream == INSTANCE GpuStream WITH stream <- dev, Capacity <- 6, Pack <- 2, Values <- {0, 1}
Geometry == INSTANCE GpuGeometry WITH
  tri <- dev, Coords <- {-5, -2, 4}, Weights <- {3, 4}, Corners <- 3,
  geo <- dev, VertexRam <- 7, PolygonRam <- 2, Survivors <- {0, 3, 5}, MaxRun <- 6,
  MaxFrames <- 1,
  mtx <- dev, Depth <- 2, Shifts <- {1, 2}, MaxOps <- 5
Render == INSTANCE GpuRender WITH
  mesh <- dev, Width <- 7, Height <- 5, W <- 4, Xs <- {-4, -1, 4}, Ys <- {-4, 0, 4},
  scene <- dev, Columns <- {1}, Depths <- {1, 2, 3}, Far <- 9, MaxPolygons <- 3

Math == INSTANCE NdsMath WITH
  math <- dev, W <- 2, Cycles <- [short |-> 18, long |-> 34, root |-> 13]
Sound == INSTANCE NdsSound WITH
  sound <- dev, PerWord <- [pcm8 |-> 2, pcm16 |-> 1, adpcm |-> 2], Words <- {0, 1, 2},
  Grain <- 2, Steps <- {1, 3}, MaxSamples <- 8, MaxTouches <- 1
Wifi == INSTANCE NdsWifi WITH
  wifi <- dev, radio <- dev, CyclesPerSecond <- 3, Micros <- 2, BeaconMicros <- 3,
  PowerOnMicros <- 1, Counts <- {5}, MaxTime <- 10, MaxWrites <- 4, Indices <- {0, 1}, Fixed <- (0 :> 2), Values <- {0, 1}
Frame == INSTANCE NdsFrame WITH
  frame <- dev, blank <- dev, Lines <- 3, Height <- 2, Matches <- {2}, Counts <- {2},
  Steps <- {-1, 1}, MaxFrames <- 2, MaxWrites <- 3
Blank == INSTANCE NdsFrame WITH
  frame <- dev, blank <- dev, Lines <- 3, Height <- 2, Matches <- {2}, Counts <- {2},
  Steps <- {-1, 1}, MaxFrames <- 2, MaxWrites <- 2

DeviceInit ==
  \/ unit = "vram" /\ Vram!Init
  \/ unit = "cache" /\ Memory!CacheInit
  \/ unit = "memory" /\ Memory!MapInit
  \/ unit = "card" /\ Cart!CardInit
  \/ unit = "backup" /\ Cart!BackupInit
  \/ unit = "clock" /\ Spi!ClockInit
  \/ unit = "spi" /\ Spi!SpiInit
  \/ unit = "math" /\ Math!Init
  \/ unit = "sound" /\ Sound!Init
  \/ unit = "wifi" /\ Wifi!WifiInit
  \/ unit = "radio" /\ Wifi!RadioInit
  \/ unit = "frame" /\ Frame!FrameInit
  \/ unit = "blank" /\ Blank!BlankInit
  \/ unit = "stream" /\ Stream!Init
  \/ unit = "matrices" /\ Geometry!MatrixInit
  \/ unit = "assembly" /\ Geometry!AssemblyInit
  \/ unit = "clip" /\ Geometry!ClipInit
  \/ unit = "raster" /\ Render!RasterInit
  \/ unit = "pixels" /\ Render!PixelInit

NdsInit ==
  unit \in Units /\ Init /\ ((unit = "ipc" /\ dev = <<>>) \/ DeviceInit)

Still == UNCHANGED <<vars, unit>>

NdsNext ==
  \/ unit = "ipc" /\ Next /\ UNCHANGED <<unit, dev>>
  \/ unit = "vram" /\ Vram!Next /\ Still
  \/ unit = "cache" /\ Memory!CacheNext /\ Still
  \/ unit = "memory" /\ Memory!MapNext /\ Still
  \/ unit = "card" /\ Cart!CardNext /\ Still
  \/ unit = "backup" /\ Cart!BackupNext /\ Still
  \/ unit = "clock" /\ Spi!ClockNext /\ Still
  \/ unit = "spi" /\ Spi!SpiNext /\ Still
  \/ unit = "math" /\ Math!Next /\ Still
  \/ unit = "sound" /\ Sound!Next /\ Still
  \/ unit = "wifi" /\ Wifi!WifiNext /\ Still
  \/ unit = "radio" /\ Wifi!RadioNext /\ Still
  \/ unit = "frame" /\ Frame!FrameNext /\ Still
  \/ unit = "blank" /\ Blank!BlankNext /\ Still
  \/ unit = "stream" /\ Stream!Next /\ Still
  \/ unit = "matrices" /\ Geometry!MatrixNext /\ Still
  \/ unit = "assembly" /\ Geometry!AssemblyNext /\ Still
  \/ unit = "clip" /\ Geometry!ClipNext /\ Still
  \/ unit = "raster" /\ Render!RasterNext /\ Still
  \/ unit = "pixels" /\ Render!PixelNext /\ Still

NdsSpec == NdsInit /\ [][NdsNext]_<<vars, unit, dev>>
-----------------------------------------------------------------------------
(* The state of every part is well formed.                                 *)
NdsTypeOK ==
  /\ TypeOK
  /\ unit = "vram" => Vram!TypeOK
  /\ unit = "cache" => Memory!CacheTypeOK
  /\ unit = "memory" => Memory!MapTypeOK
  /\ unit = "card" => Cart!CardTypeOK
  /\ unit = "backup" => Cart!BackupTypeOK
  /\ unit = "clock" => Spi!ClockTypeOK
  /\ unit = "spi" => Spi!SpiTypeOK
  /\ unit = "math" => Math!TypeOK
  /\ unit = "sound" => Sound!TypeOK
  /\ unit = "wifi" => Wifi!WifiTypeOK
  /\ unit = "radio" => Wifi!RadioTypeOK
  /\ unit = "frame" => Frame!FrameTypeOK
  /\ unit = "blank" => Blank!BlankTypeOK
  /\ unit = "stream" => Stream!TypeOK
  /\ unit = "matrices" => Geometry!MatrixTypeOK
  /\ unit = "assembly" => Geometry!AssemblyTypeOK
  /\ unit = "clip" => Geometry!ClipTypeOK
  /\ unit = "raster" => Render!RasterTypeOK
  /\ unit = "pixels" => Render!PixelTypeOK

(* An address is one cell, whichever bank, mirror, TCM or image it is      *)
(* reached by, and a cache holds each line once.                           *)
CellsHaveOneOwner ==
  /\ unit = "vram" => Vram!BanksHaveOneUse /\ Vram!ImageIsTheMap
  /\ unit = "cache" => Memory!CacheIsASet
  /\ unit = "memory" => Memory!StoresHaveOneOwner

(* The chips and units a program asks: dates agree with the calendar,      *)
(* backups read back what was stored and are marked, transactions are      *)
(* whole, a block of the gamecard is read once by a channel that waited    *)
(* for it, divisions and roots are exact, notes keep their place through   *)
(* their loops, a Wi-Fi cause reaches the ARM7, and a channel that waits   *)
(* for blanks is at its table's entry of this one.                         *)
ChipsKeep ==
  /\ unit = "clock" => Spi!CalendarsAgree
  /\ unit = "backup" => Cart!RecordsReadBack
  /\ unit = "spi" => Spi!TransactionsAreWhole
  /\ unit = "card" => Cart!WordsOnce
  /\ unit = "math" => Math!DivisionIsExact /\ Math!RootIsFloor
  /\ unit = "sound" => Sound!StartBitIsStatus /\ Sound!NotesKeepTheirPlace
  /\ unit = "wifi" => Wifi!CausesReachTheCpu /\ Wifi!CountsMicroseconds
  /\ unit = "blank" => Blank!TablesKeepStep
StepsKeep ==
  /\ unit = "backup" => Cart!MarkedStep
  /\ unit = "card" => Cart!DrainStep
ChipsAnswer == [][ChipsKeep' /\ StepsKeep]_<<vars, unit, dev>>

(* From the command stream to clipped polygons: commands as they were      *)
(* sent, matrices in step, strips wound one way, survivors in the view.    *)
GeometryIsBuilt ==
  /\ unit = "stream" => Stream!CommandsAsSent
  /\ unit = "matrices" => Geometry!MatricesAgree
  /\ unit = "assembly" => Geometry!StripsAreOriented
  /\ unit = "clip" => Geometry!SurvivorsAreInside

(* From polygons to the row: a mesh has no seams, a picture of opaque      *)
(* polygons does not hang on the order they were sent in, and shadows fall *)
(* where the mask says; and the screen has the frame sealed last.          *)
PixelsAreDrawn ==
  /\ unit = "raster" => Render!NoSeams
  /\ unit = "pixels" => Render!OrderFree /\ Render!ShadowsFall
  /\ unit = "frame" => Frame!NewestFrameShown

(* raster.rs: polygons in front of the view fill it, its last row too.     *)
ViewIsCovered == unit = "raster" => Render!ViewIsCovered

(* wifi.rs: beacons come at one cadence while the counter runs.            *)
OneBeaconChain == unit = "wifi" => Wifi!OneBeaconChain
=============================================================================
