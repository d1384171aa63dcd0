------------------------------ MODULE NdsVram -------------------------------
(***************************************************************************)
(* The DS video memory (nds/src/vram.rs): nine banks that VRAMCNT routes   *)
(* to the processors' address maps, to the two 2D engines, to the extended *)
(* palettes and to the 3D textures.  Addresses and sizes are in blocks of  *)
(* 16 KB above 0x0600_0000.                                                *)
(***************************************************************************)
EXTENDS Integers, FiniteSets

CONSTANTS
  Banks,      (* the banks that are tried, of 0 (A) .. 8 (I) *)
  MaxEnabled  (* bound: banks enabled at once *)

VARIABLE
  vram  (* for each bank its control: [on, mst, ofs] *)

Size == [b \in 0 .. 8 |-> IF b < 4 THEN 8 ELSE IF b = 4 THEN 4 ELSE IF b = 7 THEN 2 ELSE 1]
LcdcBase == [b \in 0 .. 8 |->
               512 + (IF b < 5 THEN 8 * b ELSE <<36, 37, 38, 40>>[b - 4])]

Off == [on |-> FALSE, mst |-> 0, ofs |-> 0]
Init == vram = [b \in Banks |-> Off]

SetControl ==
  \E b \in Banks :
    \/ vram' = [vram EXCEPT ![b] = Off]
    \/ /\ Cardinality({c \in Banks \ {b} : vram[c].on}) < MaxEnabled
       /\ \E mst \in 0 .. 7, ofs \in 0 .. 3 :
            vram' = [vram EXCEPT ![b] = [on |-> TRUE, mst |-> mst, ofs |-> ofs]]

Next == SetControl
Spec == Init /\ [][Next]_vram
-----------------------------------------------------------------------------
None == -1
Routed(mst) == {b \in Banks : vram[b].on /\ vram[b].mst = mst}

(* mapped_range: where a core's address map holds the bank.                *)
Arm7Base(b) == IF b \in {2, 3} /\ b \in Routed(2) THEN 8 * (vram[b].ofs % 2) ELSE None

BackgroundBase(b, ofs) ==
  CASE b < 4 -> 8 * ofs
    [] b = 4 -> 0
    [] b \in {5, 6} -> (ofs % 2) + 4 * (ofs \div 2)
    [] b = 7 -> 128
    [] b = 8 -> 130

(* Mutant: the processor that has lost C and D keeps seeing them as OBJ.   *)
ObjectBaseShared(b, ofs) ==
  CASE b \in 0 .. 3 -> 256 + 8 * (ofs % 2)
    [] b = 4 -> 256
    [] b \in {5, 6} -> 256 + (ofs % 2) + 4 * (ofs \div 2)
    [] b = 8 -> 384
    [] OTHER -> None

ObjectBase(b, ofs) ==
  CASE b \in {0, 1} -> 256 + 8 * (ofs % 2)
    [] b = 4 -> 256
    [] b \in {5, 6} -> 256 + (ofs % 2) + 4 * (ofs \div 2)
    [] b = 8 -> 384
    [] OTHER -> None

Arm9Base(b) ==
  LET c == vram[b]
  IN  IF ~c.on THEN None
      ELSE CASE c.mst = 0 -> LcdcBase[b]
             [] c.mst = 1 -> BackgroundBase(b, c.ofs)
             [] c.mst = 2 -> ObjectBase(b, c.ofs)
             [] c.mst = 4 /\ b = 2 -> 128
             [] c.mst = 4 /\ b = 3 -> 384
             [] OTHER -> None

Base(core, b) == IF core = "arm7" THEN Arm7Base(b) ELSE Arm9Base(b)

Mapped(core, at) ==
  {b \in Banks : Base(core, b) # None /\ at \in Base(core, b) .. Base(core, b) + Size[b] - 1}

Lowest(s) == CHOOSE b \in s : \A c \in s : b <= c
Highest(s) == CHOOSE b \in s : \A c \in s : b >= c

(* resolve: the lowest bank there, and the block within it.                *)
Resolve(core, at) ==
  LET s == Mapped(core, at)
  IN  IF s = {} THEN <<>> ELSE <<Lowest(s), at - Base(core, Lowest(s))>>

(* assemble_region: bank after bank is copied in where its base is inside, *)
(* so that the highest remains.                                            *)
Assembled(lo, hi, at) ==
  LET s == {b \in Mapped("arm9", at) : Arm9Base(b) \in lo .. hi - 1}
  IN  IF s = {} THEN <<>> ELSE <<Highest(s), at - Arm9Base(Highest(s))>>

Regions == {<<0, 32>>, <<256, 272>>, <<128, 136>>, <<384, 392>>}

(* What is read past the address map: the extended palettes of the two     *)
(* engines, the texture image and its palette.                             *)
Consumers ==
  [bg_ext_a |-> Routed(4) \cap {4, 5, 6},
   obj_ext_a |-> Routed(5) \cap {5, 6},
   bg_ext_b |-> Routed(2) \cap {7},
   obj_ext_b |-> Routed(3) \cap {8},
   texture_image |-> Routed(3) \cap 0 .. 3,
   texture_palette |-> Routed(3) \cap {4, 5, 6}]

VramStat == Routed(2) \cap {2, 3}
-----------------------------------------------------------------------------
TypeOK == \A b \in Banks : vram[b] \in [on : BOOLEAN, mst : 0 .. 7, ofs : 0 .. 3]

(* A bank has one use: no two of the ARM9's map, the ARM7's map and the    *)
(* consumers that read past them see it, and VRAMSTAT names exactly the    *)
(* banks the ARM7 has.                                                     *)
BanksHaveOneUse ==
  /\ \A b \in Banks :
       LET cpu == {core \in {"arm7", "arm9"} : Base(core, b) # None}
           other == {u \in DOMAIN Consumers : b \in Consumers[u]}
       IN  Cardinality(cpu) + Cardinality(other) <= 1
  /\ VramStat = {b \in Banks : Arm7Base(b) # None}

(* Where banks do not overlap, an engine's image is what the ARM9 sees at  *)
(* the region's addresses, block for block.                                *)
ImageIsTheMap ==
  \A r \in Regions : \A at \in r[1] .. r[2] - 1 :
    Cardinality(Mapped("arm9", at)) <= 1 => Assembled(r[1], r[2], at) = Resolve("arm9", at)
=============================================================================
