----------------------------- MODULE NdsMemory ------------------------------
(***************************************************************************)
(* The DS's memory as the processors reach it: the address maps            *)
(* (nds/src/memory.rs, cp15.rs, bus.rs) and the ARM9's cache model         *)
(* (icache.rs).                                                            *)
(***************************************************************************)
EXTENDS Integers

(* The DS address maps (nds/src/memory.rs, cp15.rs, bus.rs): the store and *)
(* the offset that an access of one processor reaches, under WRAMCNT and   *)
(* the ARM9's system control. Addresses are in pages of 4 KB, of which     *)
(* there are 2^20.                                                         *)
CONSTANTS
  DtcmBases,  (* pages the data TCM is placed at *)
  TcmFields   (* values of a TCM register's five-bit size field, 3 and more *)

VARIABLE
  mem  (* [wramcnt, control, itcm, dtcm, base] *)

Cores == {"arm7", "arm9"}
Pages == 2 ^ 20
Controls == SUBSET {"itcm", "dtcm"}

MapInit == mem = [wramcnt |-> 0, control |-> {}, itcm |-> 3, dtcm |-> 3, base |-> 0]

(* The ARM9's write of WRAMCNT; its transfers to c1, c9,c1,0 and c9,c1,1.  *)
WriteWramcnt == \E v \in 0 .. 3 : mem' = [mem EXCEPT !.wramcnt = v]
WriteControl == \E c \in Controls : mem' = [mem EXCEPT !.control = c]
WriteItcm == \E n \in TcmFields : mem' = [mem EXCEPT !.itcm = n]
WriteDtcm == \E n \in TcmFields, b \in DtcmBases : mem' = [mem EXCEPT !.dtcm = n, !.base = b]

MapNext == WriteWramcnt \/ WriteControl \/ WriteItcm \/ WriteDtcm
-----------------------------------------------------------------------------
(* tcm_virtual_size: 512 shifted left in 32 bits; the bits shifted out are *)
(* lost.                                                                   *)
TcmSize(n) == IF n <= 22 THEN 2 ^ (n - 3) ELSE 0

Nowhere == [slot |-> "none", offset |-> 0]
At(slot, offset) == [slot |-> slot, offset |-> offset]

InItcm(addr) == "itcm" \in mem.control /\ addr < TcmSize(mem.itcm)

InDtcm(addr) ==
  /\ "dtcm" \in mem.control
  /\ mem.base <= addr
  /\ addr < (mem.base + TcmSize(mem.dtcm)) % Pages

(* Mutant: the halves of the shared memory are not exchanged for the ARM7. *)
SharedAllocSame(core) ==
  CASE mem.wramcnt = 0 -> IF core = "arm9" THEN [base |-> 0, len |-> 8] ELSE [base |-> 0, len |-> 0]
    [] mem.wramcnt = 1 -> [base |-> 4, len |-> 4]
    [] mem.wramcnt = 2 -> [base |-> 0, len |-> 4]
    [] mem.wramcnt = 3 -> IF core = "arm7" THEN [base |-> 0, len |-> 8] ELSE [base |-> 0, len |-> 0]

(* shared_alloc: the core's part of the 32 KB that WRAMCNT splits.         *)
SharedAlloc(core) ==
  LET first == [base |-> 0, len |-> 4]
      second == [base |-> 4, len |-> 4]
      whole == [base |-> 0, len |-> 8]
      part == CASE mem.wramcnt = 0 -> [arm9 |-> whole, arm7 |-> [base |-> 0, len |-> 0]]
                [] mem.wramcnt = 1 -> [arm9 |-> second, arm7 |-> first]
                [] mem.wramcnt = 2 -> [arm9 |-> first, arm7 |-> second]
                [] mem.wramcnt = 3 -> [arm9 |-> [base |-> 0, len |-> 0], arm7 |-> whole]
  IN  part[core]

MapWram(core, addr) ==
  LET a == SharedAlloc(core)
  IN  IF core = "arm7" /\ (addr >= 14336 \/ a.len = 0) THEN At("arm7_wram", addr % 16)
      ELSE IF a.len = 0 THEN Nowhere
      ELSE At("shared", a.base + (addr % a.len))

(* map: the ARM9's TCMs before the rest, the data TCM not for instructions.*)
Tcm(core, addr, instruction) ==
  CASE core = "arm9" /\ InItcm(addr) -> At("itcm", addr % 8)
    [] core = "arm9" /\ ~InItcm(addr) /\ InDtcm(addr) /\ ~instruction ->
         At("dtcm", (addr - mem.base) % 4)
    [] OTHER -> Nowhere

MainMap(core, addr) ==
  LET region == addr \div 4096
  IN  CASE region = 2 -> At("main", addr % 1024)
        [] region = 3 -> MapWram(core, addr)
        [] region = 5 /\ core = "arm9" -> At("palette", 0)
        [] region = 7 /\ core = "arm9" -> At("oam", 0)
        [] region = 0 /\ core = "arm7" -> At("arm7_bios", addr % 4)
        [] core = "arm9" /\ addr >= Pages - 16 -> At("arm9_bios", addr % 8)
        [] OTHER -> Nowhere

Map(core, addr, instruction) ==
  LET tcm == Tcm(core, addr, instruction)
  IN  IF tcm # Nowhere THEN tcm ELSE MainMap(core, addr)

(* read and write of the bus: registers and video memory before the map.   *)
Reached(core, addr, instruction) ==
  CASE addr \div 4096 = 4 -> At("io", 0)
    [] addr \div 4096 = 6 -> At("vram", 0)
    [] OTHER -> Map(core, addr, instruction)

Probes ==
  {0, 7, 8} \cup (8192 .. 8194) \cup (12288 .. 12304) \cup (14336 .. 14340)
    \cup {16384, 20480, 24576, 28672, Pages - 16, Pages - 1} \cup {b : b \in DtcmBases}
-----------------------------------------------------------------------------
Low == 12288 .. 12303  (* the first pages the shared memory is seen at *)
Hidden == \E a \in Low : InItcm(a) \/ InDtcm(a)
Reach(core) == {Reached(core, a, i) : a \in Probes, i \in BOOLEAN}

MapTypeOK == mem.wramcnt \in 0 .. 3 /\ mem.control \in Controls

(* With the TCMs off the low window, each of the eight pages of the shared *)
(* memory is reached by exactly one processor, and through the TCMs no     *)
(* processor reaches what is the other's: stores that are shared are the   *)
(* main memory alone.                                                      *)
StoresHaveOneOwner ==
  /\ \A x \in Reach("arm7") \cap Reach("arm9") : x.slot \in {"main", "io", "vram", "none"}
  /\ ~Hidden =>
       \A k \in 0 .. 7 :
         \E core \in Cores : \E a \in Low : Reached(core, a, FALSE) = At("shared", k)
  /\ \A a \in Probes : Reached("arm9", a, TRUE).slot # "dtcm"

(* cp15.rs:238-239 says a size field past the top saturates, so that a     *)
(* larger field never gives a smaller TCM; the shift loses the bits.       *)
TcmSizeGrows == \A m, n \in TcmFields : m <= n => TcmSize(m) <= TcmSize(n)
-----------------------------------------------------------------------------
(* The ARM9's cache model (nds/src/icache.rs): which lines are resident,   *)
(* for timing only. Reads install a line in its set's round-robin victim,  *)
(* writes only probe, and the line of the last read is answered without a  *)
(* look at the set.                                                        *)
CONSTANTS
  Sets, Ways,  (* 64 or 32 sets of four ways in the code *)
  Lines        (* bound: the memory has this many lines *)

VARIABLE
  cache  (* [tags, victim, last, hit]: hit is the answer to the last access *)

Invalid == -1

CacheInit ==
  cache = [tags |-> [s \in 0 .. Sets - 1 |-> [w \in 0 .. Ways - 1 |-> Invalid]],
           victim |-> [s \in 0 .. Sets - 1 |-> 0], last |-> Invalid, hit |-> FALSE]

SetOf(line) == line % Sets
Resident(line) == \E w \in 0 .. Ways - 1 : cache.tags[SetOf(line)][w] = line

(* contains: a write's probe.                                              *)
Contains(line) == cache' = [cache EXCEPT !.hit = Resident(line)]

(* Mutant: a line is installed without being looked for in the set. *)
AccessBlind(line) ==
  LET s == SetOf(line)  v == cache.victim[s]
  IN  cache' = IF line = cache.last THEN [cache EXCEPT !.hit = TRUE]
               ELSE [cache EXCEPT !.tags[s][v] = line, !.victim[s] = (v + 1) % Ways,
                                  !.last = line, !.hit = FALSE]

(* access: a read's.                                                       *)
Access(line) ==
  LET s == SetOf(line)  v == cache.victim[s]
  IN  \/ line = cache.last /\ cache' = [cache EXCEPT !.hit = TRUE]
      \/ /\ line # cache.last
         /\ cache' = IF Resident(line) THEN [cache EXCEPT !.last = line, !.hit = TRUE]
                     ELSE [cache EXCEPT !.tags[s][v] = line, !.victim[s] = (v + 1) % Ways,
                                        !.last = line, !.hit = FALSE]

CacheNext == \E line \in 0 .. Lines - 1 : Access(line) \/ Contains(line)
-----------------------------------------------------------------------------
CacheTypeOK == \A s \in 0 .. Sets - 1 : cache.victim[s] \in 0 .. Ways - 1

(* Every line sits in one way of its own set; the line answered from       *)
(* memory is resident, so that the short cut never says hit where the set  *)
(* would say miss.                                                         *)
CacheIsASet ==
  /\ \A s \in 0 .. Sets - 1, w, x \in 0 .. Ways - 1 :
       cache.tags[s][w] # Invalid =>
         SetOf(cache.tags[s][w]) = s /\ (cache.tags[s][w] = cache.tags[s][x] => w = x)
  /\ cache.last # Invalid => Resident(cache.last)
-----------------------------------------------------------------------------
Init == MapInit /\ CacheInit
Next == (MapNext /\ UNCHANGED cache) \/ (CacheNext /\ UNCHANGED mem)
Spec == Init /\ [][Next]_<<mem, cache>>
=============================================================================
