------------------------------- MODULE GbaBus -------------------------------
(***************************************************************************)
(* The GBA's bus: what a store and a load reach, by width and region       *)
(* (crates/gba/src/bus.rs), and the cartridge's prefetch buffer            *)
(* (prefetch.rs).                                                          *)
(***************************************************************************)
EXTENDS Integers, Sequences

(* Loads and stores of the ARM core (crates/arm/src/cpu/mod.rs, thumb.rs   *)
(* through the GBA's bus (crates/gba/src/bus.rs): alignment, rotation and  *)
(* sign of misaligned accesses, mirrors, the widths each memory takes, the *)
(* 8-bit backup bus, what lies beyond the ROM, and who may reach it. A     *)
(* question is a store and the load after it. Sizes are scaled down, 8K to *)
(* a byte for VRAM; a byte is a tag, the cell it came from or the lane of  *)
(* the register it is stored from.                                         *)
VARIABLE access  (* idle, or a region, a store and a load *)

Widths == {1, 2, 4}
Regions == {"ewram", "palette", "vram", "oam", "sram", "rom"}
Masters == {"cpu", "dma0", "dma3"}

Size(region) == CASE region = "vram" -> 12 [] region = "rom" -> 6 [] OTHER -> 8
Span(region) == IF region = "vram" THEN 0 .. 31 ELSE 0 .. 15

Align(a, width) == a - (a % width)

(* Mutant: VRAM's mirror is of its first block. *)
VramOffsetFirst(a) == IF a % 16 >= 12 THEN (a % 16) - 12 ELSE a % 16

(* vram_offset: the window's last quarter is the quarter before it. *)
VramOffset(a) == IF a % 16 >= 12 THEN (a % 16) - 4 ELSE a % 16

(* The cell behind an address of a RAM; the backup is not masked here.     *)
Cell(region, a) ==
  CASE region = "vram" -> VramOffset(a)
    [] region \in {"sram", "rom"} -> a
    [] OTHER -> a % Size(region)

Old(a) == <<"old", a>>
New(lane) == <<"new", lane>>
Beyond(a) == <<"beyond", a>>   (* a lane of the address of its halfword *)
Open(a) == <<"open", a % 4>>   (* a lane of the open bus *)

(* Memory as it is before the store. *)
Cells(region) == [a \in IF region = "sram" THEN Span(region) ELSE 0 .. Size(region) - 1 |-> Old(a)]

RomAccessible(master) == master \in {"cpu", "dma3"}
SramAccessible(master) == master = "cpu"

Put(mem, from, lanes) ==
  [a \in DOMAIN mem |-> IF a - from \in 0 .. Len(lanes) - 1 THEN lanes[a - from + 1] ELSE mem[a]]

Lanes(width) == [i \in 1 .. width |-> New(i - 1)]

(* Bus::write, by region; the address comes as the core has it. *)
BusWrite(region, mem, a, width, master) ==
  LET to == Cell(region, Align(a, width))
  IN  CASE region = "ewram" -> Put(mem, to, Lanes(width))
        [] region \in {"palette", "vram"} ->
             IF width = 1 THEN Put(mem, Align(to, 2), <<New(0), New(0)>>)
             ELSE Put(mem, to, Lanes(width))
        [] region = "oam" -> IF width = 1 THEN mem ELSE Put(mem, to, Lanes(width))
        [] region = "sram" ->
             IF SramAccessible(master) THEN Put(mem, a, <<New(a % width)>>) ELSE mem
        [] region = "rom" -> mem

(* Bus::read, lanes from the lowest. *)
BusRead(region, mem, address, width, master) ==
  LET a == Align(address, width)
      from == Cell(region, a)
      open == [i \in 1 .. width |-> Open(a + i - 1)]
  IN  CASE region = "sram" ->
             IF SramAccessible(master) THEN [i \in 1 .. width |-> mem[a]] ELSE open
        [] region = "rom" ->
             IF ~RomAccessible(master) THEN open
             ELSE IF from + width > Size("rom") THEN [i \in 1 .. width |-> Beyond(a + i - 1)]
             ELSE [i \in 1 .. width |-> mem[from + i - 1]]
        [] OTHER -> [i \in 1 .. width |-> mem[from + i - 1]]

RotateRight(lanes, n) == [i \in DOMAIN lanes |-> lanes[((i - 1 + n) % Len(lanes)) + 1]]
Zero == <<"zero">>
SignOf(lane) == <<"sign", lane>>
Extended(lanes, fill) == [i \in 1 .. 4 |-> IF i <= Len(lanes) THEN lanes[i] ELSE fill]
Signed(lanes) == Extended(lanes, SignOf(lanes[Len(lanes)]))

(* execute_single_transfer, execute_halfword_transfer, thumb_load_store    *)
(* and thumb_sign_extended: what a load leaves in the register.            *)
Loads == {"ldr", "ldrb", "ldrh", "ldrsb", "ldrsh"}
CpuLoad(op, region, mem, a) ==
  LET read(b, width) == BusRead(region, mem, b, width, "cpu")
  IN  CASE op = "ldr"   -> RotateRight(read(Align(a, 4), 4), a % 4)
        [] op = "ldrb"  -> Extended(read(a, 1), Zero)
        [] op = "ldrh"  -> RotateRight(Extended(read(Align(a, 2), 2), Zero), a % 2)
        [] op = "ldrsb" -> Signed(read(a, 1))
        [] op = "ldrsh" -> IF a % 2 = 1 THEN Signed(read(a, 1)) ELSE Signed(read(a, 2))
-----------------------------------------------------------------------------
Idle == [at |-> "idle"]
Questions ==
  UNION {[at : {"asked"}, region : {region}, to : Span(region), width : Widths, by : Masters,
          from : Span(region)] : region \in Regions}

MemoryInit == access = Idle
Ask == access = Idle /\ access' \in Questions
Answer == access # Idle /\ access' = Idle
MemoryNext == Ask \/ Answer
-----------------------------------------------------------------------------
MemoryTypeOK == access.at \in {"idle", "asked"}

After(q) == BusWrite(q.region, Cells(q.region), q.to, q.width, q.by)
Byte(q, a) == BusRead(q.region, After(q), a, 1, "cpu")[1]

(* Aligned accesses of one cell through any mirror and of any width see    *)
(* one memory: a wider read is its bytes, a store is what the bytes at its *)
(* place are afterwards, and nothing else has changed.                     *)
SameCell(region, a, b) ==
  IF region = "vram" THEN \/ a % 16 = b % 16
                          \/ \E c \in 8 .. 11 : {a % 16, b % 16} = {c, c + 4}
  ELSE a % Size(region) = b % Size(region)

WidthsAgree(q) ==
  q.region # "sram" =>
    \A width \in Widths :
      LET a == Align(q.from, width)
          beyond == q.region = "rom" /\ a + width > Size("rom")
      IN  BusRead(q.region, After(q), a, width, "cpu") =
            [i \in 1 .. width |-> IF beyond THEN Beyond(a + i - 1) ELSE Byte(q, a + i - 1)]

StoresLand(q) ==
  q.region \in {"ewram", "palette", "vram", "oam"} =>
    LET doubled == q.width = 1 /\ q.region \in {"palette", "vram"}
        at == Align(q.to, IF doubled THEN 2 ELSE q.width)
        hit == IF q.region = "oam" /\ q.width = 1 THEN {}
               ELSE {i \in 0 .. (IF doubled THEN 1 ELSE q.width - 1) : SameCell(q.region, at + i, q.from)}
    IN  /\ \A i \in hit : Byte(q, q.from) = New(IF doubled THEN 0 ELSE i)
        /\ hit = {} => \E b \in Span(q.region) :
                         SameCell(q.region, b, q.from) /\ Byte(q, q.from) = Old(b)

(* The backup keeps one byte of a wide store, the one the address selects, *)
(* at that address; DMA neither reads nor writes it.                       *)
BackupIsBytes(q) ==
  q.region = "sram" =>
    Byte(q, q.from) = IF q.from = q.to /\ q.by = "cpu" THEN New(q.to % q.width) ELSE Old(q.from)

(* A misaligned load has the byte at its address lowest, and a sign is the *)
(* sign of the highest byte that was read.                                 *)
LoadsStartAtTheAddress(q) ==
  q.region \in {"ewram", "palette", "oam"} =>
    /\ \A op \in Loads : CpuLoad(op, q.region, After(q), q.from)[1] = Byte(q, q.from)
    /\ \A op \in {"ldrsb", "ldrsh"} :
         LET r == CpuLoad(op, q.region, After(q), q.from)
         IN  \E i \in {1, 2} : r[3] = SignOf(r[i]) /\ r[4] = r[3]

MemoryCoherent ==
  access # Idle => /\ WidthsAgree(access) /\ StoresLand(access)
                   /\ BackupIsBytes(access) /\ LoadsStartAtTheAddress(access)
-----------------------------------------------------------------------------
(* The GamePak's prefetch buffer (prefetch.rs) under the accesses of the   *)
(* CPU (bus.rs prefetch_code_cost, rom_cycles; CpuBus in system.rs). An    *)
(* address counts halfwords of the cartridge.                              *)
CONSTANTS
  Capacity,       (* halfwords the buffer holds; 8 in the code             *)
  SeqWait,            (* cycles of a sequential cartridge access               *)
  Addresses,      (* places a program branches to                          *)
  MaxElapsed      (* cycles of one stream that are followed                *)

VARIABLE
  prefetch  (* [enabled, head, count, countdown, waits, pc]; and history:  *)
            (* stream, that a fetch has begun one since prefetch was turned*)
            (* on, start, the first address it read ahead, and elapsed, the*)
            (* cycles the cartridge has had for it                         *)

PrefetchInit ==
  prefetch = [enabled |-> FALSE, head |-> 0, count |-> 0, countdown |-> 0, waits |-> 0, pc |-> 0,
              stream |-> FALSE, start |-> 0, elapsed |-> 0]

Far(p) == p.head + p.count

Lesser(a, b) == IF a < b THEN a ELSE b

(* step: the halfwords that idle cycles complete, up to the capacity.      *)
Stepped(p, idle) ==
  IF ~p.enabled \/ p.waits = 0 THEN p
  ELSE LET done == IF idle < p.countdown THEN 0
                   ELSE Lesser(1 + ((idle - p.countdown) \div p.waits), Capacity - p.count)
           left == idle - (IF done = 0 THEN 0 ELSE p.countdown + (done - 1) * p.waits)
       IN  [p EXCEPT !.count = @ + done, !.elapsed = @ + idle,
                     !.countdown = IF p.count + done = Capacity THEN (IF done = 0 THEN @ ELSE p.waits)
                                   ELSE (IF done = 0 THEN @ ELSE p.waits) - left]

(* Mutant: a forward branch keeps the halfwords that it skips.             *)
AccessKeepsSkipped(p, addr) ==
  IF addr >= p.head /\ addr < Far(p)
  THEN [p EXCEPT !.waits = SeqWait, !.head = addr + 1, !.count = @ - 1]
  ELSE [p EXCEPT !.waits = SeqWait, !.head = addr + 1, !.count = 0, !.countdown = SeqWait,
                 !.stream = TRUE, !.start = addr + 1, !.elapsed = 0]

(* access: in the buffer, one cycle; the halfword in flight, what is left  *)
(* of it; anywhere else, a new stream.                                     *)
Access(p, addr) ==
  IF addr = p.head /\ p.count = 0
  THEN LET cost == IF p.countdown > 1 THEN p.countdown ELSE 1
       IN  [p EXCEPT !.waits = SeqWait, !.head = @ + 1, !.countdown = SeqWait,
                     !.elapsed = @ + cost]
  ELSE IF addr >= p.head /\ addr < Far(p)
  THEN [p EXCEPT !.waits = SeqWait, !.head = addr + 1, !.count = Far(p) - addr - 1]
  ELSE [p EXCEPT !.waits = SeqWait, !.head = addr + 1, !.count = 0, !.countdown = SeqWait,
                 !.stream = TRUE, !.start = addr + 1, !.elapsed = 0]

(* prefetch_code_cost: a word is two halfwords.                            *)
CodeFetched(p, addr, word) ==
  LET first == Access(p, addr)
  IN  IF word THEN Access(first, addr + 1) ELSE first

(* on_cart_data_access drops the buffer; the stream goes on from the head. *)
CartData(p) ==
  [p EXCEPT !.count = 0, !.countdown = IF p.waits > 0 THEN p.waits ELSE @,
            !.start = p.head, !.elapsed = 0]

SetEnabled(p, on) ==
  IF on THEN [p EXCEPT !.enabled = TRUE, !.stream = @ /\ p.enabled]
  ELSE [p EXCEPT !.enabled = FALSE, !.count = 0, !.countdown = 0, !.stream = FALSE]
-----------------------------------------------------------------------------
(* The CPU fetches on, or from where it branches to; without prefetch the  *)
(* cartridge is read as it is.                                             *)
Fetch ==
  \E addr \in {prefetch.pc} \cup Addresses, word \in BOOLEAN :
    /\ prefetch.elapsed < MaxElapsed
    /\ addr <= MaxElapsed
    /\ LET f == IF prefetch.enabled THEN CodeFetched(prefetch, addr, word) ELSE prefetch
       IN  prefetch' = [f EXCEPT !.pc = addr + (IF word THEN 2 ELSE 1)]

(* An internal cycle, or data that is not the cartridge's.                 *)
Internal ==
  \E n \in 1 .. 2 * SeqWait + 1 :
    prefetch.elapsed < MaxElapsed /\ prefetch' = Stepped(prefetch, n)

(* A data access to the cartridge, with the buffer enabled or not.         *)
DataOnCartridge == prefetch' = CartData(prefetch)

WriteWaitcnt == \E on \in BOOLEAN : prefetch' = SetEnabled(prefetch, on)

PrefetchNext == Fetch \/ Internal \/ DataOnCartridge \/ WriteWaitcnt
-----------------------------------------------------------------------------
PrefetchTypeOK == /\ prefetch.count \in 0 .. Capacity /\ prefetch.countdown \in 0 .. SeqWait
          /\ prefetch.waits \in {0, SeqWait}

(* The buffer never holds, and never hands out, a halfword sooner than the *)
(* cartridge could have sent it: of the stream's cycles each halfword past *)
(* its start took a sequential access, and the one in flight its part.     *)
NoFasterThanCartridge ==
  prefetch.enabled /\ prefetch.stream =>
    (Far(prefetch) - prefetch.start) * SeqWait + (SeqWait - prefetch.countdown) <= prefetch.elapsed
-----------------------------------------------------------------------------
Init == MemoryInit /\ PrefetchInit
Next == (MemoryNext /\ UNCHANGED prefetch) \/ (PrefetchNext /\ UNCHANGED access)
Spec == Init /\ [][Next]_<<access, prefetch>>
=============================================================================
