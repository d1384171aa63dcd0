---------------------------- MODULE RenderLayers ----------------------------
(***************************************************************************)
(* The layers of the shared 2D renderer (crates/video2d): the objects of a *)
(* line, where the backgrounds read, and how the layers become a pixel.    *)
(***************************************************************************)
EXTENDS Integers, FiniteSets, Sequences

(* The object line of the shared 2D renderer (video2d/src/obj): which      *)
(* sprites lie on a scanline and fit its budget (evaluate.rs), and which   *)
(* of them owns each pixel (rasterize.rs), with coordinates that wrap,     *)
(* flips, rotation boxes, mosaic and object windows. Texel addressing is   *)
(* left out: a sprite's picture is the set of its opaque columns.          *)
CONSTANTS
  Count,          (* OAM entries: 128 in the code *)
  Width,          (* of the screen *)
  XSpan, YSpan,   (* 512 and 256: coordinates are modulo these *)
  Budget,         (* of a line; an affine sprite pays its setup and twice its width *)
  Setup,
  MosaicX         (* the width of a mosaic block *)

VARIABLE
  oam  (* the entries, [x, y, size, affine, bit9, mode, priority, flip,    *)
       (* mosaic, opaque] each *)

Indices == 1 .. Count
Modes == {"normal", "semi", "window", "prohibited"}
Sizes == {1, 2}

Hidden == [x |-> 0, y |-> 0, size |-> 1, affine |-> 0, bit9 |-> TRUE, mode |-> "normal",
           priority |-> 0, flip |-> FALSE, mosaic |-> FALSE, opaque |-> {0}]

ObjectInit == oam = [i \in Indices |-> Hidden]

(* A stored sprite: affine is 0 for a plain one, else PA of its matrix.    *)
Store ==
  \E i \in Indices, p \in {0, 1} :
    \/ \E x \in {0, Width - 1, XSpan - 1}, size \in Sizes, flip \in BOOLEAN, b \in BOOLEAN :
         oam' = [oam EXCEPT ![i] = [Hidden EXCEPT !.x = x, !.size = size, !.priority = p,
                                                  !.flip = flip, !.bit9 = b]]
    \/ \E pa \in {-1, 1, 2}, b \in BOOLEAN :
         oam' = [oam EXCEPT ![i] = [Hidden EXCEPT !.x = 1, !.size = 2, !.affine = pa,
                                                  !.bit9 = b, !.priority = p]]
    \/ \E mode \in Modes, m \in BOOLEAN, y \in {0, YSpan - 1} :
         oam' = [oam EXCEPT ![i] = [Hidden EXCEPT !.size = 2, !.mode = mode, !.mosaic = m, !.y = y,
                                                  !.bit9 = FALSE, !.priority = p, !.opaque = {1}]]

ObjectNext == Store
-----------------------------------------------------------------------------
IsAffine(s) == s.affine # 0

(* Bit 9 hides a plain sprite and doubles the box of an affine one.        *)
Box(s) == IF IsAffine(s) /\ s.bit9 THEN 2 * s.size ELSE s.size
Cost(s) == IF IsAffine(s) THEN Setup + 2 * Box(s) ELSE Box(s)
Line(s, y) == (y - s.y) % YSpan

OnLine(s, y) ==
  /\ IsAffine(s) \/ ~s.bit9
  /\ s.mode # "prohibited"
  /\ Line(s, y) < Box(s)

(* evaluate_scanline: in OAM order, until one no longer fits.              *)
Evaluated(y) ==
  LET step[i \in 0 .. Count] ==
        IF i = 0 THEN [list |-> <<>>, spent |-> 0, over |-> FALSE]
        ELSE LET r == step[i - 1]  spent == r.spent + Cost(oam[i])
             IN  IF r.over \/ ~OnLine(oam[i], y) THEN r
                 ELSE IF spent > Budget THEN [r EXCEPT !.over = TRUE]
                      ELSE [r EXCEPT !.list = Append(@, i), !.spent = spent]
  IN  step[Count].list

(* texture_coord: the column of the picture a column of the box shows.     *)
None == -1

TextureColumn(s, col) ==
  IF IsAffine(s)
  THEN LET tx == s.affine * (col - Box(s) \div 2) + s.size \div 2
       IN  IF tx \in 0 .. s.size - 1 THEN tx ELSE None
  ELSE IF s.flip THEN s.size - 1 - col ELSE col

Snapped(s, col) == IF s.mosaic THEN col - (col % MosaicX) ELSE col

(* The columns of the box that land on sx and are opaque there.            *)
Covers(s, sx) ==
  \E col \in 0 .. Box(s) - 1 :
    (s.x + col) % XSpan = sx /\ TextureColumn(s, Snapped(s, col)) \in s.opaque

(* Mutant: among equals the later sprite is drawn over the earlier one.    *)
RasterizeOver(list, sx) ==
  LET step[k \in 0 .. Len(list)] ==
        IF k = 0 THEN [owner |-> 0, window |-> FALSE]
        ELSE LET r == step[k - 1]  s == oam[list[k]]
             IN  IF ~Covers(s, sx) THEN r
                 ELSE IF s.mode = "window" THEN [r EXCEPT !.window = TRUE]
                 ELSE IF r.owner # 0 /\ s.priority > oam[r.owner].priority THEN r
                      ELSE [r EXCEPT !.owner = list[k]]
  IN  step[Len(list)]

(* rasterize, at sx: a placed pixel yields only to a strictly better       *)
(* priority, and a window sprite marks the mask instead.                   *)
Rasterize(list, sx) ==
  LET step[k \in 0 .. Len(list)] ==
        IF k = 0 THEN [owner |-> 0, window |-> FALSE]
        ELSE LET r == step[k - 1]  s == oam[list[k]]
             IN  IF ~Covers(s, sx) THEN r
                 ELSE IF s.mode = "window" THEN [r EXCEPT !.window = TRUE]
                 ELSE IF r.owner # 0 /\ s.priority >= oam[r.owner].priority THEN r
                      ELSE [r EXCEPT !.owner = list[k]]
  IN  step[Len(list)]
-----------------------------------------------------------------------------
ObjectTypeOK == \A i \in Indices : oam[i].x \in 0 .. XSpan - 1 /\ oam[i].mode \in Modes

(* Every pixel of every line belongs to the sprite of the best priority,   *)
(* and of those to the first in OAM, among the opaque ones that were       *)
(* evaluated before the budget ran out; a window sprite neither owns a     *)
(* pixel nor hides one.                                                    *)
PixelOwners ==
  \A y \in {0, 1}, sx \in 0 .. Width - 1 :
    LET fits(i) ==
          LET before == {j \in 1 .. i : OnLine(oam[j], y)}
              spent[j \in 0 .. i] == IF j = 0 THEN 0
                ELSE spent[j - 1] + (IF j \in before THEN Cost(oam[j]) ELSE 0)
          IN  i \in before /\ spent[i] <= Budget
        there == {i \in Indices : fits(i) /\ Covers(oam[i], sx)}
        solid == {i \in there : oam[i].mode # "window"}
        drawn == Rasterize(Evaluated(y), sx)
    IN  /\ drawn.window = (there # solid)
        /\ (drawn.owner = 0) = (solid = {})
        /\ \A i \in solid : /\ oam[drawn.owner].priority <= oam[i].priority
                            /\ oam[drawn.owner].priority = oam[i].priority => drawn.owner <= i
-----------------------------------------------------------------------------
(* Where the background layers of the shared 2D renderer read (video2d/src *)
(* bg/*.rs, memory.rs): text maps of up to four screen blocks, maps turned *)
(* by a matrix, the GBA's paged bitmaps and the extended backgrounds of    *)
(* the DS. Offsets are the code's; what is stored there is left out.       *)
CONSTANTS
  Blocks,      (* values of the five-bit screen base field that are tried *)
  References   (* values of a reference point, in 1/256 pixel *)

VARIABLE
  bg  (* [machine, mode, index, size, direct, bitmap, block, global,     *)
      (* page, wrap, ref, step, mosaic]: the layer's registers             *)

ScreenBlock == 2048
BitmapUnit == 16384
Page == 40960
GbaVram == 98304
DsView == 786432      (* VRAM_VIEW_SIZE: 512 KB of BG and 256 KB of OBJ *)

MapInit ==
  \E machine \in {"gba", "ds"}, index \in {0, 2, 3} :
    bg = [machine |-> machine, mode |-> 0, index |-> index, size |-> 0, direct |-> FALSE,
          bitmap |-> FALSE, block |-> 0, global |-> 0, page |-> 0, wrap |-> FALSE, ref |-> 0,
          step |-> 0, mosaic |-> 1]

(* generate and ds_bg_type: what a background is in a mode.                *)
GbaKind(mode, index) ==
  CASE mode = 0 -> "text"
    [] mode = 1 -> IF index = 0 THEN "text" ELSE IF index = 2 THEN "affine" ELSE "none"
    [] mode = 2 -> IF index = 0 THEN "none" ELSE "affine"
    [] mode \in 3 .. 5 -> IF index = 2 THEN "paged" ELSE "none"
    [] OTHER -> "none"

DsKind(mode, index) ==
  CASE index = 0 -> "text"
    [] index = 2 -> CASE mode \in {0, 1, 3} -> "text" [] mode \in {2, 4} -> "affine"
                      [] mode \in {5, 6} -> "extended" [] OTHER -> "none"
    [] index = 3 -> CASE mode = 0 -> "text" [] mode \in {1, 2} -> "affine"
                      [] mode \in 3 .. 5 -> "extended" [] OTHER -> "none"

Kind(b) == IF b.machine = "gba" THEN GbaKind(b.mode, b.index) ELSE DsKind(b.mode, b.index)

(* Writes of the registers: DISPCNT, BGxCNT, and the affine block.         *)
SetMode == \E m \in 0 .. 7, page \in {0, 1} : bg' = [bg EXCEPT !.mode = m, !.page = page]

SetControl ==
  \E size \in 0 .. 3, bitmap, direct, wrap \in BOOLEAN, block \in Blocks :
    bg' = [bg EXCEPT !.size = size, !.bitmap = bitmap, !.direct = direct, !.wrap = wrap,
                     !.block = block]

SetAffine ==
  \E r \in References, s \in {-256, 0, 256}, m \in {1, 4}, g \in {0, 7} :
    bg' = [bg EXCEPT !.ref = r, !.step = s, !.mosaic = m,
                     !.global = IF bg.machine = "ds" THEN g ELSE 0]

MapNext == SetMode \/ SetControl \/ SetAffine
-----------------------------------------------------------------------------
Screen(b) == IF b.machine = "gba" THEN [w |-> 240, h |-> 160] ELSE [w |-> 256, h |-> 192]

(* Text: a map of 32 by 32 tiles, or two or four of them side by side.     *)
MapTiles(size) == [w |-> IF size \in {1, 3} THEN 64 ELSE 32, h |-> IF size \in {2, 3} THEN 64 ELSE 32]

(* Mutant: the second row of screen blocks follows the first block.        *)
MapEntryNarrow(size, tx, ty) ==
  ((ty \div 32) + (tx \div 32)) * ScreenBlock + ((ty % 32) * 32 + (tx % 32)) * 2

MapEntry(size, tx, ty) ==
  ((ty \div 32) * (MapTiles(size).w \div 32) + (tx \div 32)) * ScreenBlock
    + ((ty % 32) * 32 + (tx % 32)) * 2

ScreenBase(b) == b.global * 65536 + b.block * ScreenBlock

(* A matrix with one term per axis: the texture coordinate of screen x, in *)
(* a mosaic the one of the block's first pixel.                            *)
Snap(b, x) == x - (x % b.mosaic)
Texture(b, x) == (b.ref + b.step * Snap(b, x)) \div 256

SquareSize(size) == <<128, 256, 512, 1024>>[size + 1]
BitmapSize(size) == [w |-> <<128, 256, 512, 512>>[size + 1], h |-> <<128, 256, 256, 512>>[size + 1]]

(* The coordinate used, when the pixel has one: wrapped, or in range.      *)
Placed(b, t, span) ==
  IF b.wrap THEN {t % span} ELSE IF t \in 0 .. span - 1 THEN {t} ELSE {}

(* Mutant: mode 5 draws all the lines of the screen. *)
PagedReadTall(b, x, y) ==
  CASE b.mode = 3 -> {<<(y * 240 + x) * 2, 2>>}
    [] b.mode = 4 -> {<<b.page * Page + y * 240 + x, 1>>}
    [] b.mode = 5 -> IF x >= 160 THEN {} ELSE {<<b.page * Page + (y * 160 + x) * 2, 2>>}

(* The paged bitmaps: mode 3 has one page, 4 a byte a pixel, 5 a smaller   *)
(* picture of halfwords and nothing below its height.                      *)
PagedRead(b, x, y) ==
  CASE b.mode = 3 -> {<<(y * 240 + x) * 2, 2>>}
    [] b.mode = 4 -> {<<b.page * Page + y * 240 + x, 1>>}
    [] b.mode = 5 -> IF y >= 128 \/ x >= 160 THEN {}
                     ELSE {<<b.page * Page + (y * 160 + x) * 2, 2>>}

(* The reads of a pixel that index the slice without a guard: those of the *)
(* paged modes, an extended map's entry, and a direct-colour bitmap's.     *)
ExtendedRead(b, x, y) ==
  IF ~b.bitmap
  THEN LET span == SquareSize(b.size)
       IN  {<<ScreenBase(b) + ((sy \div 8) * (span \div 8) + sx \div 8) * 2, 2>> :
              sx \in Placed(b, Texture(b, x), span), sy \in Placed(b, Texture(b, y), span)}
  ELSE LET span == BitmapSize(b.size)
       IN  IF ~b.direct THEN {}
           ELSE {<<b.block * BitmapUnit + (sy * span.w + sx) * 2, 2>> :
                   sx \in Placed(b, Texture(b, x), span.w), sy \in Placed(b, Texture(b, y), span.h)}

UnguardedReads(b, x, y) ==
  CASE Kind(b) = "paged" -> PagedRead(b, x, y)
    [] Kind(b) = "extended" -> ExtendedRead(b, x, y)
    [] OTHER -> {}

Corners(b) == {0, 127, Screen(b).w - 1} \X {0, 127, 128, Screen(b).h - 1}
Inside(read, lo, hi) == lo <= read[1] /\ read[1] + read[2] <= hi
-----------------------------------------------------------------------------
MapTypeOK == bg.mode \in 0 .. 7 /\ bg.size \in 0 .. 3

(* A text map of any size has one entry for every tile, and they fill its  *)
(* screen blocks without a gap; a page of a bitmap never shows the other's *)
(* pixels, nor what lies past the video memory.                            *)
MapsAndPages ==
  /\ bg.ref = 0 /\ bg.mode = 0 /\ bg.block = 0 =>
       LET t == MapTiles(bg.size)
       IN  {MapEntry(bg.size, x, y) : x \in 0 .. t.w - 1, y \in 0 .. t.h - 1}
             = {2 * k : k \in 0 .. t.w * t.h - 1}
  /\ Kind(bg) = "paged" /\ bg.mode # 3 =>
       \A c \in Corners(bg) : \A read \in PagedRead(bg, c[1], c[2]) :
         Inside(read, bg.page * Page, (bg.page + 1) * Page) /\ Inside(read, 0, GbaVram)

(* memory.rs:157-159 guards the reads of a misconfigured tiled background  *)
(* against addresses beyond the memory; every read a background makes      *)
(* would then stay in its view.  The direct-colour bitmap of the DS reads  *)
(* without the guard.                                                      *)
ReadsStayInside ==
  \A c \in Corners(bg) : \A read \in UnguardedReads(bg, c[1], c[2]) :
    Inside(read, 0, IF bg.machine = "gba" THEN GbaVram ELSE DsView)
-----------------------------------------------------------------------------
(* One pixel of the shared 2D renderer (crates/video2d): the window it     *)
(* falls in (window.rs), the candidates the window lets through            *)
(* (compositor.rs), the two in front (priority.rs) and the colour effect   *)
(* (effects.rs).  Two backgrounds stand for the four, one colour channel   *)
(* for the three.                                                          *)
CONSTANTS
  Edge,        (* the screen's width, and height: the pixel's coordinates run below it *)
  Bounds,      (* of a window: its first and second coordinate *)
  Weights      (* values of a five-bit coefficient field *)

VARIABLE
  pixel  (* [at, win, dispcnt, inside, outside, objwin, layers, bldcnt, eva, evb, evy] *)

Backgrounds == {"bg0", "bg1"}
Layers == Backgrounds \cup {"obj"}
Targets == Layers \cup {"backdrop"}
Nothing == [layer |-> "none"]

Rank == [layer \in Targets |-> CASE layer = "obj" -> 0 [] layer = "bg0" -> 1
                                 [] layer = "bg1" -> 2 [] OTHER -> 5]

Shade == [layer \in Targets |-> IF layer = "obj" THEN 31 ELSE 5 * Rank[layer] + 5]

(* What the object generator, a background and the 3D engine contribute.   *)
Kinds(layer) ==
  CASE layer = "obj" -> {"plain", "semi", "bitmap"}
    [] layer = "bg0" -> {"plain", "three_d"}
    [] OTHER -> {"plain"}

Alphas(kind) == CASE kind = "bitmap" -> {7, 15} [] kind = "three_d" -> {10, 31} [] OTHER -> {0}

Candidates(layer) ==
  UNION {[layer : {layer}, priority : {0, 1}, shade : {Shade[layer]}, kind : {k},
          alpha : Alphas(k)] : k \in Kinds(layer)}

Backdrop == [layer |-> "backdrop", priority |-> 4, shade |-> Shade["backdrop"], kind |-> "plain", alpha |-> 0]
-----------------------------------------------------------------------------
(* in_span: a second bound past the edge, or before the first, is the edge.*)
InSpan(coord, bound) ==
  LET second == IF bound[2] > Edge \/ bound[1] > bound[2] THEN Edge ELSE bound[2]
  IN  bound[1] <= coord /\ coord < second

AllVisible == Layers \cup {"effects"}

(* compute_line: WIN0, then WIN1 (here, the object window), then outside.  *)
Mask(p) ==
  IF p.dispcnt = {} THEN AllVisible
  ELSE IF "win0" \in p.dispcnt /\ InSpan(p.at[1], p.win[1]) /\ InSpan(p.at[2], p.win[2])
       THEN p.inside
       ELSE IF "objwin" \in p.dispcnt /\ p.objwin THEN Layers ELSE p.outside

(* gather: the backdrop first, then the visible ones in layer order.       *)
Gathered(p) ==
  LET seen(layer) == IF layer \in Mask(p) /\ p.layers[layer] # Nothing
                     THEN <<p.layers[layer]>> ELSE <<>>
  IN  <<Backdrop>> \o seen("bg0") \o seen("bg1") \o seen("obj")

Before(a, b) ==
  \/ a.priority < b.priority
  \/ a.priority = b.priority /\ Rank[a.layer] < Rank[b.layer]

(* Mutant: the beaten leader is not kept as the second.                    *)
ResolveForgets(items) ==
  LET step[i \in 1 .. Len(items)] ==
        IF i = 1 THEN [top |-> items[1], second |-> Nothing]
        ELSE LET r == step[i - 1]  c == items[i]
             IN  IF Before(c, r.top) THEN [r EXCEPT !.top = c]
                 ELSE IF r.second = Nothing \/ Before(c, r.second)
                      THEN [r EXCEPT !.second = c] ELSE r
      last == step[Len(items)]
  IN  IF last.second = Nothing THEN [last EXCEPT !.second = last.top] ELSE last

(* resolve: one pass that keeps the two in front; alone, the top is both.  *)
Resolve(items) ==
  LET step[i \in 1 .. Len(items)] ==
        IF i = 1 THEN [top |-> items[1], second |-> Nothing]
        ELSE LET r == step[i - 1]  c == items[i]
             IN  IF Before(c, r.top) THEN [top |-> c, second |-> r.top]
                 ELSE IF r.second = Nothing \/ Before(c, r.second)
                      THEN [r EXCEPT !.second = c] ELSE r
      last == step[Len(items)]
  IN  IF last.second = Nothing THEN [last EXCEPT !.second = last.top] ELSE last
-----------------------------------------------------------------------------
Least(a, b) == IF a < b THEN a ELSE b
(* Mutant: a coefficient is not limited to sixteen. *)
WeightWide(field) == field

Weight(field) == Least(field, 16)

AlphaBlend(a, b, eva, evb) == Least((a * eva + b * evb) \div 16, 31)
Brighten(c, evy) == c + ((31 - c) * evy) \div 16
Darken(c, evy) == c - ((c * evy) \div 16)

IsFirst(p, layer) == layer \in p.bldcnt.first
IsSecond(p, layer) == layer \in p.bldcnt.second

(* The blends a pixel brings with it, before the window's effect bit.      *)
Forced(p, top, second) ==
  /\ IsSecond(p, second.layer)
  /\ \/ top.kind = "three_d" /\ top.alpha < 31
     \/ top.kind = "semi"
     \/ top.kind = "bitmap" /\ top.alpha < 15

ForcedColor(p, top, second) ==
  LET half == top.alpha \div 2
  IN  CASE top.kind = "three_d" -> AlphaBlend(top.shade, second.shade, half, 16 - half)
        [] top.kind = "semi" -> AlphaBlend(top.shade, second.shade, Weight(p.eva), Weight(p.evb))
        [] OTHER -> AlphaBlend(top.shade, second.shade, top.alpha + 1, 15 - top.alpha)

(* apply: the forced blends, the window's bit, and BLDCNT's own effect; an *)
(* opaque 3D pixel may be brightened or darkened, never blended.           *)
Apply(p, top, second) ==
  LET chosen(mode) == p.bldcnt.mode = mode /\ IsFirst(p, top.layer) /\ "effects" \in Mask(p)
  IN  CASE Forced(p, top, second) -> ForcedColor(p, top, second)
        [] ~Forced(p, top, second) /\ chosen("alpha") /\ top.kind # "three_d"
           /\ IsSecond(p, second.layer) ->
             AlphaBlend(top.shade, second.shade, Weight(p.eva), Weight(p.evb))
        [] ~Forced(p, top, second) /\ chosen("brighten") -> Brighten(top.shade, Weight(p.evy))
        [] ~Forced(p, top, second) /\ chosen("darken") -> Darken(top.shade, Weight(p.evy))
        [] OTHER -> top.shade

Color(p) == LET r == Resolve(Gathered(p)) IN Apply(p, r.top, r.second)
-----------------------------------------------------------------------------
PixelInit ==
  pixel = [at |-> <<0, 0>>, win |-> <<<<0, 0>>, <<0, 0>>>>, dispcnt |-> {}, inside |-> {},
           outside |-> {}, objwin |-> FALSE, layers |-> [layer \in Layers |-> Nothing],
           bldcnt |-> [mode |-> "none", first |-> {}, second |-> {}],
           eva |-> 0, evb |-> 0, evy |-> 0]

(* The generators put a candidate, or the transparent nothing, on a layer. *)
Generate ==
  \E layer \in Layers : \E c \in Candidates(layer) \cup {Nothing} :
    pixel' = [pixel EXCEPT !.layers[layer] = c]

(* The window registers, and where the pixel lies in them.                 *)
SetWindow ==
  \/ \E b \in Bounds, x \in {0, Edge - 1} :
       pixel' = [pixel EXCEPT !.at[1] = x, !.win = <<b, <<0, Edge>>>>, !.dispcnt = {"win0"}]
  \/ \E seen \in {{}, {"bg0", "effects"}, {"bg1", "obj"}} :
       pixel' = [pixel EXCEPT !.inside = seen, !.outside = AllVisible \ seen]
  \/ \E on \in BOOLEAN : pixel' = [pixel EXCEPT !.objwin = on, !.dispcnt = {"objwin"}]

SetBlend ==
  \E mode \in {"alpha", "brighten", "darken"}, back \in {"bg1", "backdrop"}, w \in Weights :
    pixel' = [pixel EXCEPT !.bldcnt = [mode |-> mode, first |-> Backgrounds,
                                       second |-> {"bg0", back}],
                           !.eva = w, !.evb = w, !.evy = w]

PixelNext == Generate \/ SetWindow \/ SetBlend
-----------------------------------------------------------------------------
(* The composed channel is five bits wide, whatever the fields hold.       *)
PixelTypeOK == Color(pixel) \in 0 .. 31

(* The two that are composed are the two in front of all the visible       *)
(* candidates, in the order of priority and then of layer, whatever order  *)
(* they were gathered in.                                                  *)
FrontTwo ==
  LET items == Gathered(pixel)
      r == Resolve(items)
      all == {items[i] : i \in DOMAIN items}
  IN  /\ \A c \in all \ {r.top} : Before(r.top, c)
      /\ \A c \in all \ {r.top, r.second} : Before(r.second, c)
      /\ Cardinality(all) > 1 => r.second # r.top
-----------------------------------------------------------------------------
Init == ObjectInit /\ MapInit /\ PixelInit
Next ==
  \/ ObjectNext /\ UNCHANGED <<bg, pixel>>
  \/ MapNext /\ UNCHANGED <<oam, pixel>>
  \/ PixelNext /\ UNCHANGED <<oam, bg>>
Spec == Init /\ [][Next]_<<oam, bg, pixel>>
=============================================================================
