----------------------------- MODULE GpuRender ------------------------------
(***************************************************************************)
(* The rendering engine of the DS's 3D unit (gpu3d/src/raster.rs): the     *)
(* columns of a row each polygon covers, and what is left in a pixel that  *)
(* several cover.                                                          *)
(***************************************************************************)
EXTENDS Integers, SequencesExt

(* Which pixels a polygon covers (gpu3d/src/raster.rs): the projection to  *)
(* the screen, the crossings of a scanline and the half-open span between  *)
(* them. A surface is a quadrilateral drawn as the two triangles either    *)
(* side of its diagonal.                                                   *)
CONSTANTS
  Width, Height,   (* of the screen, 256 and 192 in the code *)
  W,               (* w of the vertices: the view is -W .. W *)
  Xs, Ys           (* coordinates of vertices *)

VARIABLE
  mesh  (* the vertices so far, in clip space *)

Point(x, y) == [x |-> x, y |-> y]
RasterInit == mesh = <<>>
AddVertex ==
  \E x \in Xs, y \in Ys : Len(mesh) < 4 /\ mesh' = Append(mesh, Point(x, y))

RasterNext == AddVertex

(* project, with the viewport of the whole screen: rows count downwards.   *)
Project(v) ==
  Point(((v.x + W) * Width) \div (2 * W), (Height - 1) - (((v.y + W) * Height) \div (2 * W)))

Magnitude(a) == IF a < 0 THEN -a ELSE a
Trunc(a, b) == LET q == Magnitude(a) \div b IN IF a < 0 THEN -q ELSE q

(* Mutant: the edge is walked from the end its polygon comes to first.     *)
EdgeCrossingAsWound(a, b, y) ==
  LET up == a.y <= b.y
  IN  IF up THEN a.x + Trunc((b.x - a.x) * (y - a.y), b.y - a.y)
      ELSE a.x + Trunc((b.x - a.x) * (a.y - y), a.y - b.y)

(* edge_crossing: from the upper vertex, whichever way the polygon winds.  *)
EdgeCrossing(a, b, y) ==
  LET top == IF a.y <= b.y THEN a ELSE b
      low == IF a.y <= b.y THEN b ELSE a
  IN  top.x + Trunc((low.x - top.x) * (y - top.y), low.y - top.y)

(* scan_poly: the first two edges the scanline crosses bound the span.     *)
Crosses(a, b, y) == (a.y <= y /\ y < b.y) \/ (b.y <= y /\ y < a.y)
Crossings(pts, y) ==
  LET next(i) == pts[1 + (i % Len(pts))]
      hits == SelectSeq([i \in DOMAIN pts |-> i], LAMBDA i : Crosses(pts[i], next(i), y))
  IN  [k \in 1 .. (IF Len(hits) < 2 THEN Len(hits) ELSE 2) |->
        EdgeCrossing(pts[hits[k]], next(hits[k]), y)]

(* fill_span: from the left crossing up to the right one, on the screen.   *)
Span(pts, y) ==
  LET c == Crossings(pts, y)
  IN  IF Len(c) < 2 THEN {}
      ELSE {x \in 0 .. Width - 1 : \/ c[1] <= x /\ x < c[2]
                                   \/ c[2] <= x /\ x < c[1]}

Covered(clip) ==
  LET pts == [i \in DOMAIN clip |-> Project(clip[i])]
  IN  {p \in (0 .. Width - 1) \X (0 .. Height - 1) : p[1] \in Span(pts, p[2])}
-----------------------------------------------------------------------------
Turn(a, b, c) == (b.x - a.x) * (c.y - a.y) - (b.y - a.y) * (c.x - a.x)
One == <<mesh[1], mesh[2], mesh[3]>>
Other == <<mesh[1], mesh[3], mesh[4]>>

(* The triangles lie on either side of the diagonal, and form a convex     *)
(* surface.                                                                *)
Surface ==
  /\ Len(mesh) = 4
  /\ \/ \A i \in 1 .. 4 : Turn(mesh[i], mesh[1 + (i % 4)], mesh[1 + ((i + 1) % 4)]) > 0
     \/ \A i \in 1 .. 4 : Turn(mesh[i], mesh[1 + (i % 4)], mesh[1 + ((i + 1) % 4)]) < 0

RasterTypeOK == Len(mesh) <= 4

(* No seam: between two pixels of a row that the triangles of a surface    *)
(* cover there is none that neither does.                                  *)
NoSeams ==
  Surface =>
    LET all == Covered(One) \cup Covered(Other)
    IN  \A p, q \in all : p[2] = q[2] => \A x \in p[1] .. q[1] : <<x, p[2]>> \in all

(* No overlap: a pixel belongs to one triangle of a surface.               *)
SharedEdgeHasOneOwner == Surface => Covered(One) \cap Covered(Other) = {}

(* A surface as large as the view covers the screen.                       *)
ViewIsCovered ==
  Surface /\ (\A i \in 1 .. 4 : Magnitude(mesh[i].x) = W /\ Magnitude(mesh[i].y) = W) =>
    Covered(mesh) = (0 .. Width - 1) \X (0 .. Height - 1)
-----------------------------------------------------------------------------
(* The passes over one row of the picture (gpu3d/src/raster.rs, render):   *)
(* opaque pixels, then translucent ones and shadow volumes in the order    *)
(* the swap selects, then outlines. A pixel's colour is the sequence of    *)
(* polygons blended into it, the first of them opaque or the rear plane.   *)
CONSTANTS
  Columns,     (* of the row, a range from 1 *)
  Depths,      (* of polygons, each flat; larger is farther *)
  Far,         (* depth of the rear plane *)
  MaxPolygons  (* bound *)

VARIABLE
  scene  (* [polys, manual, done, row]: row maps each column to its buffers *)

Opaque == 31
Clear == 15
RearId == 255
Rear == <<>>

(* A polygon of one depth: its alpha at each column, 0 where it is not     *)
(* drawn, and whether its translucent pixels write depth.                  *)
Polygon(mode, id, alpha, depth, keeps) ==
  [mode |-> mode, id |-> id, alpha |-> alpha, depth |-> depth, keeps |-> keeps]
Translucent(p) == \E x \in Columns : p.alpha[x] = Clear
Plain ==
  {p \in {Polygon("plain", id, alpha, z, keeps) :
            id \in {1, 2}, alpha \in [Columns -> {0, Clear, Opaque}], z \in Depths, keeps \in BOOLEAN} :
     (\E x \in Columns : p.alpha[x] # 0) /\ (p.keeps => Translucent(p))}
Shadows ==
  {Polygon("shadow", id, [x \in Columns |-> Clear], z, FALSE) : id \in {0, 1}, z \in Depths}

Empty == [layers |-> Rear, depth |-> Far, id |-> RearId, stencil |-> FALSE, outlined |-> FALSE]
PixelInit == scene = [polys |-> <<>>, manual |-> FALSE, done |-> FALSE, row |-> [x \in Columns |-> Empty]]

(* fill_span, at one pixel and for each of its passes.                     *)
Passes(px, p, x) == p.depth < px.depth /\ p.alpha[x] > 0

FillOpaque(px, p, n, x) ==
  IF Passes(px, p, x) /\ p.alpha[x] = Opaque
  THEN [px EXCEPT !.layers = <<n>>, !.depth = p.depth, !.id = p.id] ELSE px

FillTranslucent(px, p, n, x) ==
  IF Passes(px, p, x) /\ p.alpha[x] # Opaque
  THEN [px EXCEPT !.layers = Append(@, n), !.depth = IF p.keeps THEN p.depth ELSE @] ELSE px

FillMask(px, p) == IF p.depth < px.depth THEN [px EXCEPT !.stencil = TRUE] ELSE px

FillShadow(px, p, n, x) ==
  IF ~Passes(px, p, x) THEN px
  ELSE [px EXCEPT !.stencil = FALSE,
                  !.layers = IF px.stencil \/ px.id = p.id THEN @ ELSE Append(@, n)]

Fill(px, polys, n, x) ==
  LET p == polys[n]
  IN  CASE p.mode = "shadow" /\ p.id = 0 -> FillMask(px, p)
        [] p.mode = "shadow" -> FillShadow(px, p, n, x)
        [] OTHER -> FillTranslucent(px, p, n, x)

Numbers(polys) == [n \in DOMAIN polys |-> n]

(* Mutant: translucent polygons are drawn as they came.                    *)
DrawOrderAsSent(polys, manual) == Numbers(polys)

(* The second pass: as submitted, or farthest first and stable.            *)
DrawOrder(polys, manual) ==
  LET second == SelectSeq(Numbers(polys), LAMBDA n : polys[n].mode = "shadow" \/ Translucent(polys[n]))
      before(a, b) == polys[a].depth > polys[b].depth \/ (polys[a].depth = polys[b].depth /\ a < b)
  IN  IF manual THEN second ELSE SetToSortSeq(ToSet(second), before)

Resolved(polys, x) ==
  FoldLeft(LAMBDA px, n : IF polys[n].mode = "shadow" THEN px ELSE FillOpaque(px, polys[n], n, x),
           Empty, Numbers(polys))

Shaded(polys, manual, x) ==
  FoldLeft(LAMBDA px, n : Fill(px, polys, n, x), Resolved(polys, x), DrawOrder(polys, manual))

(* edge_mark: the near side of a boundary between two polygons.            *)
Outlined(row, x) ==
  /\ row[x].id # RearId
  /\ \E y \in {x - 1, x + 1} \cap Columns : row[y].id # row[x].id /\ row[y].depth > row[x].depth

EdgeMark(row) == [x \in Columns |-> [row[x] EXCEPT !.outlined = Outlined(row, x)]]

Submit ==
  \E p \in Plain \cup Shadows :
    ~scene.done /\ Len(scene.polys) < MaxPolygons /\ scene' = [scene EXCEPT !.polys = Append(@, p)]

Render ==
  \E manual \in BOOLEAN :
    /\ ~scene.done
    /\ scene' = [scene EXCEPT !.done = TRUE, !.manual = manual,
                              !.row = EdgeMark([x \in Columns |-> Shaded(scene.polys, manual, x)])]

PixelNext == Submit \/ Render
-----------------------------------------------------------------------------
Seen(kind, x) == {n \in DOMAIN scene.polys : scene.polys[n].mode = "plain" /\ scene.polys[n].alpha[x] = kind}
Depth(n) == scene.polys[n].depth
FrontMost(x) == {n \in Seen(Opaque, x) : Depth(n) < Far /\ \A k \in Seen(Opaque, x) : Depth(n) <= Depth(k)}
FrontDepth(x) == IF FrontMost(x) = {} THEN Far ELSE Depth(CHOOSE n \in FrontMost(x) : TRUE)

Flat == \A i, j \in DOMAIN scene.polys : i # j => Depth(i) # Depth(j)
Unshadowed == \A n \in DOMAIN scene.polys : scene.polys[n].mode = "plain"

(* The row is one the passes can leave.                                    *)
PixelTypeOK == \A x \in Columns : scene.row[x].depth \in Depths \cup {Far} /\ Len(scene.row[x].layers) <= MaxPolygons

(* With the engine's own sorting a picture does not depend on the order in *)
(* which its polygons came: each pixel shows its nearest opaque polygon    *)
(* and over it the translucent ones nearer than that, farthest first.      *)
OrderFree ==
  scene.done /\ ~scene.manual /\ Unshadowed /\ Flat =>
    \A x \in Columns :
      scene.row[x].layers =
        SetToSortSeq(FrontMost(x) \cup {n \in Seen(Clear, x) : Depth(n) < FrontDepth(x)},
                     LAMBDA a, b : Depth(a) > Depth(b))

(* A shadow volume, its mask then its front, darkens the surfaces between  *)
(* the two and no other.                                                   *)
ShadowsFall ==
  \A m, f \in DOMAIN scene.polys :
    /\ scene.done /\ scene.manual /\ f = m + 1
    /\ \A n \in DOMAIN scene.polys : (scene.polys[n].mode = "shadow") = (n \in {m, f})
    /\ scene.polys[m].id = 0 /\ scene.polys[f].id = 1 /\ Depth(f) < Depth(m)
    /\ \A n \in DOMAIN scene.polys : ~scene.polys[n].keeps
    => \A x \in Columns :
         Contains(scene.row[x].layers, f) <=>
           /\ Depth(f) < FrontDepth(x) /\ FrontDepth(x) <= Depth(m)
           /\ scene.row[x].id # 1
-----------------------------------------------------------------------------
Init == RasterInit /\ PixelInit
Next == (RasterNext /\ UNCHANGED scene) \/ (PixelNext /\ UNCHANGED mesh)
Spec == Init /\ [][Next]_<<mesh, scene>>
=============================================================================
