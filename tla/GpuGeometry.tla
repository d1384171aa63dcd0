---------------------------- MODULE GpuGeometry -----------------------------
(***************************************************************************)
(* The geometry engine (gpu3d/src/geometry.rs, matrix.rs, lib.rs):         *)
(* vertices are assembled into primitives and kept in the buffers, each    *)
(* primitive is clipped and culled, and matrices are kept on stacks.       *)
(***************************************************************************)
EXTENDS Integers, SequencesExt

(* Primitive assembly, the vertex and polygon buffers and the swap to the  *)
(* sealed render list (gpu3d/src/geometry.rs, lib.rs). A vertex is the     *)
(* order of its submission within its list; what clipping and culling      *)
(* leave of a primitive is any number of vertices.                         *)
CONSTANTS
  VertexRam,    (* vertices of a frame: 6144 in the code *)
  PolygonRam,   (* polygons of a frame: 2048 in the code *)
  Survivors,    (* vertices clipping may leave: 0, or 3 to 10 in the code *)
  MaxRun,       (* bound: vertices of a list  *)
  MaxFrames     (* bound: swaps *)

VARIABLE
  geo  (* [prim, run, made, count, list, vertices, polygons, sealed, frame, *)
       (* rendered]; run: vertices kept since Begin, made: the list's       *)
       (* primitives, list: its identity and with it its attributes         *)

Prims == 0 .. 3     (* triangles, quads, triangle strip, quad strip *)

AssemblyInit ==
  geo = [prim |-> 0, run |-> <<>>, made |-> <<>>, count |-> 0, list |-> 0, vertices |-> 0,
         polygons |-> <<>>, sealed |-> 0, frame |-> 0, rendered |-> 0]

Vertex == <<geo.frame, geo.list, geo.count>>
Origin(p) == {<<v[1], v[2]>> : v \in ToSet(p)}

(* Assembler::add: the primitive a vertex completes, or none.              *)
Nth(run, k) == run[Len(run) - k]

(* Mutant: every triangle of a strip is wound as its vertices come.        *)
PrimitiveUnswapped(prim, run) ==
  IF prim = 2 /\ Len(run) >= 3 THEN <<Nth(run, 2), Nth(run, 1), Nth(run, 0)>> ELSE <<>>

Primitive(prim, run) ==
  LET n == Len(run)
  IN  CASE prim = 0 /\ n = 3 -> run
        [] prim = 1 /\ n = 4 -> run
        [] prim = 2 /\ n >= 3 ->
             IF (n - 3) % 2 = 0 THEN <<Nth(run, 2), Nth(run, 1), Nth(run, 0)>>
             ELSE <<Nth(run, 1), Nth(run, 2), Nth(run, 0)>>
        [] prim = 3 /\ n >= 4 /\ n % 2 = 0 ->
             <<Nth(run, 3), Nth(run, 2), Nth(run, 0), Nth(run, 1)>>
        [] OTHER -> <<>>

(* emit_polygon: the vertices that survived become the polygon's own.      *)
Emitted(s, primitive, n) ==
  IF n = 0 \/ Len(s.polygons) >= PolygonRam \/ s.vertices + n > VertexRam THEN s
  ELSE [s EXCEPT !.vertices = @ + n,
                 !.polygons = Append(@, [first |-> s.vertices, count |-> n,
                                         from |-> Origin(primitive)])]

(* BEGIN_VTXS latches the attributes of the list it opens.                 *)
Begin ==
  \E prim \in Prims :
    geo' = [geo EXCEPT !.prim = prim, !.run = <<>>, !.made = <<>>, !.list = 1 - @, !.count = 0]

Submit ==
  \E n \in Survivors :
    LET run == Append(geo.run, Vertex)
        p == Primitive(geo.prim, run)
        s == [geo EXCEPT !.run = IF p # <<>> /\ geo.prim < 2 THEN <<>> ELSE run, !.count = @ + 1]
    IN  /\ geo.count < MaxRun
        /\ p = <<>> => n = 0
        /\ geo' = IF p = <<>> THEN s ELSE Emitted([s EXCEPT !.made = Append(@, p)], p, n)

(* Mutant: the swap keeps the vertices of a primitive not yet complete.    *)
SealedKeepsRun(s) ==
  [s EXCEPT !.sealed = Len(s.polygons), !.polygons = <<>>, !.vertices = 0, !.frame = @ + 1]

(* swap_buffers.                                                           *)
Sealed(s) ==
  [s EXCEPT !.sealed = Len(s.polygons), !.polygons = <<>>, !.vertices = 0, !.frame = @ + 1,
            !.run = <<>>, !.made = <<>>]

Swap == geo.frame < MaxFrames /\ geo' = Sealed(geo)

(* A video event renders the sealed list once for each swap.               *)
NeedsRender == geo.frame # geo.rendered
Render == NeedsRender /\ geo' = [geo EXCEPT !.rendered = geo.frame]

AssemblyNext == Begin \/ Submit \/ Swap \/ Render
-----------------------------------------------------------------------------
Edges(p) == {<<p[i], p[1 + (i % Len(p))]>> : i \in DOMAIN p}
PlacesOf(p) == p.first .. p.first + p.count - 1

AssemblyTypeOK == geo.vertices <= VertexRam /\ Len(geo.polygons) <= PolygonRam /\ geo.rendered <= geo.frame

(* The primitives of a list are wound alike: no two of them run along an   *)
(* edge in the same direction, and neighbours in a strip share one.  None  *)
(* takes a vertex of another list or frame, and each polygon has vertices  *)
(* of its own, in the buffer and in the order of the list.                 *)
StripsAreOriented ==
  /\ \A i, j \in DOMAIN geo.made : i # j => Edges(geo.made[i]) \cap Edges(geo.made[j]) = {}
  /\ geo.prim \in {2, 3} =>
       \A i \in 2 .. Len(geo.made) :
         \E e \in Edges(geo.made[i]) : <<e[2], e[1]>> \in Edges(geo.made[i - 1])
  /\ \A k \in DOMAIN geo.polygons :
       Cardinality(geo.polygons[k].from) = 1 /\ PlacesOf(geo.polygons[k]) \subseteq 0 .. geo.vertices - 1
  /\ \A i, j \in DOMAIN geo.polygons :
       i < j => \A a \in PlacesOf(geo.polygons[i]), b \in PlacesOf(geo.polygons[j]) : a < b
-----------------------------------------------------------------------------
(* What becomes of a completed primitive (gpu3d/src/geometry.rs,           *)
(* finalize_polygon): clipped against the planes of the view volume one    *)
(* after the other, in integers, then culled by the winding of what is     *)
(* left. The near and far planes are the pair of a third coordinate, and   *)
(* treated like the two pairs here.                                        *)
CONSTANTS
  Coords,    (* clip-space coordinates of a vertex, in the fixed point's units *)
  Weights,   (* its w *)
  Corners    (* 3 or 4 *)

VARIABLE
  tri  (* [pts, shown, out, fate]: the primitive, the faces its attributes show, *)
       (* what clipping left, and "open", "clipped", "culled" or "emitted"       *)

Faces == {"front", "back"}
Point(x, y, w) == [x |-> x, y |-> y, w |-> w]
ClipInit == tri = [pts |-> <<>>, shown |-> {}, out |-> <<>>, fate |-> "open"]

Planes == <<"left", "right", "bottom", "top">>
PlaneValue(p, plane) ==
  CASE plane = "left" -> p.w + p.x
    [] plane = "right" -> p.w - p.x
    [] plane = "bottom" -> p.w + p.y
    [] plane = "top" -> p.w - p.y

(* The division of the code rounds towards zero.                           *)
Magnitude(a) == IF a < 0 THEN -a ELSE a
Trunc(a, b) ==
  LET q == Magnitude(a) \div Magnitude(b) IN IF (a < 0) = (b < 0) THEN q ELSE -q

Intersect(a, b, fa, fb) ==
  LET lerp(va, vb) == va + Trunc((vb - va) * fa, fa - fb)
  IN  Point(lerp(a.x, b.x), lerp(a.y, b.y), lerp(a.w, b.w))

(* clip_plane: Sutherland and Hodgman's step, for one vertex of the input. *)
Kept(poly, i, plane) ==
  LET cur == poly[i]
      prev == poly[IF i = 1 THEN Len(poly) ELSE i - 1]
      fcur == PlaneValue(cur, plane)
      fprev == PlaneValue(prev, plane)
      cut == Intersect(prev, cur, fprev, fcur)
  IN  CASE fcur >= 0 /\ fprev >= 0 -> <<cur>>
        [] fcur >= 0 /\ fprev < 0 -> <<cut, cur>>
        [] fcur < 0 /\ fprev >= 0 -> <<cut>>
        [] OTHER -> <<>>

ClipPlane(poly, plane) == FlattenSeq([i \in DOMAIN poly |-> Kept(poly, i, plane)])

(* Mutant: the last plane is left out.                                     *)
ClippedShort(poly) ==
  FoldLeft(LAMBDA p, plane : IF Len(p) < 3 THEN p ELSE ClipPlane(p, plane), poly, Front(Planes))

Clipped(poly) ==
  FoldLeft(LAMBDA p, plane : IF Len(p) < 3 THEN p ELSE ClipPlane(p, plane), poly, Planes)

SignedArea(a, b, c) ==
  a.x * (b.y * c.w - c.y * b.w) - a.y * (b.x * c.w - c.x * b.w) + a.w * (b.x * c.y - c.x * b.y)
Face(poly) == IF SignedArea(poly[1], poly[2], poly[3]) > 0 THEN "front" ELSE "back"

Culled(shown, poly) == shown # Faces /\ (shown = {} \/ Face(poly) \notin shown)

AddVertex ==
  \E x \in Coords, y \in Coords, w \in Weights :
    /\ Len(tri.pts) < Corners
    /\ tri' = [tri EXCEPT !.pts = Append(@, Point(x, y, w))]

Finalize ==
  \E shown \in SUBSET Faces :
    /\ Len(tri.pts) = Corners /\ tri.fate = "open"
    /\ LET out == Clipped(tri.pts)
       IN  tri' = [tri EXCEPT !.shown = shown, !.out = out,
                              !.fate = IF Len(out) < 3 THEN "clipped"
                                       ELSE IF Culled(shown, out) THEN "culled" ELSE "emitted"]

ClipNext == AddVertex \/ Finalize
-----------------------------------------------------------------------------
ClipTypeOK == Len(tri.pts) <= Corners /\ Len(tri.out) <= Corners + Len(Planes)

Inside(p, slack) == \A i \in DOMAIN Planes : PlaneValue(p, Planes[i]) >= -slack
Beyond(poly) == \E i \in DOMAIN Planes : \A k \in DOMAIN poly : PlaneValue(poly[k], Planes[i]) < 0

(* Rounding apart, what is left of a primitive is inside the volume; one   *)
(* inside it is left whole, and one beyond a plane not at all.             *)
SurvivorsAreInside ==
  tri.fate # "open" =>
    /\ tri.fate = "emitted" => \A k \in DOMAIN tri.out : Inside(tri.out[k], 1)
    /\ (\A k \in DOMAIN tri.pts : Inside(tri.pts[k], 0)) => tri.out = tri.pts
    /\ Beyond(tri.pts) => tri.fate = "clipped"

Areas(poly) == {SignedArea(poly[1], poly[k], poly[k + 1]) : k \in 2 .. Len(poly) - 1}

(* A primitive is culled by its winding: one that faces the viewer, and of *)
(* which clipping leaves some area, is drawn when front faces are.         *)
FrontFacesSurvive ==
  /\ tri.fate = "culled" /\ tri.shown = {"front"}
  => (SignedArea(tri.pts[1], tri.pts[2], tri.pts[3]) <= 0 \/ \A a \in Areas(tri.out) : a <= 0)
-----------------------------------------------------------------------------
(* The matrices of the 3D engine and their stacks (gpu3d/src/matrix.rs).   *)
(* A matrix is an element of a group that does not commute, the            *)
(* permutations of three points, so a product's order and a product's      *)
(* staleness both show; `saved` is what the program has pushed.            *)
CONSTANTS
  Depth,    (* levels of the position and vector stack: 31 in the code *)
  Shifts,   (* matrices a program loads or multiplies by, of 1 .. 2    *)
  MaxOps    (* bound: commands *)

VARIABLE
  mtx  (* [mode, proj, pos, vec, tex, clip, projStack, projSp, posStack, *)
       (*  vecStack, sp, texStack, texSp, error, saved, ops]             *)

One == <<1, 2, 3>>
Mul(a, b) == [i \in 1 .. 3 |-> a[b[i]]]
Param(n) == IF n = 1 THEN <<2, 1, 3>> ELSE <<1, 3, 2>>

Unsaved == <<>>

Modes == {"projection", "position", "posvec", "texture"}
Slots == 0 .. Depth

MatrixInit ==
  mtx = [mode |-> "projection", proj |-> One, pos |-> One, vec |-> One, tex |-> One, clip |-> One,
         projStack |-> One, projSp |-> 0, posStack |-> [s \in Slots |-> One],
         vecStack |-> [s \in Slots |-> One], sp |-> 0, texStack |-> One, texSp |-> 0,
         error |-> FALSE, saved |-> [l \in Slots |-> Unsaved], ops |-> 0]

Shared(s) == s.mode \in {"position", "posvec"}
RecomputeClip(s) == [s EXCEPT !.clip = Mul(s.proj, s.pos)]

LoadCurrent(s, m) ==
  CASE s.mode = "projection" -> RecomputeClip([s EXCEPT !.proj = m])
    [] s.mode = "position" -> RecomputeClip([s EXCEPT !.pos = m])
    [] s.mode = "posvec" -> RecomputeClip([s EXCEPT !.pos = m, !.vec = m])
    [] OTHER -> [s EXCEPT !.tex = m]

(* mul_current: a scaling leaves the vector matrix alone.                  *)
MulCurrent(s, m, scaleOnly) ==
  CASE s.mode = "projection" -> RecomputeClip([s EXCEPT !.proj = Mul(@, m)])
    [] s.mode = "position" -> RecomputeClip([s EXCEPT !.pos = Mul(@, m)])
    [] s.mode = "posvec" ->
         RecomputeClip([s EXCEPT !.pos = Mul(@, m), !.vec = IF scaleOnly THEN @ ELSE Mul(@, m)])
    [] OTHER -> [s EXCEPT !.tex = Mul(@, m)]

Failed(s) == [s EXCEPT !.error = TRUE]

Pushed(s) ==
  CASE s.mode = "projection" ->
         IF s.projSp = 1 THEN Failed(s) ELSE [s EXCEPT !.projStack = s.proj, !.projSp = 1]
    [] s.mode = "texture" ->
         IF s.texSp = 1 THEN Failed(s) ELSE [s EXCEPT !.texStack = s.tex, !.texSp = 1]
    [] OTHER ->
         IF s.sp >= Depth THEN Failed(s)
         ELSE [s EXCEPT !.posStack[s.sp] = s.pos, !.vecStack[s.sp] = s.vec, !.sp = @ + 1,
                        !.saved[s.sp] = <<s.pos, s.vec>>]

FromSlot(s, slot) ==
  RecomputeClip([s EXCEPT !.pos = s.posStack[slot], !.vec = s.vecStack[slot]])

Below(saved, n) == [l \in Slots |-> IF l < n THEN saved[l] ELSE Unsaved]

(* Mutant: a pop loads the matrices and leaves the clip matrix as it was.  *)
PoppedStale(s, n) ==
  LET new == IF s.sp - n < 0 THEN 0 ELSE IF s.sp - n > Depth THEN Depth ELSE s.sp - n
  IN  IF ~Shared(s) THEN s
      ELSE [s EXCEPT !.sp = new, !.pos = s.posStack[new], !.vec = s.vecStack[new],
                     !.saved = Below(s.saved, new)]

(* pop by a signed number of levels, clamped to the stack.                 *)
Popped(s, n) ==
  LET new == IF s.sp - n < 0 THEN 0 ELSE IF s.sp - n > Depth THEN Depth ELSE s.sp - n
      t == IF s.sp - n \in Slots THEN s ELSE Failed(s)
  IN  CASE s.mode = "projection" ->
             IF s.projSp = 0 THEN Failed(s)
             ELSE RecomputeClip([s EXCEPT !.projSp = 0, !.proj = s.projStack])
        [] s.mode = "texture" ->
             IF s.texSp = 0 THEN Failed(s) ELSE [s EXCEPT !.texSp = 0, !.tex = s.texStack]
        [] OTHER ->
             FromSlot([t EXCEPT !.sp = new,
                                !.saved = Below(s.saved, new)], new)

Stored(s, slot) ==
  CASE s.mode = "projection" -> [s EXCEPT !.projStack = s.proj]
    [] s.mode = "texture" -> [s EXCEPT !.texStack = s.tex]
    [] OTHER -> [s EXCEPT !.posStack[slot] = s.pos, !.vecStack[slot] = s.vec,
                          !.saved[slot] = IF @ = Unsaved THEN Unsaved ELSE <<s.pos, s.vec>>]

Restored(s, slot) ==
  CASE s.mode = "projection" -> RecomputeClip([s EXCEPT !.proj = s.projStack])
    [] s.mode = "texture" -> [s EXCEPT !.tex = s.texStack]
    [] OTHER -> FromSlot(s, slot)
-----------------------------------------------------------------------------
Does(s) == mtx.ops < MaxOps /\ mtx' = [s EXCEPT !.ops = @ + 1]

SetMode == \E m \in Modes \ {mtx.mode} : Does([mtx EXCEPT !.mode = m])
Load == Does(LoadCurrent(mtx, One))
Mult == \E n \in Shifts, scale \in BOOLEAN : Does(MulCurrent(mtx, Param(n), scale))
PushCommand == Does(Pushed(mtx))
PopCommand == \E n \in -1 .. 2 : Does(Popped(mtx, n))
Store == \E slot \in Slots : Does(Stored(mtx, slot))
Restore == \E slot \in Slots : Does(Restored(mtx, slot))
ClearError == mtx.error /\ Does([mtx EXCEPT !.error = FALSE])

MatrixNext == SetMode \/ Load \/ Mult \/ PushCommand \/ PopCommand \/ Store \/ Restore \/ ClearError
-----------------------------------------------------------------------------
MatrixTypeOK == mtx.sp \in Slots /\ mtx.projSp \in 0 .. 1 /\ mtx.texSp \in 0 .. 1

(* The matrix vertices are transformed by is the product of the projection *)
(* and the position, whatever command last changed either, and a popped    *)
(* level is the one the program pushed there.                              *)
MatricesAgree ==
  /\ mtx.clip = Mul(mtx.proj, mtx.pos)
  /\ \A l \in Slots :
       mtx.saved[l] # Unsaved => mtx.saved[l] = <<mtx.posStack[l], mtx.vecStack[l]>>
-----------------------------------------------------------------------------
Init == AssemblyInit /\ ClipInit /\ MatrixInit
Next ==
  \/ AssemblyNext /\ UNCHANGED <<tri, mtx>>
  \/ ClipNext /\ UNCHANGED <<geo, mtx>>
  \/ MatrixNext /\ UNCHANGED <<geo, tri>>
Spec == Init /\ [][Next]_<<geo, tri, mtx>>
=============================================================================
