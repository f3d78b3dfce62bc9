------------------------------ MODULE BoardScene ------------------------------
(***************************************************************************)
(* The scene of a PNG export (board-export.ts): the part of the plane that *)
(* buildBoardExportScene makes a picture of, and the part that Konva       *)
(* paints for each element.                                                *)
(*                                                                         *)
(* Coordinates are in half pixels, so that centres and half strokes are    *)
(* whole numbers; widths of strokes, paddings and the sizes of pictures    *)
(* are in pixels, and rotations in quarter turns.  A text or a sticky note *)
(* is cut off at its box.  SizeOncePadded is a faulty variant.             *)
(***************************************************************************)
EXTENDS Integers, FiniteSets, FiniteSetsExt

CONSTANTS
  SceneElements, \* the elements that may be on the board
  Padding, MinimumWidth, MinimumHeight,
  MaxDrawn       \* bound: elements on the board

ASSUME SceneAssumption ==
  /\ {Padding, MinimumWidth, MinimumHeight} \subseteq Nat
  /\ \A e \in SceneElements :
       /\ e.kind \in {"stroke", "shape", "text", "sticky"}
       /\ e.shape \in {"rectangle", "ellipse", "diamond", "line", "arrow"}
       /\ IsFiniteSet(e.points) /\ e.points \subseteq Int \X Int
       /\ {e.x, e.y, e.width, e.height} \subseteq Int
       /\ e.rotation \in 0 .. 3 /\ e.strokeWidth \in Nat

VARIABLE scene   \* BoardState.elements: their order is of no account here

Box(left, top, right, bottom) ==
  [minX |-> left, minY |-> top, maxX |-> right, maxY |-> bottom]

Grown(box, by) == Box(box.minX - by, box.minY - by, box.maxX + by, box.maxY + by)

Hull(boxes) ==
  Box(Min({b.minX : b \in boxes}), Min({b.minY : b \in boxes}),
      Max({b.maxX : b \in boxes}), Max({b.maxY : b \in boxes}))

Within(inner, outer) ==
  /\ outer.minX <= inner.minX /\ inner.maxX <= outer.maxX
  /\ outer.minY <= inner.minY /\ inner.maxY <= outer.maxY

HullOfPoints(points) == Hull({Box(p[1], p[2], p[1], p[2]) : p \in points})

\* A point turned about another one by quarter turns.
Turned(p, about, turns) ==
  LET dx == p[1] - about[1]
      dy == p[2] - about[2]
  IN CASE turns = 0 -> p
       [] turns = 1 -> <<about[1] - dy, about[2] + dx>>
       [] turns = 2 -> <<about[1] - dx, about[2] - dy>>
       [] turns = 3 -> <<about[1] + dy, about[2] - dx>>

\* getRectBounds, normalizeRectForRendering: sizes may be negative.
RectBounds(e) ==
  Box(Min({e.x, e.x + e.width}), Min({e.y, e.y + e.height}),
      Max({e.x, e.x + e.width}), Max({e.y, e.y + e.height}))

Corners(box) == {box.minX, box.maxX} \X {box.minY, box.maxY}

TurnedBox(box, about, turns) == HullOfPoints({Turned(p, about, turns) : p \in Corners(box)})

\* getRotatedRectBounds: about the centre.  A box whose sides are not both
\* even or both odd would be turned onto quarter pixels; such are left out.
Centre(box) == <<(box.minX + box.maxX) \div 2, (box.minY + box.maxY) \div 2>>
RotatedRectBounds(e) == TurnedBox(RectBounds(e), Centre(RectBounds(e)), e.rotation)

(***************************************************************************)
(* buildBoardExportScene.                                                  *)
(***************************************************************************)
HasBounds(e) == e.kind = "stroke" => e.points # {}

\* getSceneElementBounds
ElementBounds(e) ==
  CASE e.kind = "stroke" -> Grown(HullOfPoints(e.points), Max({2, e.strokeWidth}))
    [] e.kind = "shape" -> RotatedRectBounds(e)
    [] e.kind \in {"text", "sticky"} -> RectBounds(e)

\* calculateSceneBounds
SceneBounds == Hull({ElementBounds(e) : e \in {d \in scene : HasBounds(d)}})

CeilOfHalf(n) == (n + 1) \div 2

SizeOncePadded(least, span) == Max({least, CeilOfHalf(span) + Padding})
\* Math.max(minimum, Math.ceil(span + padding * 2)), in pixels
Size(least, span) == Max({least, CeilOfHalf(span) + 2 * Padding})

\* What the picture shows, in the coordinates of the board: the content is
\* moved by offsetX and offsetY, padding less the smallest coordinate.
Picture ==
  LET left == SceneBounds.minX - 2 * Padding
      top == SceneBounds.minY - 2 * Padding
  IN Box(left, top,
         left + 2 * Size(MinimumWidth, SceneBounds.maxX - SceneBounds.minX),
         top + 2 * Size(MinimumHeight, SceneBounds.maxY - SceneBounds.minY))

(***************************************************************************)
(* createKonvaNodeForSceneElement.  A Konva.Rect turns about its x and y,  *)
(* a Line or Arrow, which has its place in its points, about the origin of *)
(* the content, an Ellipse about its centre.                               *)
(***************************************************************************)
Pivot(e) ==
  CASE e.shape = "rectangle" -> <<RectBounds(e).minX, RectBounds(e).minY>>
    [] e.shape = "ellipse" -> Centre(RectBounds(e))
    [] e.shape \in {"diamond", "line", "arrow"} -> <<0, 0>>

\* Half a stroke, and for an arrow its head, beyond the outline.
Overhang(e) == e.strokeWidth + (IF e.shape = "arrow" THEN 2 * Max({3, e.strokeWidth}) ELSE 0)

Painted(e) ==
  CASE e.kind = "stroke" -> Grown(HullOfPoints(e.points), e.strokeWidth)
    [] e.kind = "shape" -> Grown(TurnedBox(RectBounds(e), Pivot(e), e.rotation), Overhang(e))
    [] e.kind \in {"text", "sticky"} -> RectBounds(e)

(***************************************************************************)
(* The boards a user may draw.                                             *)
(***************************************************************************)
SceneInit == scene = {}
DrawElement(e) ==
  /\ e \notin scene /\ Cardinality(scene) < MaxDrawn
  /\ scene' = scene \cup {e}
EraseElement(e) == e \in scene /\ scene' = scene \ {e}
SceneNext == \E e \in SceneElements : DrawElement(e) \/ EraseElement(e)
SceneSpec == SceneInit /\ [][SceneNext]_scene

\* Rectangles, diamonds, lines and arrows that are turned get a place that
\* buildBoardExportScene does not reckon with (see the README).
InPlace(e) == e.kind = "shape" /\ e.shape # "ellipse" => e.rotation = 0

(* The picture holds all that is painted of every element that is not a turned
   rectangle, diamond, line or arrow: strokes and arrow heads reach beyond the
   bounds of their elements, by no more than a padding of at least that much. *)
PictureHoldsBoard ==
  \A e \in scene :
    HasBounds(e) /\ InPlace(e) /\ (e.kind = "shape" => Overhang(e) <= 2 * Padding)
      => Within(Painted(e), Picture)
=============================================================================
