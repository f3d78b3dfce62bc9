---------------------------- MODULE MCDrawPipeline ----------------------------
(***************************************************************************)
(* Small instances of DrawPipeline for TLC: two other actors, a shape and a *)
(* stroke of theirs, and actions that reach every way of handling one.      *)
(***************************************************************************)
EXTENDS DrawPipeline

CONSTANTS aShape, aStroke, ownStroke

Action(actor, sequence, kind, object, version, data, objects, count) ==
  [id |-> <<actor, sequence>>, actor |-> actor, sequence |-> sequence,
   kind |-> kind, object |-> object, version |-> version, data |-> data,
   objects |-> objects, count |-> count]

About(actor, sequence, kind, object, version, data) ==
  Action(actor, sequence, kind, object, version, data, {}, 1)

Erase(actor, sequence, objects) ==
  Action(actor, sequence, "eraser.apply", NoObject, 0, <<>>, objects, 1)

Travel(actor, sequence, kind, count) ==
  Action(actor, sequence, kind, NoObject, 0, <<>>, {}, count)

MCActions ==
  {About("a", 1, "stroke.begin", aStroke, 0, <<1>>),
   About("a", 2, "stroke.append", aStroke, 0, <<2>>),
   About("a", 3, "stroke.end", aStroke, 0, <<>>),
   Travel("a", 4, "undo.apply", 2),
   Travel("a", 5, "viewport.update", 1),
   About("b", 1, "shape.create", aShape, 1, <<1>>),
   About("b", 2, "shape.update", aShape, 2, <<2>>),
   Action("b", 3, "selection.update", NoObject, 0, <<>>, {aShape, ownStroke}, 1),
   Erase("b", 4, {aShape, ownStroke}),
   Travel("b", 5, "redo.apply", 1)}

MCPicks == {{aShape}, {aStroke, ownStroke}}

MCLooks == {<<0>>}
MCStrokes == {<<k>> : k \in 1..3}

\* A board without the user's stroke, and one with what others have seen of it.
Holding(o, kind, actor, data) ==
  [p \in Objects |-> IF p = o THEN [kind |-> kind, by |-> actor, data |-> data] ELSE NoElement]
MCSnapshots == {Holding(aShape, "shape", "b", <<1>>), Holding(ownStroke, "stroke", Me, <<1, 2>>)}
=============================================================================
