----------------------------- MODULE MCWhiteboard -----------------------------
(***************************************************************************)
(* The parts of the whiteboard in one run: the board with its draw         *)
(* pipeline, its files, its picture, the page, and the board shared end to *)
(* end.  They share no state in these models, so a behaviour is one of a   *)
(* single part, and TLC looks at their sum and not their product.          *)
(***************************************************************************)
EXTENDS MCDrawPipeline, BoardFiles, BoardScene, AppShell, Collab

CONSTANTS good, flawed, h1, h2, newCode, g1, g2, owner

VARIABLE moving  \* the part of this behaviour

File(form, version, cursor, content, viewport) ==
  [form |-> form, version |-> version, cursor |-> cursor,
   elements |-> content, viewport |-> viewport]

\* Without the numbers, with both, with one that is refused; with a board
\* state only; with an element that is refused; and no snapshot at all.
MCFiles ==
  {File("snapshot", {}, {}, <<good>>, TRUE), File("snapshot", {2}, {5}, <<good, good>>, TRUE),
   File("snapshot", {0}, {}, <<good>>, TRUE), File("snapshot", {1}, {-1}, <<good>>, TRUE),
   File("state", {}, {}, <<good>>, TRUE), File("state", {}, {}, <<flawed>>, TRUE),
   File("other", {}, {}, << >>, FALSE)}

Figure(kind, shape, left, top, width, height, rotation, strokeWidth) ==
  [kind |-> kind, shape |-> shape, points |-> {}, x |-> left, y |-> top, width |-> width,
   height |-> height, rotation |-> rotation, strokeWidth |-> strokeWidth]

\* Every shape, drawn to either side, in any rotation and in two places; boxes
\* of text; strokes without points, with one and with two.
MCSceneElements ==
  {Figure("shape", shape, left, 2, width, 6, rotation, 2) :
     shape \in {"rectangle", "ellipse", "diamond", "line", "arrow"},
     left \in {-4, 6}, width \in {-2, 8}, rotation \in 0 .. 3}
  \cup {Figure(kind, "rectangle", -3, 5, width, -10, 0, 0) :
          kind \in {"text", "sticky"}, width \in {-7, 20}}
  \cup {[Figure("stroke", "line", 0, 0, 0, 0, 0, width) EXCEPT !.points = points] :
          width \in {1, 5}, points \in {{}, {<<-9, 1>>}, {<<3, 3>>, <<30, -8>>}}}

\* The guests of the shared board, the only values that are alike.
GuestSymmetry == Permutations(Guests)

Moves(part) == moving = part /\ UNCHANGED moving

WhiteboardInit ==
  /\ moving \in {"board", "files", "picture", "page", "collab"}
  /\ PipelineInit /\ FilesInit /\ boardName = h1 /\ SceneInit /\ ShellInit /\ CollabInit

WhiteboardNext ==
  \/ /\ Moves("board") /\ PipelineNext
     /\ UNCHANGED <<filesVars, scene, shellVars, collabVars>>
  \/ /\ Moves("files") /\ FilesNext
     /\ UNCHANGED <<vars, scene, shellVars, collabVars>>
  \/ /\ Moves("picture") /\ SceneNext
     /\ UNCHANGED <<vars, filesVars, shellVars, collabVars>>
  \/ /\ Moves("page") /\ ShellNext
     /\ UNCHANGED <<vars, filesVars, scene, collabVars>>
  \/ /\ Moves("collab") /\ CollabNext
     /\ UNCHANGED <<vars, filesVars, scene, shellVars>>

WhiteboardSpec ==
  WhiteboardInit /\ [][WhiteboardNext]_<<moving, vars, filesVars, scene, shellVars, collabVars>>

(* The state of each part has its type, a board survives its files and
   storage, and what the page shows of it agrees. *)
WhiteboardInv ==
  /\ PipelineTypeOK /\ FilesTypeOK /\ ShellTypeOK /\ CollabTypeOK
  /\ BoardsTravel /\ StorageReturns /\ ShellSound
=============================================================================
