----------------------------- MODULE DrawPipeline -----------------------------
(***************************************************************************)
(* The draw pipeline (board-draw-pipeline.svelte.ts) above the board store: *)
(* it draws the user's strokes on the board and turns them into numbered    *)
(* actions (action-identity.svelte.ts) that carry the points in batches.    *)
(*                                                                          *)
(* PipelineNext also has every other step of the store: the pipeline is not *)
(* told when the board under its stroke changes.  Points are numbered in    *)
(* the order in which they are drawn.                                       *)
(***************************************************************************)
EXTENDS BoardStore, SequencesExt

CONSTANTS OwnIds,        \* ids that createObjectId returns, each one once
          BatchSize,
          MaxPoints, MaxSequence, MaxTurns  \* bounds

\* Nobody else makes elements with the user's ids; boards that come from elsewhere
\* may hold them (MayReturn).
ASSUME PipelineAssumption ==
  /\ OwnIds \subseteq Objects
  /\ \A a \in Actions : a.kind # "eraser.apply" => a.object \notin OwnIds
  /\ \A k \in 1..MaxPoints : <<k>> \in Strokes
  /\ BatchSize \in Nat \ {0}
  /\ {MaxPoints, MaxSequence, MaxTurns} \subseteq Nat

VARIABLES strokeId,        \* StrokeDrawPipeline.activeStrokeId
          pendingPoints,
          clientSequence,
          usedIds, drawn,  \* ids and points used so far
          sent,            \* the points carried by an action
          turns            \* how many other steps the store has taken

\* What of the store a step that only appends to its log leaves alone.
restVars == <<editorVars, activeStrokeId, remoteActiveStrokeIdsByActor, historyVars,
              trackingVars, storageVars>>
pipelineVars == <<strokeId, pendingPoints, clientSequence, usedIds, drawn, sent>>
vars == <<restVars, actionLog, pipelineVars, turns>>

PipelineTypeOK ==
  /\ TypeOK
  /\ strokeId \in OwnIds \cup {NoObject}
  /\ pendingPoints \in Seq(1..drawn)
  /\ clientSequence \in Nat
  /\ usedIds \subseteq OwnIds
  /\ drawn \in Nat
  /\ sent \subseteq 1..drawn
  /\ turns \in Nat

PipelineInit ==
  /\ Init
  /\ strokeId = NoObject
  /\ pendingPoints = <<>>
  /\ clientSequence = 0
  /\ usedIds = {} /\ drawn = 0 /\ sent = {}
  /\ turns = 0

\* createActionPayload and appendAction for the next n actions of the user.
LogActionsAnew(n) ==
  /\ clientSequence + n <= MaxSequence
  /\ clientSequence' = clientSequence + n
  /\ actionLog' = {Me} \X (clientSequence + 1 .. clientSequence + n)
LogActions(n) ==
  /\ clientSequence + n <= MaxSequence
  /\ clientSequence' = clientSequence + n
  /\ actionLog' = actionLog \cup ({Me} \X (clientSequence + 1 .. clientSequence + n))

DrawBegin ==
  \E o \in OwnIds \ usedIds :
    /\ strokeId = NoObject
    /\ drawn < MaxPoints
    /\ BeginStroke(o, <<drawn + 1>>)
    /\ LogActions(1)
    /\ strokeId' = o
    /\ pendingPoints' = <<>>
    /\ usedIds' = usedIds \cup {o}
    /\ drawn' = drawn + 1
    /\ sent' = sent \cup {drawn + 1}

IsFull(points) == Len(points) >= BatchSize

AppendPoint ==
  LET points == Append(pendingPoints, drawn + 1)
  IN  /\ strokeId # NoObject
      /\ drawn < MaxPoints
      /\ AppendStrokePoints(strokeId, <<drawn + 1>>)
      /\ drawn' = drawn + 1
      /\ \/ /\ IsFull(points)
            /\ LogActions(1)
            /\ pendingPoints' = <<>>
            /\ sent' = sent \cup ToSet(points)
         \/ /\ ~IsFull(points)
            /\ pendingPoints' = points
            /\ UNCHANGED <<actionLog, clientSequence, sent>>
      /\ UNCHANGED <<strokeId, usedIds>>

FlushPendingPoints ==
  /\ strokeId # NoObject
  /\ pendingPoints # <<>>
  /\ LogActions(1)
  /\ pendingPoints' = <<>>
  /\ sent' = sent \cup ToSet(pendingPoints)
  /\ UNCHANGED <<restVars, strokeId, usedIds, drawn>>

\* endStroke flushes first.  The action for the end is numbered before the
\* store is asked, and logged only if the store agrees: if its stroke is
\* another one, or gone, the pipeline keeps its stroke.
FlushedAtEndDropped == UNCHANGED sent
FlushedAtEnd == sent' = sent \cup ToSet(pendingPoints)

DrawEnd ==
  LET flushed == IF pendingPoints = <<>> THEN 0 ELSE 1
  IN  /\ strokeId # NoObject
      /\ FlushedAtEnd
      /\ pendingPoints' = <<>>
      /\ \/ /\ EndStroke(strokeId)
            /\ LogActions(flushed + 1)
            /\ strokeId' = NoObject
         \/ /\ activeStrokeId # strokeId
            /\ clientSequence + flushed < MaxSequence
            /\ clientSequence' = clientSequence + flushed + 1
            /\ actionLog' = actionLog \cup ({Me} \X (clientSequence + 1 .. clientSequence + flushed))
            /\ UNCHANGED <<restVars, strokeId>>
      /\ UNCHANGED <<usedIds, drawn>>

PipelineSteps == DrawBegin \/ AppendPoint \/ FlushPendingPoints \/ DrawEnd

\* A board that comes from elsewhere, the owner's after a reconnection or a file,
\* holds of the strokes that are drawn on this page what the user had drawn of them
\* by then, or less: an id is new, and stands for no other element.
Ascending(points) == \A i, j \in DOMAIN points : i < j => points[i] < points[j]
MayReturn(board) ==
  \A o \in OwnIds : board[o] # NoElement =>
    /\ o \in usedIds
    /\ board[o].kind = "stroke"
    /\ ToSet(board[o].data) \subseteq 1..drawn
    /\ Ascending(board[o].data)

\* The rest of the store.
OtherSteps ==
  /\ turns < MaxTurns
  /\ \/ EditSteps
     \/ RemoteSteps
     \/ \E board \in Snapshots : MayReturn(board) /\ ReplaceSnapshot(board)
     \/ RestoreCreatorBoard
     \/ PersistCreatorBoardState
  /\ turns' = turns + 1

PipelineNext ==
  \/ PipelineSteps /\ UNCHANGED turns
  \/ OtherSteps /\ UNCHANGED pipelineVars

PipelineSpec == PipelineInit /\ [][PipelineNext]_vars

-----------------------------------------------------------------------------
(* Properties                                                               *)

\* The points of a stroke that the user has drawn on this page are on the board in
\* the order in which they were drawn, and each of them has been put into an action
\* or waits in the pipeline's batch: none of them is forgotten by undo, redo, a
\* board that is restored or comes back from others, or an end of the stroke that
\* the store refuses.  (What becomes of the actions is not said here.)
PointsAreSent ==
  \A o \in OwnIds \cap Present :
    /\ ToSet(elements[o].data) \subseteq sent \cup ToSet(pendingPoints)
    /\ Ascending(elements[o].data)
=============================================================================
