------------------------------ MODULE BoardStore ------------------------------
(***************************************************************************)
(* The frontend's board store (board-store.svelte.ts): the elements of a    *)
(* board under local edits with undo and redo, under actions received from  *)
(* others, and under snapshots from the relay, a file or local storage.     *)
(*                                                                          *)
(* The order of the elements, the viewport and the two counters of a        *)
(* snapshot are left out: no decision of the store reads them.  Texts and   *)
(* sticky notes are treated exactly as shapes are and stand under "shape".  *)
(* A patch sets what an element shows as a whole.  A missing entry of       *)
(* objectVersions and the version 0 are one, as they are for the code.      *)
(*                                                                          *)
(* A definition named after another one with a suffix that says what is     *)
(* wrong with it (RemovedSelected, ...) is a faulty variant, which nothing  *)
(* uses: a property is shown to notice it in the place of the original.     *)
(***************************************************************************)
EXTENDS Integers, Sequences

CONSTANTS Objects,       \* ids of elements
          NoObject,
          Actors, Me,    \* the others, and the user of this store
          Actions,       \* the actions others may send
          Looks,         \* what the user may make of a shape
          Strokes,       \* the points a step of drawing may add
          Picks,         \* the sets of elements the user may pick
          Snapshots,     \* the boards that may replace this one
          NoElement,     \* an id with no element
          NoEntry,       \* an entry of local storage that is not there
          HistoryLimit   \* defaultUndoHistoryLimit

Element == [kind : {"stroke", "shape"}, by : Actors \cup {Me}, data : Seq(Nat)]
Boards == [Objects -> Element \cup {NoElement}]

\* object: what resolveActionObjectId returns; version 0: none was given.
ActionType ==
  [id : Actors \X Nat, actor : Actors, sequence : Nat \ {0}, kind : STRING,
   object : Objects \cup {NoObject}, version : Nat, data : Seq(Nat),
   objects : SUBSET Objects, count : Nat \ {0}]

\* The kinds of actions that are about one object.
ObjectKinds == {"stroke.begin", "stroke.append", "stroke.end",
                "shape.create", "shape.update", "transform.update"}

\* Action ids are unique, and an actor numbers its actions.
ASSUME BoardAssumption ==
  /\ NoObject \notin Objects
  /\ Me \notin Actors
  /\ HistoryLimit \in Nat \ {0}
  /\ Looks \subseteq Seq(Nat) /\ Strokes \subseteq Seq(Nat)
  /\ Picks \subseteq SUBSET Objects
  /\ NoElement \notin Element
  /\ Snapshots \subseteq Boards
  /\ NoEntry \notin Boards
  /\ Actions \subseteq ActionType
  /\ \A a \in Actions : a.kind \in ObjectKinds => a.object \in Objects
  /\ \A a, b \in Actions :
       a.id = b.id \/ (a.actor = b.actor /\ a.sequence = b.sequence) => a = b

ActionIds == (Actors \cup {Me}) \X Nat

VARIABLES elements, selectedObjectIds, objectVersions,  \* the editor state
          activeStrokeId,
          remoteActiveStrokeIdsByActor,
          undoStack, redoStack,
          lastClientSequenceByActor,
          actionLog,                   \* ids of the actions in the log
          storedSnapshot, storedLog,   \* local storage
          applied                      \* what has become of each action of others

editorVars == <<elements, selectedObjectIds, objectVersions>>
historyVars == <<undoStack, redoStack>>
trackingVars == <<lastClientSequenceByActor, applied>>
storageVars == <<storedSnapshot, storedLog>>
boardVars == <<editorVars, activeStrokeId, remoteActiveStrokeIdsByActor,
               historyVars, trackingVars, actionLog, storageVars>>

Editor == [elements |-> elements, selected |-> selectedObjectIds,
           versions |-> objectVersions]
EditorType == [elements : Boards, selected : SUBSET Objects, versions : [Objects -> Nat]]

\* applied: not since the board was loaded; before, by the log that was loaded
\* with it; since then; more than once.
Fates == {"no", "loaded", "yes", "twice"}

TypeOK ==
  /\ Editor \in EditorType
  /\ activeStrokeId \in Objects \cup {NoObject}
  /\ remoteActiveStrokeIdsByActor \in [Actors -> Objects \cup {NoObject}]
  /\ undoStack \in Seq(EditorType) /\ Len(undoStack) <= HistoryLimit
  /\ redoStack \in Seq(EditorType)
  /\ lastClientSequenceByActor \in [Actors -> Nat]
  /\ actionLog \subseteq ActionIds
  /\ storedSnapshot \in Boards \cup {NoEntry}
  /\ storedLog \subseteq ActionIds
  /\ applied \in [Actions -> Fates]

EmptyBoard == [o \in Objects |-> NoElement]

Init ==
  /\ elements = EmptyBoard
  /\ selectedObjectIds = {}
  /\ objectVersions = [o \in Objects |-> 0]
  /\ activeStrokeId = NoObject
  /\ remoteActiveStrokeIdsByActor = [a \in Actors |-> NoObject]
  /\ undoStack = <<>> /\ redoStack = <<>>
  /\ lastClientSequenceByActor = [a \in Actors |-> 0]
  /\ actionLog = {}
  /\ storedSnapshot = NoEntry /\ storedLog = {}
  /\ applied = [a \in Actions |-> "no"]

-----------------------------------------------------------------------------
(* Changes of the editor state, which local edits and actions share.        *)

Present == {o \in Objects : elements[o] # NoElement}
Shows(o, kind) == o \in Present /\ elements[o].kind = kind

Advanced(o) == objectVersions' = [objectVersions EXCEPT ![o] = @ + 1]

Drawn(o, kind, actor, data) ==
  /\ elements' = [elements EXCEPT ![o] = [kind |-> kind, by |-> actor, data |-> data]]
  /\ Advanced(o)
  /\ UNCHANGED selectedObjectIds

Extended(o, data) ==
  /\ elements' = [elements EXCEPT ![o].data = @ \o data]
  /\ Advanced(o)
  /\ UNCHANGED selectedObjectIds

Changed(o, data) ==
  /\ elements' = [elements EXCEPT ![o].data = data]
  /\ Advanced(o)
  /\ UNCHANGED selectedObjectIds

\* endStroke asks only whether the stroke is the active one: its element may
\* be gone.
Ended(o) == Advanced(o) /\ UNCHANGED <<elements, selectedObjectIds>>

RemovedSelected(os) ==
  /\ elements' = [o \in Objects |-> IF o \in os THEN NoElement ELSE elements[o]]
  /\ objectVersions' = [o \in Objects |-> IF o \in os \cap Present THEN 0 ELSE objectVersions[o]]
  /\ UNCHANGED selectedObjectIds
Removed(os) ==
  /\ elements' = [o \in Objects |-> IF o \in os THEN NoElement ELSE elements[o]]
  /\ objectVersions' = [o \in Objects |-> IF o \in os \cap Present THEN 0 ELSE objectVersions[o]]
  /\ selectedObjectIds' = selectedObjectIds \ os

Selected(os) ==
  /\ selectedObjectIds' = os \cap Present
  /\ UNCHANGED <<elements, objectVersions>>

\* pushUndoCheckpoint, and clearRedoStack after it.
CheckpointUncut ==
  /\ undoStack' = Append(undoStack, Editor)
  /\ redoStack' = <<>>
CheckpointKeepingRedo ==
  /\ undoStack' = IF Len(undoStack) < HistoryLimit
                  THEN Append(undoStack, Editor)
                  ELSE Append(Tail(undoStack), Editor)
  /\ UNCHANGED redoStack
Checkpoint ==
  /\ undoStack' = IF Len(undoStack) < HistoryLimit
                  THEN Append(undoStack, Editor)
                  ELSE Append(Tail(undoStack), Editor)
  /\ redoStack' = <<>>

RestoreEditorState(state) ==
  /\ elements' = state.elements
  /\ selectedObjectIds' = state.selected
  /\ objectVersions' = state.versions

\* n times one step back, or as many as there are: the states passed on the
\* way, the present one first, go onto the other stack.
Steps(stack, n) == IF n < Len(stack) THEN n ELSE Len(stack)
Passed(stack, k) ==
  [i \in 1..k |-> IF i = 1 THEN Editor ELSE stack[Len(stack) + 2 - i]]

UndoBy(n) ==
  LET k == Steps(undoStack, n)
  IN  /\ k > 0
      /\ RestoreEditorState(undoStack[Len(undoStack) + 1 - k])
      /\ undoStack' = SubSeq(undoStack, 1, Len(undoStack) - k)
      /\ redoStack' = redoStack \o Passed(undoStack, k)

RedoBy(n) ==
  LET k == Steps(redoStack, n)
  IN  /\ k > 0
      /\ RestoreEditorState(redoStack[Len(redoStack) + 1 - k])
      /\ redoStack' = SubSeq(redoStack, 1, Len(redoStack) - k)
      /\ undoStack' = undoStack \o Passed(redoStack, k)

-----------------------------------------------------------------------------
(* Local edits.  The draw pipeline, which makes the strokes, also appends   *)
(* the actions for them to the log in the same turn.                        *)

\* The ids that callers append are their own.
LogOwnActions ==
  /\ actionLog \subseteq actionLog'
  /\ actionLog' \subseteq actionLog \cup ({Me} \X Nat)

OnlyEditor == UNCHANGED <<activeStrokeId, remoteActiveStrokeIdsByActor, trackingVars,
                          actionLog, storageVars>>

\* The id is a new one.
BeginStroke(o, data) ==
  /\ activeStrokeId = NoObject
  /\ o \notin Present
  /\ Checkpoint
  /\ Drawn(o, "stroke", Me, data)
  /\ activeStrokeId' = o
  /\ UNCHANGED <<remoteActiveStrokeIdsByActor, trackingVars, storageVars>>

AppendStrokePoints(o, data) ==
  /\ activeStrokeId = o
  /\ Shows(o, "stroke")
  /\ Extended(o, data)
  /\ UNCHANGED <<activeStrokeId, remoteActiveStrokeIdsByActor, historyVars,
                 trackingVars, storageVars>>

EndStroke(o) ==
  /\ activeStrokeId = o
  /\ Ended(o)
  /\ activeStrokeId' = NoObject
  /\ UNCHANGED <<remoteActiveStrokeIdsByActor, historyVars, trackingVars, storageVars>>

TransformObject(o, data) ==
  /\ Shows(o, "shape")
  /\ Checkpoint
  /\ Changed(o, data)
  /\ OnlyEditor

DeleteObjects(os) ==
  /\ os \cap Present # {}
  /\ Checkpoint
  /\ Removed(os)
  /\ OnlyEditor

UpdateSelection(os) == Selected(os) /\ UNCHANGED historyVars /\ OnlyEditor

Undo == UndoBy(1) /\ OnlyEditor

Redo == RedoBy(1) /\ OnlyEditor

-----------------------------------------------------------------------------
(* Actions of others.                                                       *)

NotInLogUnchecked(action) == TRUE
NotInLog(action) == action.id \notin actionLog

SequenceIsNewUnchecked(action) == TRUE
SequenceIsNew(action) == action.sequence > lastClientSequenceByActor[action.actor]

VersionIsNew(action) ==
  action.object # NoObject /\ action.version # 0
    => objectVersions[action.object] < action.version

RemoteBegin(action) ==
  /\ action.kind = "stroke.begin"
  /\ remoteActiveStrokeIdsByActor[action.actor] = NoObject
  /\ action.object \notin Present
  /\ Drawn(action.object, "stroke", action.actor, action.data)
  /\ remoteActiveStrokeIdsByActor' =
       [remoteActiveStrokeIdsByActor EXCEPT ![action.actor] = action.object]
  /\ UNCHANGED historyVars

RemoteAppend(action) ==
  /\ action.kind = "stroke.append"
  /\ remoteActiveStrokeIdsByActor[action.actor] = action.object
  /\ Shows(action.object, "stroke")
  /\ Extended(action.object, action.data)
  /\ UNCHANGED <<remoteActiveStrokeIdsByActor, historyVars>>

RemoteEnd(action) ==
  /\ action.kind = "stroke.end"
  /\ remoteActiveStrokeIdsByActor[action.actor] = action.object
  /\ Ended(action.object)
  /\ remoteActiveStrokeIdsByActor' =
       [remoteActiveStrokeIdsByActor EXCEPT ![action.actor] = NoObject]
  /\ UNCHANGED historyVars

RemoteCreate(action) ==
  /\ action.kind = "shape.create"
  /\ action.object \notin Present
  /\ Drawn(action.object, "shape", action.actor, action.data)
  /\ UNCHANGED <<remoteActiveStrokeIdsByActor, historyVars>>

RemoteUpdate(action) ==
  /\ action.kind \in {"shape.update", "transform.update"}
  /\ Shows(action.object, "shape")
  /\ Changed(action.object, action.data)
  /\ UNCHANGED <<remoteActiveStrokeIdsByActor, historyVars>>

RemoteDelete(action) ==
  /\ action.kind \in {"shape.delete", "eraser.apply"}
  /\ action.objects \cap Present # {}
  /\ Removed(action.objects)
  /\ UNCHANGED <<remoteActiveStrokeIdsByActor, historyVars>>

RemoteSelect(action) ==
  /\ action.kind = "selection.update"
  /\ Selected(action.objects)
  /\ UNCHANGED <<remoteActiveStrokeIdsByActor, historyVars>>

RemoteViewport(action) ==
  /\ action.kind = "viewport.update"
  /\ UNCHANGED <<editorVars, remoteActiveStrokeIdsByActor, historyVars>>

\* undo.apply and redo.apply work on the stacks of this store.
RemoteTravel(action) ==
  /\ \/ action.kind = "undo.apply" /\ UndoBy(action.count)
     \/ action.kind = "redo.apply" /\ RedoBy(action.count)
  /\ UNCHANGED remoteActiveStrokeIdsByActor

ApplyActionMutation(action) ==
  \/ RemoteBegin(action) \/ RemoteAppend(action) \/ RemoteEnd(action)
  \/ RemoteCreate(action) \/ RemoteUpdate(action) \/ RemoteDelete(action)
  \/ RemoteSelect(action) \/ RemoteViewport(action) \/ RemoteTravel(action)

\* An action that cannot be applied leaves no trace.
ApplyRemoteAction(action) ==
  /\ NotInLog(action) /\ SequenceIsNew(action) /\ VersionIsNew(action)
  /\ ApplyActionMutation(action)
  /\ actionLog' = actionLog \cup {action.id}
  /\ lastClientSequenceByActor' =
       [lastClientSequenceByActor EXCEPT ![action.actor] = action.sequence]
  /\ applied' = [applied EXCEPT ![action] = IF @ = "no" THEN "yes" ELSE "twice"]
  /\ UNCHANGED <<activeStrokeId, storageVars>>

-----------------------------------------------------------------------------
(* Boards that replace the present one, and local storage.                  *)

ClearHistory == undoStack' = <<>> /\ redoStack' = <<>>
ClearSelection == selectedObjectIds' = {}

Load(board, log) ==
  /\ elements' = board
  /\ actionLog' = log
  /\ ClearSelection
  /\ activeStrokeId' = NoObject
  /\ remoteActiveStrokeIdsByActor' = [a \in Actors |-> NoObject]
  /\ lastClientSequenceByActor' = [a \in Actors |-> 0]
  /\ objectVersions' = [o \in Objects |-> 0]
  /\ ClearHistory
  /\ applied' = [a \in Actions |-> IF a.id \in log THEN "loaded" ELSE "no"]

\* loadSnapshot, importFromJson, a snapshot from the relay.
ReplaceSnapshot(board) == Load(board, {}) /\ UNCHANGED storageVars

\* Two writes, the second of which may throw when the first did not.
PersistCreatorBoardState ==
  /\ storedSnapshot' = elements
  /\ storedLog' \in {actionLog, storedLog}
  /\ UNCHANGED <<editorVars, activeStrokeId, remoteActiveStrokeIdsByActor,
                 historyVars, trackingVars, actionLog>>

\* The log counts only together with a snapshot.
RestoreCreatorBoard ==
  /\ IF storedSnapshot = NoEntry THEN Load(EmptyBoard, {}) ELSE Load(storedSnapshot, storedLog)
  /\ UNCHANGED storageVars

-----------------------------------------------------------------------------
EditSteps ==
  \/ \E o \in Objects, data \in Looks : TransformObject(o, data)
  \/ \E os \in Picks : DeleteObjects(os) \/ UpdateSelection(os)
  \/ Undo \/ Redo

RemoteSteps == \E action \in Actions : ApplyRemoteAction(action)

LoadSteps ==
  \/ \E board \in Snapshots : ReplaceSnapshot(board)
  \/ RestoreCreatorBoard

StrokeSteps ==
  \E o \in Objects :
    \/ \E data \in Strokes : BeginStroke(o, data) \/ AppendStrokePoints(o, data)
    \/ EndStroke(o)

\* appendAction alone.
AppendAction ==
  UNCHANGED <<editorVars, activeStrokeId, remoteActiveStrokeIdsByActor, historyVars,
              trackingVars, storageVars>>

Next ==
  \/ EditSteps \/ RemoteSteps \/ LoadSteps \/ PersistCreatorBoardState
  \/ (StrokeSteps \/ AppendAction) /\ LogOwnActions

\* The store under any order of calls: what a caller is left with is never more
\* than this, and the draw pipeline keeps to it, its writes to the log included.
Spec == Init /\ [][Next]_boardVars

-----------------------------------------------------------------------------
(* Properties                                                               *)

\* What is selected is on the board, also after somebody else has deleted it
\* or an undo has brought back another board.
SelectionExists == selectedObjectIds \subseteq Present

\* Undo and redo together never hold more states than the history limit, though
\* only the undo stack is ever cut.
HistoryBounded == Len(undoStack) + Len(redoStack) <= HistoryLimit

\* The editor's own state is sound, whatever others do to the board under it:
\* its selection, and its two stacks.
EditorSound == SelectionExists /\ HistoryBounded

\* No action changes the board twice, however often and in whatever order
\* actions arrive, after undoing, and after the board was restored with its
\* log.
AppliedOnce == \A a \in Actions : applied[a] # "twice"

\* The actions of one actor change the board in the order in which they were
\* made, also when they do not arrive in it.
AppliedInOrder ==
  [][\A a \in Actions : applied[a] = "no" /\ applied'[a] = "yes" =>
       \A b \in Actions : a.actor = b.actor /\ applied[b] = "yes"
         => b.sequence < a.sequence]_boardVars

\* Undo and redo are per user: the user's own undo takes back nothing that
\* somebody else has drawn.  (The code does not: an undo restores the whole
\* board as it was before the user's last edit.)
UndoKeepsOthersWork ==
  [][Undo => \A o \in Present : elements[o].by # Me => o \in Present']_boardVars
=============================================================================
