--------------------------- MODULE WhiteboardProofs --------------------------
(***************************************************************************)
(* Proofs about the whiteboard of one user, for any board, any ids and     *)
(* actions and any bounds.  Of the board store: types, selection, the      *)
(* bound on undo and redo, and actions of others that count once and in    *)
(* order.  Of the draw pipeline above it: it keeps to the board store's    *)
(* specification, so that what is proved of the store under any order of   *)
(* calls holds under the pipeline, and every point that is shown is sent.  *)
(* Of files and storage: boards travel and come back.  Of the picture: it  *)
(* holds what is painted.  Of the page: it agrees with its session.  And of *)
(* all of them beside each other, with the board that is shared.           *)
(***************************************************************************)
EXTENDS MCWhiteboard, CollabProofs, SequenceTheorems, FiniteSetTheorems,
        WellFoundedInduction, TLAPS

(***************************************************************************)
(* The board store.                                                        *)
(***************************************************************************)
\* Editor states that select only what they show: undo brings back the states
\* on the stacks, so the selection is sound only if theirs is.
SoundEditors ==
  {e \in EditorType : e.selected \subseteq {o \in Objects : e.elements[o] # NoElement}}

EditorInv == Editor \in SoundEditors

\* The bound is on both stacks together, as undo and redo move states between
\* them without cutting.
HistoryInv ==
  /\ undoStack \in Seq(SoundEditors)
  /\ redoStack \in Seq(SoundEditors)
  /\ HistoryBounded

TrackingInv ==
  /\ activeStrokeId \in Objects \cup {NoObject}
  /\ remoteActiveStrokeIdsByActor \in [Actors -> Objects \cup {NoObject}]
  /\ lastClientSequenceByActor \in [Actors -> Nat]
  /\ actionLog \subseteq ActionIds
  /\ applied \in [Actions -> Fates]

StorageInv ==
  /\ storedSnapshot \in Boards \cup {NoEntry}
  /\ storedLog \subseteq ActionIds

BoardInv == EditorInv /\ HistoryInv /\ TrackingInv /\ StorageInv

LEMMA BoardInvImplies == BoardInv => TypeOK /\ SelectionExists /\ HistoryBounded
<1> SUFFICES ASSUME BoardInv PROVE TypeOK /\ SelectionExists
  BY DEF BoardInv, HistoryInv
<1>1. Editor \in EditorType /\ SelectionExists
  BY DEF BoardInv, EditorInv, SoundEditors, Editor, SelectionExists, Present
<1>2. undoStack \in Seq(EditorType) /\ redoStack \in Seq(EditorType)
  BY DEF BoardInv, HistoryInv, SoundEditors
<1>3. Len(undoStack) <= HistoryLimit
  BY <1>2, BoardAssumption DEF BoardInv, HistoryInv, HistoryBounded
<1> QED BY <1>1, <1>2, <1>3 DEF BoardInv, TrackingInv, StorageInv, TypeOK

-----------------------------------------------------------------------------
(* Changes of the editor state.                                             *)

\* EditorInv in terms of the variables.
LEMMA EditorParts ==
  EditorInv <=> /\ elements \in Boards
                /\ objectVersions \in [Objects -> Nat]
                /\ selectedObjectIds \subseteq Present
  BY DEF EditorInv, SoundEditors, Editor, EditorType, Present

\* An element put on the board.
LEMMA DrawnSound ==
  ASSUME EditorInv, NEW o \in Objects, NEW kind \in {"stroke", "shape"},
         NEW actor \in Actors \cup {Me}, NEW data \in Seq(Nat),
         Drawn(o, kind, actor, data)
  PROVE  EditorInv'
<1> DEFINE new == [kind |-> kind, by |-> actor, data |-> data]
<1>1. new \in Element /\ new # NoElement
  BY BoardAssumption DEF Element
<1>2. /\ elements \in Boards
      /\ objectVersions \in [Objects -> Nat]
      /\ selectedObjectIds \subseteq Present
  BY EditorParts
<1>3. elements' = [elements EXCEPT ![o] = new]
  BY DEF Drawn
<1> HIDE DEF new
<1>4. elements' \in Boards /\ selectedObjectIds' \subseteq Present'
  BY <1>1, <1>2, <1>3 DEF Boards, Drawn, Present
<1>5. objectVersions' \in [Objects -> Nat]
  BY <1>2 DEF Drawn, Advanced
<1> QED BY <1>4, <1>5, EditorParts DEF EditorInv, SoundEditors, Editor, EditorType, Present

\* A change of what an element shows.
LEMMA DataSound ==
  ASSUME EditorInv, NEW o \in Present, NEW data \in Seq(Nat),
         elements' = [elements EXCEPT ![o].data = data],
         Advanced(o), UNCHANGED selectedObjectIds
  PROVE  EditorInv'
<1>1. /\ elements \in Boards
      /\ objectVersions \in [Objects -> Nat]
      /\ selectedObjectIds \subseteq Present
  BY EditorParts
<1>2. elements[o] \in Element
  BY <1>1 DEF Present, Boards
<1>3. [elements[o] EXCEPT !.data = data] \in Element
  BY <1>2 DEF Element
<1>4. [elements[o] EXCEPT !.data = data] # NoElement
  BY <1>3, BoardAssumption
<1>5. elements' = [elements EXCEPT ![o] = [elements[o] EXCEPT !.data = data]]
  OBVIOUS
<1>6. elements' \in Boards /\ selectedObjectIds' \subseteq Present'
  BY <1>1, <1>3, <1>4, <1>5 DEF Boards, Present
<1>7. objectVersions' \in [Objects -> Nat]
  BY <1>1 DEF Advanced, Present
<1> QED BY <1>6, <1>7 DEF EditorInv, SoundEditors, Editor, EditorType, Present

LEMMA ExtendedSound ==
  ASSUME EditorInv, NEW o \in Present, NEW data \in Seq(Nat), Extended(o, data)
  PROVE  EditorInv'
<1>1. elements[o] \in Element
  BY EditorParts DEF Present, Boards
<1>2. elements[o].data \o data \in Seq(Nat)
  BY <1>1, ConcatProperties DEF Element
<1>3. elements' = [elements EXCEPT ![o].data = elements[o].data \o data]
  BY DEF Extended
<1> QED BY <1>2, <1>3, DataSound DEF Extended

LEMMA ChangedSound ==
  ASSUME EditorInv, NEW o \in Present, NEW data \in Seq(Nat), Changed(o, data)
  PROVE  EditorInv'
BY DataSound DEF Changed

LEMMA EndedSound ==
  ASSUME EditorInv, NEW o \in Objects, Ended(o)
  PROVE  EditorInv'
<1>1. objectVersions' \in [Objects -> Nat]
  BY EditorParts DEF Ended, Advanced
<1> QED BY <1>1, EditorParts DEF Ended, EditorInv, SoundEditors, Editor, EditorType, Present

LEMMA RemovedSound ==
  ASSUME EditorInv, NEW os \in SUBSET Objects, Removed(os)
  PROVE  EditorInv'
<1>1. /\ elements \in Boards
      /\ objectVersions \in [Objects -> Nat]
      /\ selectedObjectIds \subseteq Present
  BY EditorParts
<1>2. objectVersions' \in [Objects -> Nat]
  BY <1>1 DEF Removed
<1>3. elements' \in Boards
  BY <1>1 DEF Removed, Boards
<1>4. selectedObjectIds' \subseteq {o \in Objects : elements'[o] # NoElement}
  BY <1>1 DEF Removed, Present
<1> QED BY <1>2, <1>3, <1>4 DEF EditorInv, SoundEditors, Editor, EditorType

LEMMA SelectedSound ==
  ASSUME EditorInv, NEW os \in SUBSET Objects, Selected(os)
  PROVE  EditorInv'
BY EditorParts DEF Selected, EditorInv, SoundEditors, Editor, EditorType, Present

-----------------------------------------------------------------------------
(* The stacks.                                                              *)

LEMMA CheckpointSound ==
  ASSUME EditorInv, HistoryInv, Checkpoint
  PROVE  HistoryInv'
<1>1. undoStack \in Seq(SoundEditors) /\ redoStack \in Seq(SoundEditors)
  BY DEF HistoryInv
<1>2. Len(undoStack) <= HistoryLimit
  BY <1>1, BoardAssumption DEF HistoryInv, HistoryBounded
<1>3. redoStack' \in Seq(SoundEditors) /\ Len(redoStack') = 0
  BY EmptySeq DEF Checkpoint
<1>4. undoStack' \in Seq(SoundEditors) /\ Len(undoStack') <= HistoryLimit
  <2>1. CASE Len(undoStack) < HistoryLimit
    BY <1>1, <2>1, AppendProperties, BoardAssumption DEF Checkpoint, EditorInv
  <2>2. CASE ~(Len(undoStack) < HistoryLimit)
    <3>1. Len(undoStack) = HistoryLimit /\ undoStack # <<>>
      BY <1>1, <1>2, <2>2, BoardAssumption
    <3>2. Tail(undoStack) \in Seq(SoundEditors) /\ Len(Tail(undoStack)) = HistoryLimit - 1
      BY <1>1, <3>1, HeadTailProperties
    <3>3. undoStack' = Append(Tail(undoStack), Editor)
      BY <2>2 DEF Checkpoint
    <3> QED BY <3>2, <3>3, AppendProperties, BoardAssumption DEF EditorInv
  <2> QED BY <2>1, <2>2
<1> QED BY <1>3, <1>4, BoardAssumption DEF HistoryInv, HistoryBounded

\* What undoing or redoing n steps takes off one stack and puts on the other.
LEMMA TravelSound ==
  ASSUME NEW S, Editor \in S, NEW from \in Seq(S), NEW to \in Seq(S),
         NEW n \in Nat, Steps(from, n) > 0
  PROVE  LET k == Steps(from, n)
             rest == SubSeq(from, 1, Len(from) - k)
             more == to \o Passed(from, k)
         IN  /\ from[Len(from) + 1 - k] \in S
             /\ rest \in Seq(S)
             /\ more \in Seq(S)
             /\ Len(rest) + Len(more) = Len(from) + Len(to)
<1> DEFINE k == Steps(from, n)
           rest == SubSeq(from, 1, Len(from) - k)
           passed == Passed(from, k)
<1>1. k \in 1..Len(from)
  BY DEF Steps
<1>2. from[Len(from) + 1 - k] \in S
  BY <1>1
<1>3. rest \in Seq(S) /\ Len(rest) = Len(from) - k
  BY <1>1, SubSeqProperties
<1>4. passed \in Seq(S) /\ Len(passed) = k
  <2>1. \A i \in 1..k : i # 1 => Len(from) + 2 - i \in 1..Len(from)
    BY <1>1
  <2>2. \A i \in 1..k :
          (IF i = 1 THEN Editor ELSE from[Len(from) + 2 - i]) \in S
    BY <2>1
  <2>3. passed \in [1..k -> S]
    BY <2>2 DEF Passed
  <2> QED BY <1>1, <2>3
<1>5. to \o passed \in Seq(S) /\ Len(to \o passed) = Len(to) + k
  BY <1>4, ConcatProperties
<1>6. Len(rest) + Len(to \o passed) = Len(from) + Len(to)
  <2>1. Len(from) \in Nat /\ Len(to) \in Nat
    OBVIOUS
  <2> HIDE DEF k, rest, passed
  <2> QED BY <1>1, <1>3, <1>5, <2>1
<1> QED BY <1>2, <1>3, <1>5, <1>6

LEMMA RestoredSound ==
  ASSUME NEW state \in SoundEditors, RestoreEditorState(state)
  PROVE  EditorInv'
<1>1. Editor' = state
  BY DEF RestoreEditorState, Editor, SoundEditors, EditorType
<1> QED BY <1>1 DEF EditorInv

LEMMA UndoBySound ==
  ASSUME EditorInv, HistoryInv, NEW n \in Nat, UndoBy(n)
  PROVE  EditorInv' /\ HistoryInv'
<1> DEFINE k == Steps(undoStack, n)
<1>1. /\ undoStack \in Seq(SoundEditors) /\ redoStack \in Seq(SoundEditors)
      /\ Len(undoStack) + Len(redoStack) <= HistoryLimit
  BY DEF HistoryInv, HistoryBounded
<1>2. /\ k > 0
      /\ RestoreEditorState(undoStack[Len(undoStack) + 1 - k])
      /\ undoStack' = SubSeq(undoStack, 1, Len(undoStack) - k)
      /\ redoStack' = redoStack \o Passed(undoStack, k)
  BY DEF UndoBy
<1>3. /\ undoStack[Len(undoStack) + 1 - k] \in SoundEditors
      /\ undoStack' \in Seq(SoundEditors) /\ redoStack' \in Seq(SoundEditors)
      /\ Len(undoStack') + Len(redoStack') = Len(undoStack) + Len(redoStack)
  BY <1>1, <1>2, TravelSound DEF EditorInv
<1> HIDE DEF k
<1> QED BY <1>1, <1>2, <1>3, RestoredSound DEF HistoryInv, HistoryBounded

LEMMA RedoBySound ==
  ASSUME EditorInv, HistoryInv, NEW n \in Nat, RedoBy(n)
  PROVE  EditorInv' /\ HistoryInv'
<1> DEFINE k == Steps(redoStack, n)
<1>1. /\ undoStack \in Seq(SoundEditors) /\ redoStack \in Seq(SoundEditors)
      /\ Len(undoStack) + Len(redoStack) <= HistoryLimit
  BY DEF HistoryInv, HistoryBounded
<1>2. /\ k > 0
      /\ RestoreEditorState(redoStack[Len(redoStack) + 1 - k])
      /\ redoStack' = SubSeq(redoStack, 1, Len(redoStack) - k)
      /\ undoStack' = undoStack \o Passed(redoStack, k)
  BY DEF RedoBy
<1>3. /\ redoStack[Len(redoStack) + 1 - k] \in SoundEditors
      /\ undoStack' \in Seq(SoundEditors) /\ redoStack' \in Seq(SoundEditors)
      /\ Len(redoStack') + Len(undoStack') = Len(redoStack) + Len(undoStack)
  BY <1>1, <1>2, TravelSound DEF EditorInv
<1>4. Len(undoStack') + Len(redoStack') <= HistoryLimit
  BY <1>1, <1>3, BoardAssumption
<1> HIDE DEF k
<1> QED BY <1>2, <1>3, <1>4, RestoredSound DEF HistoryInv, HistoryBounded

-----------------------------------------------------------------------------
(* Actions of others are counted.                                           *)

\* An action that has changed the board is in the log, which refuses it from
\* then on, and its author has numbered it no higher than the last one.
CountedInv ==
  /\ AppliedOnce
  /\ \A a \in Actions : applied[a] # "no" => a.id \in actionLog
  /\ \A a \in Actions : applied[a] = "yes" => a.sequence <= lastClientSequenceByActor[a.actor]

StoreInv == BoardInv /\ CountedInv

\* Own edits only add to the log.
LEMMA OwnKeepsCounts ==
  ASSUME StoreInv, LogOwnActions, activeStrokeId' \in Objects \cup {NoObject},
         UNCHANGED <<remoteActiveStrokeIdsByActor, trackingVars>>
  PROVE  TrackingInv' /\ CountedInv'
<1>1. actionLog' \subseteq ActionIds
  BY DEF LogOwnActions, StoreInv, BoardInv, TrackingInv, ActionIds
<1> QED
  BY <1>1 DEF StoreInv, BoardInv, TrackingInv, CountedInv, AppliedOnce, LogOwnActions, trackingVars

LEMMA OnlyEditorKeepsRest ==
  ASSUME StoreInv, OnlyEditor
  PROVE  TrackingInv' /\ StorageInv' /\ CountedInv'
BY DEF OnlyEditor, trackingVars, storageVars, StoreInv, BoardInv, TrackingInv, StorageInv,
       CountedInv, AppliedOnce

LEMMA HistoryKept ==
  ASSUME HistoryInv, UNCHANGED historyVars
  PROVE  HistoryInv'
BY DEF HistoryInv, HistoryBounded, historyVars

\* Edits of the user other than strokes.
LEMMA EditSound ==
  ASSUME StoreInv, EditSteps
  PROVE  StoreInv'
<1> USE DEF BoardInv
<1>1. OnlyEditor /\ EditorInv' /\ HistoryInv'
  <2>0. EditorInv /\ HistoryInv
    BY DEF StoreInv
  <2>1. ASSUME NEW o \in Objects, NEW data \in Looks, TransformObject(o, data)
        PROVE  OnlyEditor /\ EditorInv' /\ HistoryInv'
    <3>1. o \in Present /\ data \in Seq(Nat)
      BY <2>1, BoardAssumption DEF TransformObject, Shows
    <3>2. Checkpoint /\ Changed(o, data) /\ OnlyEditor
      BY <2>1 DEF TransformObject
    <3> QED BY <2>0, <3>1, <3>2, CheckpointSound, ChangedSound
  <2>2. ASSUME NEW os \in Picks, DeleteObjects(os)
        PROVE  OnlyEditor /\ EditorInv' /\ HistoryInv'
    <3>1. os \in SUBSET Objects
      BY BoardAssumption
    <3>2. Checkpoint /\ Removed(os) /\ OnlyEditor
      BY <2>2 DEF DeleteObjects
    <3> QED BY <2>0, <3>1, <3>2, CheckpointSound, RemovedSound
  <2>3. ASSUME NEW os \in Picks, UpdateSelection(os)
        PROVE  OnlyEditor /\ EditorInv' /\ HistoryInv'
    <3>1. os \in SUBSET Objects
      BY BoardAssumption
    <3>2. Selected(os) /\ UNCHANGED historyVars /\ OnlyEditor
      BY <2>3 DEF UpdateSelection
    <3> QED BY <2>0, <3>1, <3>2, SelectedSound, HistoryKept
  <2>4. CASE Undo
    BY <2>0, <2>4, UndoBySound DEF Undo
  <2>5. CASE Redo
    BY <2>0, <2>5, RedoBySound DEF Redo
  <2> QED BY <2>1, <2>2, <2>3, <2>4, <2>5 DEF EditSteps
<1>2. TrackingInv' /\ StorageInv' /\ CountedInv'
  BY <1>1, OnlyEditorKeepsRest
<1> QED BY <1>1, <1>2 DEF StoreInv

\* Strokes of the user, with the actions that are logged for them.
LEMMA StrokeSound ==
  ASSUME StoreInv, StrokeSteps \/ AppendAction, LogOwnActions
  PROVE  StoreInv'
<1>1. EditorInv /\ HistoryInv /\ TrackingInv /\ StorageInv
  BY DEF StoreInv, BoardInv
<1> DEFINE EditorKept == /\ EditorInv' /\ HistoryInv'
                         /\ activeStrokeId' \in Objects \cup {NoObject}
                         /\ UNCHANGED <<remoteActiveStrokeIdsByActor, trackingVars, storageVars>>
<1>2. ASSUME NEW o \in Objects, NEW data \in Strokes, BeginStroke(o, data)
      PROVE  EditorKept
  <2>1. data \in Seq(Nat)
    BY BoardAssumption
  <2>2. Checkpoint /\ Drawn(o, "stroke", Me, data)
    BY <1>2 DEF BeginStroke
  <2>3. EditorInv' /\ HistoryInv'
    BY <1>1, <2>1, <2>2, CheckpointSound, DrawnSound
  <2> QED BY <1>2, <2>3 DEF BeginStroke
<1>3. ASSUME NEW o \in Objects, NEW data \in Strokes, AppendStrokePoints(o, data)
      PROVE  EditorKept
  <2>1. data \in Seq(Nat) /\ o \in Present
    BY <1>3, BoardAssumption DEF AppendStrokePoints, Shows
  <2>2. EditorInv'
    BY <1>1, <1>3, <2>1, ExtendedSound DEF AppendStrokePoints
  <2>3. HistoryInv'
    BY <1>1, <1>3, HistoryKept DEF AppendStrokePoints
  <2> QED BY <1>1, <1>3, <2>2, <2>3 DEF AppendStrokePoints, TrackingInv
<1>4. ASSUME NEW o \in Objects, EndStroke(o)
      PROVE  EditorKept
  <2>1. EditorInv' /\ HistoryInv'
    BY <1>1, <1>4, EndedSound, HistoryKept DEF EndStroke
  <2> QED BY <1>4, <2>1 DEF EndStroke
<1>5. ASSUME AppendAction
      PROVE  EditorKept
  <2>1. EditorInv' /\ HistoryInv'
    BY <1>1, <1>5, HistoryKept DEF AppendAction, editorVars, EditorInv, Editor
  <2> QED BY <1>1, <1>5, <2>1 DEF AppendAction, TrackingInv
<1>6. EditorKept
  BY <1>2, <1>3, <1>4, <1>5 DEF StrokeSteps
<1>7. StorageInv'
  BY <1>1, <1>6 DEF StorageInv, storageVars
<1>8. TrackingInv' /\ CountedInv'
  BY <1>6, OwnKeepsCounts
<1> QED BY <1>6, <1>7, <1>8 DEF StoreInv, BoardInv

-----------------------------------------------------------------------------
(* Actions of others.                                                       *)

\* What an action does to the board, whatever its kind.
LEMMA MutationSound ==
  ASSUME StoreInv, NEW action \in Actions, ApplyActionMutation(action)
  PROVE  /\ EditorInv' /\ HistoryInv'
         /\ remoteActiveStrokeIdsByActor' \in [Actors -> Objects \cup {NoObject}]
<1>1. /\ EditorInv /\ HistoryInv
      /\ remoteActiveStrokeIdsByActor \in [Actors -> Objects \cup {NoObject}]
  BY DEF StoreInv, BoardInv, TrackingInv
<1>2. /\ action.actor \in Actors /\ action.data \in Seq(Nat)
      /\ action.objects \in SUBSET Objects /\ action.count \in Nat
      /\ action.kind \in ObjectKinds => action.object \in Objects
  BY BoardAssumption DEF ActionType
<1> DEFINE EditorKept == /\ EditorInv' /\ HistoryInv'
                         /\ remoteActiveStrokeIdsByActor' \in [Actors -> Objects \cup {NoObject}]
<1>3. CASE RemoteBegin(action)
  <2>1. action.object \in Objects
    BY <1>2, <1>3 DEF RemoteBegin, ObjectKinds
  <2>2. EditorInv'
    BY <1>1, <1>2, <1>3, <2>1, DrawnSound DEF RemoteBegin
  <2> QED BY <1>1, <1>2, <1>3, <2>1, <2>2, HistoryKept DEF RemoteBegin
<1>4. CASE RemoteAppend(action)
  <2>1. action.object \in Present
    BY <1>4 DEF RemoteAppend, Shows
  <2> QED BY <1>1, <1>2, <1>4, <2>1, ExtendedSound, HistoryKept DEF RemoteAppend
<1>5. CASE RemoteEnd(action)
  <2>1. action.object \in Objects
    BY <1>2, <1>5 DEF RemoteEnd, ObjectKinds
  <2>2. EditorInv'
    BY <1>1, <1>5, <2>1, EndedSound DEF RemoteEnd
  <2> QED BY <1>1, <1>2, <1>5, <2>2, HistoryKept DEF RemoteEnd
<1>6. CASE RemoteCreate(action)
  <2>1. action.object \in Objects
    BY <1>2, <1>6 DEF RemoteCreate, ObjectKinds
  <2>2. EditorInv'
    BY <1>1, <1>2, <1>6, <2>1, DrawnSound DEF RemoteCreate
  <2> QED BY <1>1, <1>6, <2>2, HistoryKept DEF RemoteCreate
<1>7. CASE RemoteUpdate(action)
  <2>1. action.object \in Present
    BY <1>7 DEF RemoteUpdate, Shows
  <2> QED BY <1>1, <1>2, <1>7, <2>1, ChangedSound, HistoryKept DEF RemoteUpdate
<1>8. CASE RemoteDelete(action)
  BY <1>1, <1>2, <1>8, RemovedSound, HistoryKept DEF RemoteDelete
<1>9. CASE RemoteSelect(action)
  BY <1>1, <1>2, <1>9, SelectedSound, HistoryKept DEF RemoteSelect
<1>10. CASE RemoteViewport(action)
  <2>1. EditorInv'
    BY <1>1, <1>10 DEF RemoteViewport, editorVars, EditorInv, Editor
  <2> QED BY <1>1, <1>10, <2>1, HistoryKept DEF RemoteViewport
<1>11. CASE RemoteTravel(action)
  <2>1. EditorInv' /\ HistoryInv'
    BY <1>1, <1>2, <1>11, UndoBySound, RedoBySound DEF RemoteTravel
  <2> QED BY <1>1, <1>11, <2>1 DEF RemoteTravel
<1> QED BY <1>3, <1>4, <1>5, <1>6, <1>7, <1>8, <1>9, <1>10, <1>11 DEF ApplyActionMutation

\* An action that is accepted is counted for the first time.
LEMMA RemoteSound ==
  ASSUME StoreInv, NEW action \in Actions, ApplyRemoteAction(action)
  PROVE  StoreInv'
<1>1. /\ NotInLog(action) /\ SequenceIsNew(action) /\ ApplyActionMutation(action)
      /\ actionLog' = actionLog \cup {action.id}
      /\ lastClientSequenceByActor' =
           [lastClientSequenceByActor EXCEPT ![action.actor] = action.sequence]
      /\ applied' = [applied EXCEPT ![action] = IF @ = "no" THEN "yes" ELSE "twice"]
      /\ UNCHANGED <<activeStrokeId, storageVars>>
  BY DEF ApplyRemoteAction
<1>2. EditorInv' /\ HistoryInv'
      /\ remoteActiveStrokeIdsByActor' \in [Actors -> Objects \cup {NoObject}]
  BY <1>1, MutationSound
<1>3. TrackingInv /\ StorageInv /\ CountedInv
  BY DEF StoreInv, BoardInv
<1>4. \A a \in Actions : /\ a.actor \in Actors /\ a.sequence \in Nat
                         /\ a.id \in Actors \X Nat
  BY BoardAssumption DEF ActionType
<1>5. applied[action] = "no"
  BY <1>1, <1>3 DEF NotInLog, CountedInv
<1>6. applied' = [applied EXCEPT ![action] = "yes"]
  BY <1>1, <1>5
<1>7. TrackingInv'
  <2>1. applied' \in [Actions -> Fates]
    BY <1>3, <1>6 DEF TrackingInv, Fates
  <2>2. actionLog' \subseteq ActionIds
    BY <1>1, <1>3, <1>4 DEF TrackingInv, ActionIds
  <2>3. lastClientSequenceByActor' \in [Actors -> Nat]
    BY <1>1, <1>3, <1>4 DEF TrackingInv
  <2> QED BY <1>1, <1>2, <1>3, <2>1, <2>2, <2>3 DEF TrackingInv
<1>8. CountedInv'
  <2>1. applied \in [Actions -> Fates] /\ lastClientSequenceByActor \in [Actors -> Nat]
    BY <1>3 DEF TrackingInv
  <2>2. \A a \in Actions : applied'[a] = IF a = action THEN "yes" ELSE applied[a]
    BY <1>6, <2>1
  <2>3. AppliedOnce'
    BY <1>3, <2>2 DEF CountedInv, AppliedOnce
  <2>4. \A a \in Actions : applied'[a] # "no" => a.id \in actionLog'
    BY <1>1, <1>3, <2>2 DEF CountedInv
  <2>5. \A a \in Actions : applied'[a] = "yes" => a.sequence <= lastClientSequenceByActor'[a.actor]
    <3> SUFFICES ASSUME NEW a \in Actions, applied'[a] = "yes"
                 PROVE  a.sequence <= lastClientSequenceByActor'[a.actor]
      OBVIOUS
    <3>1. CASE a.actor = action.actor
      <4>1. lastClientSequenceByActor'[a.actor] = action.sequence
        BY <1>1, <1>4, <2>1, <3>1
      <4>2. a = action \/ a.sequence <= lastClientSequenceByActor[action.actor]
        BY <1>3, <2>2, <3>1 DEF CountedInv
      <4> QED BY <1>1, <1>4, <2>1, <4>1, <4>2 DEF SequenceIsNew
    <3>2. CASE a.actor # action.actor
      <4>1. a # action
        BY <3>2
      <4>2. lastClientSequenceByActor'[a.actor] = lastClientSequenceByActor[a.actor]
        BY <1>1, <1>4, <2>1, <3>2
      <4> QED BY <1>3, <2>2, <4>1, <4>2 DEF CountedInv
    <3> QED BY <3>1, <3>2
  <2> QED BY <2>3, <2>4, <2>5 DEF CountedInv
<1>9. StorageInv'
  BY <1>1, <1>3 DEF StorageInv, storageVars
<1> QED BY <1>2, <1>7, <1>8, <1>9 DEF StoreInv, BoardInv

-----------------------------------------------------------------------------
(* Boards that replace the present one, and local storage.                  *)

\* Everything that speaks of the old board goes with it.
LEMMA LoadSound ==
  ASSUME StoreInv, NEW board \in Boards, NEW log \in SUBSET ActionIds,
         Load(board, log), UNCHANGED storageVars
  PROVE  StoreInv'
<1>1. EditorInv'
  BY DEF Load, ClearSelection, EditorInv, SoundEditors, Editor, EditorType
<1>2. HistoryInv'
  BY EmptySeq, BoardAssumption DEF Load, ClearHistory, HistoryInv, HistoryBounded
<1>3. TrackingInv'
  BY DEF Load, TrackingInv, Fates
<1>4. CountedInv'
  BY DEF Load, CountedInv, AppliedOnce
<1>5. StorageInv'
  BY DEF StoreInv, BoardInv, StorageInv, storageVars
<1> QED BY <1>1, <1>2, <1>3, <1>4, <1>5 DEF StoreInv, BoardInv

LEMMA LoadStepsSound ==
  ASSUME StoreInv, LoadSteps
  PROVE  StoreInv'
<1>1. EmptyBoard \in Boards
  BY DEF EmptyBoard, Boards
<1>2. storedSnapshot \in Boards \cup {NoEntry} /\ storedLog \in SUBSET ActionIds
  BY DEF StoreInv, BoardInv, StorageInv
<1>3. ASSUME NEW board \in Snapshots, ReplaceSnapshot(board)
      PROVE  StoreInv'
  <2>1. board \in Boards /\ {} \in SUBSET ActionIds
    BY BoardAssumption
  <2> QED BY <1>3, <2>1, LoadSound DEF ReplaceSnapshot
<1>4. CASE RestoreCreatorBoard
  <2>1. CASE storedSnapshot = NoEntry
    BY <1>1, <1>4, <2>1, LoadSound DEF RestoreCreatorBoard
  <2>2. CASE storedSnapshot # NoEntry
    BY <1>2, <1>4, <2>2, LoadSound DEF RestoreCreatorBoard
  <2> QED BY <2>1, <2>2
<1> QED BY <1>3, <1>4 DEF LoadSteps

LEMMA PersistSound ==
  ASSUME StoreInv, PersistCreatorBoardState
  PROVE  StoreInv'
<1>1. EditorInv /\ HistoryInv /\ TrackingInv /\ StorageInv /\ CountedInv
  BY DEF StoreInv, BoardInv
<1>2. StorageInv'
  BY <1>1, EditorParts DEF PersistCreatorBoardState, StorageInv, TrackingInv
<1>3. EditorInv' /\ HistoryInv'
  BY <1>1, HistoryKept DEF PersistCreatorBoardState, editorVars, EditorInv, Editor
<1>4. TrackingInv' /\ CountedInv'
  BY <1>1 DEF PersistCreatorBoardState, trackingVars, TrackingInv, CountedInv, AppliedOnce
<1> QED BY <1>2, <1>3, <1>4 DEF StoreInv, BoardInv

-----------------------------------------------------------------------------
LEMMA StoreInvInit == Init => StoreInv
<1> SUFFICES ASSUME Init PROVE StoreInv
  OBVIOUS
<1>1. EditorInv
  BY DEF Init, EmptyBoard, Boards, EditorInv, SoundEditors, Editor, EditorType
<1>2. HistoryInv
  BY EmptySeq, BoardAssumption DEF Init, HistoryInv, HistoryBounded
<1>3. TrackingInv /\ StorageInv /\ CountedInv
  BY DEF Init, TrackingInv, StorageInv, CountedInv, AppliedOnce, Fates
<1> QED BY <1>1, <1>2, <1>3 DEF StoreInv, BoardInv

LEMMA StoreInvNext == StoreInv /\ [Next]_boardVars => StoreInv'
<1> SUFFICES ASSUME StoreInv, [Next]_boardVars PROVE StoreInv'
  OBVIOUS
<1>1. CASE EditSteps
  BY <1>1, EditSound
<1>2. CASE RemoteSteps
  BY <1>2, RemoteSound DEF RemoteSteps
<1>3. CASE LoadSteps
  BY <1>3, LoadStepsSound
<1>4. CASE PersistCreatorBoardState
  BY <1>4, PersistSound
<1>5. CASE (StrokeSteps \/ AppendAction) /\ LogOwnActions
  BY <1>5, StrokeSound
<1>6. CASE UNCHANGED boardVars
  <2>1. EditorInv' /\ HistoryInv'
    BY <1>6, HistoryKept DEF boardVars, editorVars, historyVars, StoreInv, BoardInv,
                             EditorInv, Editor
  <2>2. TrackingInv' /\ StorageInv' /\ CountedInv'
    BY <1>6 DEF boardVars, trackingVars, storageVars, StoreInv, BoardInv, TrackingInv,
                StorageInv, CountedInv, AppliedOnce
  <2> QED BY <2>1, <2>2 DEF StoreInv, BoardInv
<1> QED BY <1>1, <1>2, <1>3, <1>4, <1>5, <1>6 DEF Next

\* The invariant holds of the store under any order of calls.
THEOREM StoreInvariant == Spec => []StoreInv
BY StoreInvInit, StoreInvNext, PTL DEF Spec

\* Type correctness (board-store.svelte.ts, its fields).
THEOREM BoardTypeCorrect == Spec => []TypeOK
<1>1. StoreInv => TypeOK
  BY BoardInvImplies DEF StoreInv
<1> QED BY <1>1, StoreInvariant, PTL

\* What is selected is on the board: after deletions by others, undo, redo and
\* loaded boards (deleteObjects, restoreEditorState, replaceSnapshot).
THEOREM SelectionAlwaysExists == Spec => []SelectionExists
<1>1. StoreInv => SelectionExists
  BY BoardInvImplies DEF StoreInv
<1> QED BY <1>1, StoreInvariant, PTL

\* Undo and redo together stay within the history limit, for every limit,
\* though only pushUndoCheckpoint ever cuts.
THEOREM HistoryAlwaysBounded == Spec => []HistoryBounded
<1>1. StoreInv => HistoryBounded
  BY BoardInvImplies DEF StoreInv
<1> QED BY <1>1, StoreInvariant, PTL

\* The selection and the stacks are sound (the two theorems above).
THEOREM EditorAlwaysSound == Spec => []EditorSound
<1>1. StoreInv => EditorSound
  BY BoardInvImplies DEF StoreInv, EditorSound
<1> QED BY <1>1, StoreInvariant, PTL

\* No action of another user changes the board twice (applyIncomingAction).
THEOREM NeverAppliedTwice == Spec => []AppliedOnce
<1>1. StoreInv => AppliedOnce
  BY DEF StoreInv, CountedInv
<1> QED BY <1>1, StoreInvariant, PTL

\* Only applyIncomingAction makes an action count; loading a board forgets.
LEMMA OnlyRemoteCounts ==
  ASSUME [Next]_boardVars, NEW a \in Actions, applied[a] = "no", applied'[a] = "yes"
  PROVE  \E action \in Actions : ApplyRemoteAction(action)
<1>1. CASE EditSteps
  <2>1. OnlyEditor
    BY <1>1 DEF EditSteps, TransformObject, DeleteObjects, UpdateSelection, Undo, Redo
  <2> QED BY <2>1 DEF OnlyEditor, trackingVars
<1>2. CASE RemoteSteps
  BY <1>2 DEF RemoteSteps
<1>3. CASE LoadSteps
  <2>1. \E log : applied' = [b \in Actions |-> IF b.id \in log THEN "loaded" ELSE "no"]
    BY <1>3 DEF LoadSteps, ReplaceSnapshot, RestoreCreatorBoard, Load
  <2> QED BY <2>1
<1>4. CASE PersistCreatorBoardState
  BY <1>4 DEF PersistCreatorBoardState, trackingVars
<1>5. CASE StrokeSteps \/ AppendAction
  BY <1>5 DEF StrokeSteps, AppendAction, BeginStroke, AppendStrokePoints, EndStroke, trackingVars
<1>6. CASE UNCHANGED boardVars
  BY <1>6 DEF boardVars, trackingVars
<1> QED BY <1>1, <1>2, <1>3, <1>4, <1>5, <1>6 DEF Next

\* The actions of one user change the board in the order in which they were
\* made, however they arrive (applyIncomingAction).
THEOREM AlwaysInOrder == Spec => AppliedInOrder
<1> DEFINE InOrder ==
      \A a \in Actions : applied[a] = "no" /\ applied'[a] = "yes" =>
        \A b \in Actions : a.actor = b.actor /\ applied[b] = "yes"
          => b.sequence < a.sequence
<1>1. StoreInv /\ [Next]_boardVars => InOrder
  <2> SUFFICES ASSUME StoreInv, [Next]_boardVars, NEW a \in Actions, NEW b \in Actions,
                      a.actor = b.actor, applied[a] = "no", applied'[a] = "yes",
                      applied[b] = "yes"
               PROVE  b.sequence < a.sequence
    OBVIOUS
  <2>1. PICK action \in Actions : ApplyRemoteAction(action)
    BY OnlyRemoteCounts
  <2>2. /\ applied \in [Actions -> Fates] /\ lastClientSequenceByActor \in [Actors -> Nat]
        /\ b.sequence <= lastClientSequenceByActor[b.actor]
    BY DEF StoreInv, BoardInv, TrackingInv, CountedInv
  <2>3. a = action
    BY <2>1, <2>2 DEF ApplyRemoteAction
  <2>4. a.sequence > lastClientSequenceByActor[a.actor]
    BY <2>1, <2>3 DEF ApplyRemoteAction, SequenceIsNew
  <2>5. a.sequence \in Nat /\ b.sequence \in Nat /\ a.actor \in Actors
    BY BoardAssumption DEF ActionType
  <2> QED BY <2>2, <2>4, <2>5
<1>2. StoreInv /\ [Next]_boardVars => [InOrder]_boardVars
  BY <1>1
<1>3. Spec => [][InOrder]_boardVars
  BY <1>2, StoreInvariant, PTL DEF Spec
<1> QED BY <1>3 DEF AppliedInOrder

(***************************************************************************)
(* The draw pipeline.                                                      *)
(***************************************************************************)
\* What the pipeline hands to the store: numbers, and an id that is its own.
\* The points that an action carries or will.
Reported == sent \cup ToSet(pendingPoints)

\* The pipeline's own state: what it hands to the store, and points that wait only
\* during a stroke.
PipelineInv ==
  /\ strokeId \in OwnIds \cup {NoObject}
  /\ pendingPoints \in Seq(Nat)
  /\ clientSequence \in Nat
  /\ usedIds \subseteq OwnIds
  /\ drawn \in Nat
  /\ Reported = 1..drawn
  /\ turns \in Nat
  /\ strokeId = NoObject => pendingPoints = <<>>

LEMMA AppendedPoints ==
  ASSUME NEW points \in Seq(Nat), NEW point \in Nat
  PROVE  /\ Append(points, point) \in Seq(Nat)
         /\ Append(points, point) = points \o <<point>>
         /\ ToSet(Append(points, point)) = ToSet(points) \cup {point}
<1> DEFINE longer == Append(points, point)
<1>1. /\ longer \in Seq(Nat) /\ Len(longer) = Len(points) + 1
      /\ \A i \in 1..Len(points) : longer[i] = points[i]
      /\ longer[Len(points) + 1] = point
  BY AppendProperties
<1>2. longer = points \o <<point>>
  OBVIOUS
<1>3. /\ DOMAIN longer = 1..(Len(points) + 1)
      /\ DOMAIN points = 1..Len(points)
      /\ Len(points) \in Nat
  BY <1>1
<1> HIDE DEF longer
<1>4. ToSet(longer) = ToSet(points) \cup {point}
  <2>1. ASSUME NEW p \in ToSet(longer) PROVE p \in ToSet(points) \cup {point}
    <3>1. PICK i \in 1..(Len(points) + 1) : p = longer[i]
      BY <1>3, <2>1 DEF ToSet
    <3>2. i \in 1..Len(points) \/ i = Len(points) + 1
      BY <1>3
    <3> QED BY <1>1, <1>3, <3>1, <3>2 DEF ToSet
  <2>2. ASSUME NEW p \in ToSet(points) PROVE p \in ToSet(longer)
    <3>1. PICK i \in 1..Len(points) : p = points[i]
      BY <1>3, <2>2 DEF ToSet
    <3>2. i \in 1..(Len(points) + 1)
      BY <1>3
    <3> QED BY <1>1, <1>3, <3>1, <3>2 DEF ToSet
  <2>3. point \in ToSet(longer)
    <3>1. Len(points) + 1 \in 1..(Len(points) + 1)
      BY <1>3
    <3> QED BY <1>1, <1>3, <3>1 DEF ToSet
  <2> QED BY <2>1, <2>2, <2>3
<1> QED BY <1>1, <1>2, <1>4 DEF longer

LEMMA NoPoints == ToSet(<<>>) = {}
BY DEF ToSet

\* What a step of the pipeline does to the points: it draws none or the next
\* one, and forgets none.
LEMMA PointsGrow ==
  ASSUME PipelineInv, PipelineSteps
  PROVE  /\ pendingPoints' \in Seq(Nat)
         /\ \/ drawn' = drawn + 1 /\ Reported' = Reported \cup {drawn + 1}
            \/ drawn' = drawn /\ Reported' = Reported
<1> USE NoPoints, EmptySeq DEF PipelineInv
<1>1. CASE DrawBegin
  <2>1. /\ drawn' = drawn + 1 /\ sent' = sent \cup {drawn + 1} /\ pendingPoints' = <<>>
        /\ pendingPoints = <<>>
    BY <1>1 DEF DrawBegin
  <2> QED BY <2>1 DEF Reported
<1>2. CASE AppendPoint
  <2> DEFINE points == Append(pendingPoints, drawn + 1)
  <2>1. /\ drawn' = drawn + 1
        /\ \/ pendingPoints' = <<>> /\ sent' = sent \cup ToSet(points)
           \/ pendingPoints' = points /\ sent' = sent
    BY <1>2 DEF AppendPoint
  <2>2. points \in Seq(Nat) /\ ToSet(points) = ToSet(pendingPoints) \cup {drawn + 1}
    <3>1. pendingPoints \in Seq(Nat) /\ drawn + 1 \in Nat
      OBVIOUS
    <3> QED BY <3>1, AppendedPoints
  <2> HIDE DEF points
  <2> QED BY <2>1, <2>2 DEF Reported
<1>3. CASE FlushPendingPoints
  BY <1>3 DEF FlushPendingPoints, Reported
<1>4. CASE DrawEnd
  BY <1>4 DEF DrawEnd, FlushedAtEnd, Reported
<1> QED BY <1>1, <1>2, <1>3, <1>4 DEF PipelineSteps

LEMMA PipelineInvInit == PipelineInit => PipelineInv
BY NoPoints, EmptySeq DEF PipelineInit, PipelineInv, Reported

LEMMA PipelineInvNext == PipelineInv /\ [PipelineNext]_vars => PipelineInv'
<1> SUFFICES ASSUME PipelineInv, [PipelineNext]_vars PROVE PipelineInv'
  OBVIOUS
<1>1. CASE PipelineSteps /\ UNCHANGED turns
  <2>1. /\ pendingPoints' \in Seq(Nat)
        /\ drawn' \in Nat
        /\ Reported' = 1..drawn'
    <3>1. CASE drawn' = drawn + 1 /\ Reported' = Reported \cup {drawn + 1}
      BY <1>1, <3>1, PointsGrow DEF PipelineInv
    <3>2. CASE drawn' = drawn /\ Reported' = Reported
      BY <1>1, <3>2, PointsGrow DEF PipelineInv
    <3> QED BY <1>1, <3>1, <3>2, PointsGrow
  <2>2. /\ strokeId' \in OwnIds \cup {NoObject}
        /\ clientSequence' \in Nat
        /\ usedIds' \subseteq OwnIds
        /\ strokeId' = NoObject => pendingPoints' = <<>>
    <3>1. CASE DrawBegin
      BY <3>1 DEF DrawBegin, LogActions, PipelineInv
    <3>2. CASE AppendPoint
      BY <3>2 DEF AppendPoint, LogActions, PipelineInv
    <3>3. CASE FlushPendingPoints
      BY <3>3 DEF FlushPendingPoints, LogActions, PipelineInv
    <3>4. CASE DrawEnd
      BY <3>4 DEF DrawEnd, LogActions, PipelineInv
    <3> QED BY <1>1, <3>1, <3>2, <3>3, <3>4 DEF PipelineSteps
  <2> QED BY <1>1, <2>1, <2>2 DEF PipelineInv
<1>2. CASE OtherSteps /\ UNCHANGED pipelineVars
  BY <1>2 DEF OtherSteps, pipelineVars, PipelineInv, Reported
<1>3. CASE UNCHANGED vars
  BY <1>3 DEF vars, pipelineVars, PipelineInv, Reported
<1> QED BY <1>1, <1>2, <1>3 DEF PipelineNext

\* The numbers of the next actions are the user's own.
LEMMA OwnLogged ==
  ASSUME PipelineInv, NEW n \in Nat,
         actionLog' = actionLog \cup ({Me} \X (clientSequence + 1 .. clientSequence + n))
  PROVE  LogOwnActions
<1>1. clientSequence + 1 .. clientSequence + n \subseteq Nat
  BY DEF PipelineInv
<1> QED BY <1>1 DEF LogOwnActions

\* The stroke of a pipeline that has one is an element's id.
LEMMA StrokeIsObject ==
  ASSUME PipelineInv, strokeId # NoObject
  PROVE  strokeId \in Objects
BY PipelineAssumption DEF PipelineInv

\* The point drawn next may be drawn on the store.
LEMMA NextPoint ==
  ASSUME PipelineInv, drawn < MaxPoints
  PROVE  <<drawn + 1>> \in Strokes
<1>1. drawn + 1 \in 1..MaxPoints
  BY PipelineAssumption DEF PipelineInv
<1> QED BY <1>1, PipelineAssumption

\* Every step of the pipeline is one or none of the store's.
LEMMA StepImplements == PipelineInv /\ [PipelineNext]_vars => [Next]_boardVars
<1> SUFFICES ASSUME PipelineInv, [PipelineNext]_vars PROVE [Next]_boardVars
  OBVIOUS
<1>1. CASE DrawBegin
  <2>1. PICK o \in OwnIds : /\ drawn < MaxPoints
                            /\ BeginStroke(o, <<drawn + 1>>)
                            /\ LogActions(1)
    BY <1>1 DEF DrawBegin
  <2>2. o \in Objects /\ <<drawn + 1>> \in Strokes
    BY <2>1, NextPoint, PipelineAssumption
  <2>3. LogOwnActions
    BY <2>1, OwnLogged DEF LogActions
  <2> QED BY <2>1, <2>2, <2>3 DEF Next, StrokeSteps
<1>2. CASE AppendPoint
  <2>1. /\ strokeId # NoObject /\ drawn < MaxPoints
        /\ AppendStrokePoints(strokeId, <<drawn + 1>>)
        /\ LogActions(1) \/ UNCHANGED actionLog
    BY <1>2 DEF AppendPoint
  <2>2. strokeId \in Objects /\ <<drawn + 1>> \in Strokes
    BY <2>1, NextPoint, StrokeIsObject
  <2>3. LogOwnActions
    <3>1. CASE LogActions(1)
      BY <3>1, OwnLogged DEF LogActions
    <3>2. CASE UNCHANGED actionLog
      BY <3>2 DEF LogOwnActions
    <3> QED BY <2>1, <3>1, <3>2
  <2> QED BY <2>1, <2>2, <2>3 DEF Next, StrokeSteps
<1>3. CASE FlushPendingPoints
  <2>1. LogActions(1) /\ UNCHANGED restVars
    BY <1>3 DEF FlushPendingPoints
  <2>2. LogOwnActions
    BY <2>1, OwnLogged DEF LogActions
  <2>3. AppendAction
    BY <2>1 DEF restVars, AppendAction
  <2> QED BY <2>2, <2>3 DEF Next
<1>4. CASE DrawEnd
  <2> DEFINE flushed == IF pendingPoints = <<>> THEN 0 ELSE 1
  <2>1. strokeId \in Objects
    BY <1>4, StrokeIsObject DEF DrawEnd
  <2>2. flushed \in Nat /\ flushed + 1 \in Nat
    OBVIOUS
  <2>3. \/ EndStroke(strokeId) /\ LogActions(flushed + 1)
        \/ /\ actionLog' = actionLog \cup ({Me} \X (clientSequence + 1 .. clientSequence + flushed))
           /\ UNCHANGED restVars
    BY <1>4 DEF DrawEnd
  <2> HIDE DEF flushed
  <2>4. CASE EndStroke(strokeId) /\ LogActions(flushed + 1)
    <3>1. LogOwnActions
      BY <2>2, <2>4, OwnLogged DEF LogActions
    <3> QED BY <2>1, <2>4, <3>1 DEF Next, StrokeSteps
  <2>5. CASE /\ actionLog' = actionLog \cup ({Me} \X (clientSequence + 1 .. clientSequence + flushed))
             /\ UNCHANGED restVars
    <3>1. LogOwnActions
      BY <2>2, <2>5, OwnLogged
    <3>2. AppendAction
      BY <2>5 DEF restVars, AppendAction
    <3> QED BY <3>1, <3>2 DEF Next
  <2> QED BY <2>3, <2>4, <2>5
<1>5. CASE OtherSteps
  BY <1>5 DEF OtherSteps, LoadSteps, Next
<1>6. CASE UNCHANGED vars
  BY <1>6 DEF vars, restVars, boardVars
<1> QED BY <1>1, <1>2, <1>3, <1>4, <1>5, <1>6 DEF PipelineNext, PipelineSteps

\* The store under the draw pipeline is a store: no sequence of strokes, flushes
\* and refused ends makes it do what no caller could.
THEOREM PipelineKeepsToStore == PipelineSpec => Spec
<1>1. PipelineInit => Init
  BY DEF PipelineInit
<1>2. PipelineSpec => []PipelineInv
  BY PipelineInvInit, PipelineInvNext, PTL DEF PipelineSpec
<1> QED BY <1>1, <1>2, StepImplements, PTL DEF PipelineSpec, Spec

\* So the promises of the store hold while the user draws: selection, history,
\* and actions of others that count once and in order.
THEOREM PromisesWhileDrawing ==
  PipelineSpec => [](SelectionExists /\ HistoryBounded /\ AppliedOnce) /\ AppliedInOrder
BY PipelineKeepsToStore, SelectionAlwaysExists, HistoryAlwaysBounded, NeverAppliedTwice,
   AlwaysInOrder, PTL

-----------------------------------------------------------------------------
(* Whatever is on the board is sent.                                        *)

\* What the user's strokes on a board show, if these are the points that were
\* reported: those points only, in the order in which they were drawn.
OwnSound(board, points) ==
  \A o \in OwnIds :
    board[o] # NoElement =>
      /\ board[o].kind = "stroke"
      /\ ToSet(board[o].data) \subseteq points
      /\ Ascending(board[o].data)

\* The boards that may come back must be as sound as the present one.
SoundStates(points) == {e \in EditorType : OwnSound(e.elements, points)}
SentInv ==
  /\ Editor \in SoundStates(Reported)
  /\ undoStack \in Seq(SoundStates(Reported))
  /\ redoStack \in Seq(SoundStates(Reported))
  /\ storedSnapshot # NoEntry => OwnSound(storedSnapshot, Reported)

DrawInv == PipelineInv /\ StoreInv /\ SentInv

LEMMA ReportedStaysSound ==
  ASSUME NEW P, NEW Q, P \subseteq Q
  PROVE  /\ \A board : OwnSound(board, P) => OwnSound(board, Q)
         /\ SoundStates(P) \subseteq SoundStates(Q)
         /\ Seq(SoundStates(P)) \subseteq Seq(SoundStates(Q))
<1>1. \A board : OwnSound(board, P) => OwnSound(board, Q)
  BY DEF OwnSound
<1>2. SoundStates(P) \subseteq SoundStates(Q)
  BY <1>1 DEF SoundStates
<1> QED BY <1>1, <1>2

\* A step that changes no stroke of the user, or takes some away.
LEMMA NoneDrawn ==
  ASSUME NEW P, OwnSound(elements, P),
         \A o \in OwnIds : elements'[o] \in {elements[o], NoElement}
  PROVE  OwnSound(elements', P)
BY DEF OwnSound

LEMMA EditorStates ==
  ASSUME NEW P, StoreInv
  PROVE  Editor \in SoundStates(P) <=> OwnSound(elements, P)
BY DEF StoreInv, BoardInv, EditorInv, SoundEditors, SoundStates, Editor

LEMMA CheckpointKeeps ==
  ASSUME NEW S, Editor \in S, undoStack \in Seq(S), Checkpoint
  PROVE  undoStack' \in Seq(S) /\ redoStack' \in Seq(S)
<1>1. redoStack' \in Seq(S)
  BY EmptySeq DEF Checkpoint
<1>2. CASE Len(undoStack) < HistoryLimit
  BY <1>1, <1>2, AppendProperties DEF Checkpoint
<1>3. CASE ~(Len(undoStack) < HistoryLimit)
  <2>1. undoStack # <<>>
    BY <1>3, BoardAssumption
  <2>2. Tail(undoStack) \in Seq(S)
    BY <2>1, HeadTailProperties
  <2>3. undoStack' = Append(Tail(undoStack), Editor)
    BY <1>3 DEF Checkpoint
  <2> QED BY <1>1, <2>2, <2>3, AppendProperties
<1> QED BY <1>2, <1>3

LEMMA TravelKeeps ==
  ASSUME NEW S, Editor \in S, undoStack \in Seq(S), redoStack \in Seq(S),
         NEW n \in Nat, UndoBy(n) \/ RedoBy(n)
  PROVE  /\ \E e \in S : elements' = e.elements
         /\ undoStack' \in Seq(S) /\ redoStack' \in Seq(S)
<1>1. CASE UndoBy(n)
  <2> DEFINE k == Steps(undoStack, n)
  <2>1. /\ k > 0
        /\ RestoreEditorState(undoStack[Len(undoStack) + 1 - k])
        /\ undoStack' = SubSeq(undoStack, 1, Len(undoStack) - k)
        /\ redoStack' = redoStack \o Passed(undoStack, k)
    BY <1>1 DEF UndoBy
  <2>2. /\ undoStack[Len(undoStack) + 1 - k] \in S
        /\ undoStack' \in Seq(S) /\ redoStack' \in Seq(S)
    BY <2>1, TravelSound
  <2> HIDE DEF k
  <2> QED BY <2>1, <2>2 DEF RestoreEditorState
<1>2. CASE RedoBy(n)
  <2> DEFINE k == Steps(redoStack, n)
  <2>1. /\ k > 0
        /\ RestoreEditorState(redoStack[Len(redoStack) + 1 - k])
        /\ redoStack' = SubSeq(redoStack, 1, Len(redoStack) - k)
        /\ undoStack' = undoStack \o Passed(redoStack, k)
    BY <1>2 DEF RedoBy
  <2>2. /\ redoStack[Len(redoStack) + 1 - k] \in S
        /\ undoStack' \in Seq(S) /\ redoStack' \in Seq(S)
    BY <2>1, TravelSound
  <2> HIDE DEF k
  <2> QED BY <2>1, <2>2 DEF RestoreEditorState
<1> QED BY <1>1, <1>2

\* What a step must do to the board and the stacks.
KeepsSent(P) ==
  /\ OwnSound(elements', P)
  /\ undoStack' \in Seq(SoundStates(P)) /\ redoStack' \in Seq(SoundStates(P))

\* Undoing and redoing bring back boards that are as sound.
LEMMA TravelKeepsSent ==
  ASSUME SentInv, NEW n \in Nat, UndoBy(n) \/ RedoBy(n)
  PROVE  KeepsSent(Reported)
<1>1. PICK e \in SoundStates(Reported) : elements' = e.elements
  BY TravelKeeps DEF SentInv
<1>2. undoStack' \in Seq(SoundStates(Reported)) /\ redoStack' \in Seq(SoundStates(Reported))
  BY TravelKeeps DEF SentInv
<1> QED BY <1>1, <1>2 DEF KeepsSent, SoundStates

\* A checkpoint puts the present board on a stack.
LEMMA CheckpointKeepsSent ==
  ASSUME SentInv, Checkpoint
  PROVE  undoStack' \in Seq(SoundStates(Reported)) /\ redoStack' \in Seq(SoundStates(Reported))
BY CheckpointKeeps DEF SentInv

\* A change of an element that is none of the user's strokes.
LEMMA OthersKeepSent ==
  ASSUME StoreInv, SentInv, NEW o \in Objects \ OwnIds, NEW e,
         elements' = [elements EXCEPT ![o] = e]
  PROVE  OwnSound(elements', Reported)
<1>1. OwnSound(elements, Reported) /\ elements \in Boards
  BY EditorStates, EditorParts DEF SentInv, StoreInv, BoardInv
<1>2. \A p \in OwnIds : elements'[p] = elements[p]
  BY <1>1, PipelineAssumption DEF Boards
<1> QED BY <1>1, <1>2, NoneDrawn

\* Deletion.
LEMMA RemovedKeepsSent ==
  ASSUME StoreInv, SentInv, NEW os \in SUBSET Objects, Removed(os)
  PROVE  OwnSound(elements', Reported)
<1>1. OwnSound(elements, Reported)
  BY EditorStates DEF SentInv
<1>2. \A o \in OwnIds : elements'[o] \in {elements[o], NoElement}
  BY PipelineAssumption DEF Removed
<1> QED BY <1>1, <1>2, NoneDrawn

\* A shape is not one of the user's strokes.
LEMMA ShapesAreNotOwn ==
  ASSUME StoreInv, SentInv, NEW o, Shows(o, "shape")
  PROVE  o \in Objects \ OwnIds
<1>1. OwnSound(elements, Reported)
  BY EditorStates DEF SentInv
<1> QED BY <1>1 DEF OwnSound, Shows, Present

LEMMA EditKeepsSent ==
  ASSUME StoreInv, SentInv, EditSteps
  PROVE  KeepsSent(Reported)
<1>1. CASE \E o \in Objects, data \in Looks : TransformObject(o, data)
  <2>1. PICK o \in Objects, data \in Looks :
               Shows(o, "shape") /\ Checkpoint /\ Changed(o, data)
    BY <1>1 DEF TransformObject
  <2>2. o \in Objects \ OwnIds
    BY <2>1, ShapesAreNotOwn
  <2>3. elements' = [elements EXCEPT ![o] = [elements[o] EXCEPT !.data = data]]
    BY <2>1 DEF Changed
  <2> QED BY <2>1, <2>2, <2>3, OthersKeepSent, CheckpointKeepsSent DEF KeepsSent
<1>2. CASE \E os \in Picks : DeleteObjects(os)
  <2>1. PICK os \in Picks : Checkpoint /\ Removed(os)
    BY <1>2 DEF DeleteObjects
  <2>2. os \in SUBSET Objects
    BY BoardAssumption
  <2> QED BY <2>1, <2>2, RemovedKeepsSent, CheckpointKeepsSent DEF KeepsSent
<1>3. CASE \E os \in Picks : UpdateSelection(os)
  <2>1. UNCHANGED <<elements, undoStack, redoStack>>
    BY <1>3 DEF UpdateSelection, Selected, historyVars
  <2> QED BY <2>1, EditorStates DEF SentInv, KeepsSent
<1>4. CASE Undo \/ Redo
  BY <1>4, TravelKeepsSent DEF Undo, Redo
<1> QED BY <1>1, <1>2, <1>3, <1>4 DEF EditSteps

\* Nobody else makes, continues or changes a stroke of the user.
LEMMA MutationKeepsSent ==
  ASSUME StoreInv, SentInv, NEW action \in Actions, ApplyActionMutation(action)
  PROVE  KeepsSent(Reported)
<1>1. /\ action.objects \in SUBSET Objects /\ action.count \in Nat
      /\ action.kind \in ObjectKinds => action.object \in Objects
      /\ action.kind # "eraser.apply" => action.object \notin OwnIds
  BY BoardAssumption, PipelineAssumption DEF ActionType
<1>2. CASE RemoteTravel(action)
  BY <1>1, <1>2, TravelKeepsSent DEF RemoteTravel
<1>3. CASE UNCHANGED historyVars /\ OwnSound(elements', Reported)
  BY <1>3 DEF SentInv, KeepsSent, historyVars
<1>4. CASE RemoteDelete(action)
  <2>1. Removed(action.objects) /\ UNCHANGED historyVars
    BY <1>4 DEF RemoteDelete
  <2> QED BY <1>1, <1>3, <2>1, RemovedKeepsSent
<1>5. CASE RemoteBegin(action) \/ RemoteAppend(action) \/ RemoteCreate(action) \/ RemoteUpdate(action)
  <2>1. UNCHANGED historyVars /\ action.kind \in ObjectKinds \ {"eraser.apply"}
    BY <1>5 DEF RemoteBegin, RemoteAppend, RemoteCreate, RemoteUpdate, ObjectKinds
  <2>2. \E e : elements' = [elements EXCEPT ![action.object] = e]
    BY <1>5 DEF RemoteBegin, RemoteAppend, RemoteCreate, RemoteUpdate, Drawn, Extended, Changed
  <2> QED BY <1>1, <1>3, <2>1, <2>2, OthersKeepSent
<1>6. CASE RemoteEnd(action) \/ RemoteSelect(action) \/ RemoteViewport(action)
  <2>1. UNCHANGED <<elements, historyVars>>
    BY <1>6 DEF RemoteEnd, RemoteSelect, RemoteViewport, Ended, Selected, editorVars
  <2> QED BY <1>3, <2>1, EditorStates DEF SentInv
<1> QED BY <1>2, <1>4, <1>5, <1>6 DEF ApplyActionMutation

\* What comes back of the user's strokes was drawn on this page, and so reported; the
\* stored board is sound.
LEMMA LoadKeepsSent ==
  ASSUME PipelineInv, SentInv,
         \/ \E board \in Snapshots : MayReturn(board) /\ ReplaceSnapshot(board)
         \/ RestoreCreatorBoard
  PROVE  KeepsSent(Reported)
<1>1. ASSUME NEW board, NEW log, OwnSound(board, Reported), Load(board, log)
      PROVE  KeepsSent(Reported)
  BY <1>1, EmptySeq DEF Load, ClearHistory, KeepsSent
<1>2. OwnSound(EmptyBoard, Reported)
  BY PipelineAssumption DEF OwnSound, EmptyBoard
<1>3. \A board \in Snapshots : MayReturn(board) => OwnSound(board, Reported)
  BY DEF MayReturn, OwnSound, PipelineInv
<1>4. CASE \E board \in Snapshots : MayReturn(board) /\ ReplaceSnapshot(board)
  BY <1>1, <1>3, <1>4 DEF ReplaceSnapshot
<1>5. CASE RestoreCreatorBoard
  BY <1>1, <1>2, <1>5 DEF RestoreCreatorBoard, SentInv
<1> QED BY <1>4, <1>5

\* Begun strokes start with the next point.
LEMMA BeginKeepsSent ==
  ASSUME PipelineInv, StoreInv, SentInv, DrawBegin
  PROVE  KeepsSent(Reported')
<1>1. PICK o \in OwnIds : /\ Checkpoint /\ Drawn(o, "stroke", Me, <<drawn + 1>>)
                          /\ drawn' = drawn + 1
  BY DEF DrawBegin, BeginStroke
<1>2. Reported' = Reported \cup {drawn + 1} /\ drawn \in Nat
  BY <1>1, PointsGrow DEF PipelineInv, PipelineSteps
<1>3. OwnSound(elements, Reported') /\ elements \in Boards /\ o \in Objects
  BY <1>2, ReportedStaysSound, EditorStates, EditorParts, PipelineAssumption
     DEF SentInv, StoreInv, BoardInv
<1>4. \A p \in OwnIds \ {o} : elements'[p] = elements[p]
  BY <1>1, <1>3, PipelineAssumption DEF Drawn, Boards
<1>5. elements'[o] = [kind |-> "stroke", by |-> Me, data |-> <<drawn + 1>>]
  BY <1>1, <1>3 DEF Drawn, Boards
<1>6. ToSet(<<drawn + 1>>) = {drawn + 1} /\ Ascending(<<drawn + 1>>)
  BY DEF ToSet, Ascending
<1>7. OwnSound(elements', Reported')
  BY <1>2, <1>3, <1>4, <1>5, <1>6 DEF OwnSound
<1>8. /\ undoStack' \in Seq(SoundStates(Reported'))
      /\ redoStack' \in Seq(SoundStates(Reported'))
  BY <1>1, <1>2, CheckpointKeepsSent, ReportedStaysSound
<1> QED BY <1>7, <1>8 DEF KeepsSent

\* The next point is higher than all that are on the board.
LEMMA NextIsHigher ==
  ASSUME PipelineInv, NEW data \in Seq(Nat), ToSet(data) \subseteq Reported, Ascending(data)
  PROVE  /\ ToSet(data \o <<drawn + 1>>) = ToSet(data) \cup {drawn + 1}
         /\ Ascending(data \o <<drawn + 1>>)
<1> DEFINE longer == Append(data, drawn + 1)
<1>1. drawn \in Nat /\ drawn + 1 \in Nat /\ Reported = 1..drawn
  BY DEF PipelineInv
<1>2. longer = data \o <<drawn + 1>> /\ ToSet(longer) = ToSet(data) \cup {drawn + 1}
  BY <1>1, AppendedPoints
<1>3. /\ DOMAIN longer = 1..(Len(data) + 1) /\ DOMAIN data = 1..Len(data) /\ Len(data) \in Nat
      /\ \A i \in 1..Len(data) : longer[i] = data[i]
      /\ longer[Len(data) + 1] = drawn + 1
  BY <1>1, AppendProperties
<1> HIDE DEF longer
<1>4. \A i \in 1..Len(data) : data[i] \in 1..drawn
  BY <1>1, <1>3 DEF ToSet
<1>5. ASSUME NEW i \in DOMAIN longer, NEW j \in DOMAIN longer, i < j
      PROVE  longer[i] < longer[j]
  <2>1. i \in 1..Len(data)
    BY <1>3, <1>5
  <2>2. CASE j \in 1..Len(data)
    BY <1>3, <1>5, <2>1, <2>2 DEF Ascending
  <2>3. CASE j = Len(data) + 1
    BY <1>1, <1>3, <1>4, <2>1, <2>3
  <2> QED BY <1>3, <2>2, <2>3
<1> QED BY <1>2, <1>5 DEF Ascending

LEMMA AppendKeepsSent ==
  ASSUME PipelineInv, StoreInv, SentInv, AppendPoint
  PROVE  KeepsSent(Reported')
<1>1. /\ strokeId \in OwnIds /\ Shows(strokeId, "stroke")
      /\ Extended(strokeId, <<drawn + 1>>)
      /\ UNCHANGED historyVars /\ drawn' = drawn + 1
  BY DEF AppendPoint, AppendStrokePoints, PipelineInv
<1>2. Reported' = Reported \cup {drawn + 1} /\ drawn \in Nat
  BY <1>1, PointsGrow DEF PipelineInv, PipelineSteps
<1>3. /\ OwnSound(elements, Reported) /\ OwnSound(elements, Reported')
      /\ elements \in Boards /\ strokeId \in Objects
  BY <1>1, <1>2, ReportedStaysSound, EditorStates, EditorParts, PipelineAssumption
     DEF SentInv, StoreInv, BoardInv
<1>4. \A p \in OwnIds \ {strokeId} : elements'[p] = elements[p]
  BY <1>1, <1>3, PipelineAssumption DEF Extended, Boards
<1> DEFINE data == elements[strokeId].data
<1>5. elements[strokeId] # NoElement /\ elements[strokeId] \in Element
  BY <1>1, <1>3 DEF Shows, Present, Boards
<1>6. /\ elements'[strokeId].data = data \o <<drawn + 1>>
      /\ elements'[strokeId].kind = "stroke"
  BY <1>1, <1>3, <1>5 DEF Extended, Boards, Element, Shows
<1>7. data \in Seq(Nat) /\ ToSet(data) \subseteq Reported /\ Ascending(data)
  BY <1>1, <1>3, <1>5 DEF Element, OwnSound
<1> HIDE DEF data
<1>8. /\ ToSet(data \o <<drawn + 1>>) \subseteq Reported'
      /\ Ascending(data \o <<drawn + 1>>)
  BY <1>2, <1>7, NextIsHigher
<1>9. OwnSound(elements', Reported')
  BY <1>3, <1>4, <1>6, <1>8 DEF OwnSound
<1> QED BY <1>1, <1>2, <1>9, ReportedStaysSound DEF KeepsSent, SentInv, historyVars

\* A flush, or the end of a stroke, changes no element.
LEMMA EndKeepsSent ==
  ASSUME PipelineInv, StoreInv, SentInv, FlushPendingPoints \/ DrawEnd
  PROVE  KeepsSent(Reported')
<1>1. UNCHANGED <<elements, undoStack, redoStack>>
  BY DEF FlushPendingPoints, DrawEnd, EndStroke, Ended, restVars, editorVars, historyVars
<1>2. Reported \subseteq Reported'
  BY PointsGrow DEF PipelineSteps
<1> QED BY <1>1, <1>2, ReportedStaysSound, EditorStates DEF SentInv, KeepsSent

LEMMA DrawInvInit == PipelineInit => DrawInv
<1> SUFFICES ASSUME PipelineInit PROVE SentInv
  BY PipelineInvInit, StoreInvInit DEF DrawInv, PipelineInit
<1>1. StoreInv
  BY StoreInvInit DEF PipelineInit
<1>2. OwnSound(elements, Reported)
  BY PipelineAssumption DEF PipelineInit, Init, EmptyBoard, OwnSound
<1> QED BY <1>1, <1>2, EditorStates, EmptySeq DEF PipelineInit, Init, SentInv

LEMMA DrawInvNext == DrawInv /\ [PipelineNext]_vars => DrawInv'
<1> SUFFICES ASSUME DrawInv, [PipelineNext]_vars PROVE DrawInv'
  OBVIOUS
<1>1. PipelineInv /\ StoreInv /\ SentInv
  BY DEF DrawInv
<1>2. PipelineInv'
  BY <1>1, PipelineInvNext
<1>3. StoreInv'
  BY <1>1, StepImplements, StoreInvNext
<1>4. SentInv'
  <2>1. ASSUME KeepsSent(Reported'), Reported \subseteq Reported',
               UNCHANGED storedSnapshot \/ storedSnapshot' = elements
        PROVE  SentInv'
    <3>1. Editor' \in SoundStates(Reported')
      BY <1>3, <2>1 DEF KeepsSent, StoreInv, BoardInv, EditorInv, SoundEditors, SoundStates, Editor
    <3>2. storedSnapshot' # NoEntry => OwnSound(storedSnapshot', Reported')
      BY <1>1, <2>1, EditorStates, ReportedStaysSound DEF SentInv
    <3> QED BY <2>1, <3>1, <3>2 DEF KeepsSent, SentInv
  <2>2. CASE PipelineSteps /\ UNCHANGED turns
    <3>1. KeepsSent(Reported')
      BY <1>1, <2>2, BeginKeepsSent, AppendKeepsSent, EndKeepsSent DEF PipelineSteps
    <3>2. Reported \subseteq Reported'
      BY <1>1, <2>2, PointsGrow
    <3>3. UNCHANGED storedSnapshot
      BY <2>2 DEF PipelineSteps, DrawBegin, AppendPoint, FlushPendingPoints, DrawEnd,
                  BeginStroke, AppendStrokePoints, EndStroke, restVars, storageVars
    <3> QED BY <2>1, <3>1, <3>2, <3>3
  <2>3. CASE OtherSteps /\ UNCHANGED pipelineVars
    <3>1. Reported' = Reported
      BY <2>3 DEF pipelineVars, Reported
    <3>2. CASE EditSteps
      <4>1. UNCHANGED storedSnapshot
        BY <3>2 DEF EditSteps, TransformObject, DeleteObjects, UpdateSelection, Undo, Redo,
                    OnlyEditor, storageVars
      <4> QED BY <1>1, <2>1, <3>1, <3>2, <4>1, EditKeepsSent
    <3>3. CASE RemoteSteps
      <4>1. PICK action \in Actions : ApplyActionMutation(action) /\ UNCHANGED storedSnapshot
        BY <3>3 DEF RemoteSteps, ApplyRemoteAction, storageVars
      <4> QED BY <1>1, <2>1, <3>1, <4>1, MutationKeepsSent
    <3>4. CASE \/ \E board \in Snapshots : MayReturn(board) /\ ReplaceSnapshot(board)
               \/ RestoreCreatorBoard
      <4>1. UNCHANGED storedSnapshot
        BY <3>4 DEF ReplaceSnapshot, RestoreCreatorBoard, storageVars
      <4> QED BY <1>1, <2>1, <3>1, <3>4, <4>1, LoadKeepsSent
    <3>5. CASE PersistCreatorBoardState
      <4>1. /\ storedSnapshot' = elements
            /\ UNCHANGED <<elements, undoStack, redoStack>>
        BY <3>5 DEF PersistCreatorBoardState, editorVars, historyVars
      <4>2. KeepsSent(Reported)
        BY <1>1, <4>1, EditorStates DEF SentInv, KeepsSent
      <4> QED BY <2>1, <3>1, <4>1, <4>2
    <3> QED BY <2>3, <3>2, <3>3, <3>4, <3>5 DEF OtherSteps
  <2>4. CASE UNCHANGED vars
    <3>1. /\ UNCHANGED <<elements, undoStack, redoStack, storedSnapshot>>
          /\ Reported' = Reported
      BY <2>4 DEF vars, restVars, pipelineVars, editorVars, historyVars, storageVars, Reported
    <3>2. KeepsSent(Reported)
      BY <1>1, <3>1, EditorStates DEF SentInv, KeepsSent
    <3> QED BY <2>1, <3>1, <3>2
  <2> QED BY <2>2, <2>3, <2>4 DEF PipelineNext
<1> QED BY <1>2, <1>3, <1>4 DEF DrawInv

\* Every point that the user sees of an own stroke is in an action or waits for one,
\* and the stroke shows its points in the order in which they were drawn, whatever
\* happens to the board under the pipeline (board-draw-pipeline.svelte.ts).
THEOREM PointsAlwaysSent == PipelineSpec => []PointsAreSent
<1>1. DrawInv => PointsAreSent
  <2> SUFFICES ASSUME DrawInv PROVE PointsAreSent
    OBVIOUS
  <2>1. OwnSound(elements, Reported)
    BY EditorStates DEF DrawInv, SentInv
  <2> QED BY <2>1 DEF PointsAreSent, OwnSound, Reported, Present
<1> QED BY <1>1, DrawInvInit, DrawInvNext, PTL DEF PipelineSpec

\* Type correctness of the pipeline (its fields and the action identity's counter).
THEOREM PipelineTypeCorrect == PipelineSpec => []PipelineTypeOK
<1>1. DrawInv => PipelineTypeOK
  <2> SUFFICES ASSUME DrawInv PROVE PipelineTypeOK
    OBVIOUS
  <2>1. TypeOK
    BY BoardInvImplies DEF DrawInv, StoreInv
  <2>2. PipelineInv /\ sent \subseteq 1..drawn /\ ToSet(pendingPoints) \subseteq 1..drawn
    BY DEF DrawInv, PipelineInv, Reported
  <2>3. pendingPoints \in Seq(1..drawn)
    <3>1. pendingPoints \in Seq(Nat) /\ DOMAIN pendingPoints = 1..Len(pendingPoints)
      BY <2>2 DEF PipelineInv
    <3>2. \A i \in 1..Len(pendingPoints) : pendingPoints[i] \in 1..drawn
      BY <2>2, <3>1 DEF ToSet
    <3>3. Len(pendingPoints) \in Nat /\ pendingPoints \in [1..Len(pendingPoints) -> 1..drawn]
      BY <3>1, <3>2
    <3> QED BY <3>3, SeqDef
  <2> QED BY <2>1, <2>2, <2>3 DEF PipelineInv, PipelineTypeOK
<1> QED BY <1>1, DrawInvInit, DrawInvNext, PTL DEF PipelineSpec

(***************************************************************************)
(* The files of a board and local storage.                                 *)
(***************************************************************************)
\* What may be stored for a board, or not: a sequence of at most one.
Optional(S) == {x \in Seq(S) : Len(x) <= 1}

\* Types alone would do for what a file gives back; storage needs that what was
\* written whole last is what is there.
FilesInv ==
  /\ FilesTypeOK
  /\ storedDrawing \in [BoardNames -> Optional(SnapshotType)]
  /\ storedEntries \in [BoardNames -> Optional(Seq(Nat))]
  /\ lastStored \in [BoardNames -> Optional([board : SnapshotType, log : Seq(Nat)])]
  /\ StorageReturns

LEMMA OneIsOptional ==
  ASSUME NEW S, NEW x \in S
  PROVE  <<x>> \in Optional(S)
BY DEF Optional

LEMMA NoneIsOptional ==
  ASSUME NEW S
  PROVE  <<>> \in Optional(S)
BY EmptySeq DEF Optional

LEMMA OptionalValue ==
  ASSUME NEW S, NEW x \in Optional(S), x # <<>>
  PROVE  x[1] \in S
<1>1. Len(x) >= 1
  BY DEF Optional
<1> QED BY <1>1 DEF Optional

\* A step that replaces the board in the store.
LEMMA ReplaceKeeps ==
  ASSUME FilesInv, NEW snapshot \in SnapshotType, NEW log \in Seq(Nat),
         Replace(snapshot, log), boardName' = boardName \/ boardName' \in BoardNames,
         boardRole' \in {"none", "owner", "guest"}, UNCHANGED storage, steps' \in Nat
  PROVE  FilesInv'
<1>1. Snapshot' = snapshot /\ entries' = log
  BY DEF Replace, Snapshot, SnapshotType
<1>2. FilesTypeOK'
  BY <1>1 DEF FilesInv, FilesTypeOK, IsOptional, storage
<1> QED BY <1>2 DEF FilesInv, StorageReturns, storage

LEMMA ImportedIsSnapshot ==
  ASSUME NEW file \in ForeignFiles, IsImportable(file)
  PROVE  Imported(file) \in SnapshotType
<1>1. file.elements \in Seq(Elements) /\ file.version \subseteq Int /\ file.cursor \subseteq Int
  BY FilesAssumption
<1>2. CASE file.form = "snapshot"
  <2>1. ValueOr(file.version, 1) \in Nat
    BY <1>1, <1>2 DEF IsImportable, VersionIsSound, ValueOr
  <2>2. ValueOr(file.cursor, 0) \in Nat
    BY <1>1, <1>2 DEF IsImportable, CursorIsSound, ValueOr
  <2> QED BY <1>1, <1>2, <2>1, <2>2 DEF Imported, SnapshotType
<1>3. CASE file.form # "snapshot"
  BY <1>1, <1>3 DEF Imported, SnapshotType
<1> QED BY <1>2, <1>3

\* The state of the store that the other steps leave alone.
LEMMA StoreKept ==
  ASSUME FilesInv, UNCHANGED storeState
  PROVE  Snapshot' \in SnapshotType /\ entries' \in Seq(Nat)
BY DEF FilesInv, FilesTypeOK, storeState, Snapshot

LEMMA PersistKeeps ==
  ASSUME FilesInv, Persist
  PROVE  FilesInv'
<1> DEFINE whole == [board |-> Snapshot, log |-> entries]
           b == boardName
<1>1. /\ Snapshot \in SnapshotType /\ entries \in Seq(Nat) /\ b \in BoardNames
      /\ boardRole = "owner"
  BY DEF FilesInv, FilesTypeOK, Persist, CanPersist
<1>2. /\ storedDrawing' = [storedDrawing EXCEPT ![b] = <<Snapshot>>]
      /\ UNCHANGED <<storeState, boardName, boardRole, steps>>
      /\ \/ /\ storedEntries' = [storedEntries EXCEPT ![b] = <<entries>>]
            /\ lastStored' = [lastStored EXCEPT ![b] = <<whole>>]
         \/ /\ storedEntries' = storedEntries
            /\ lastStored' = [lastStored EXCEPT ![b] = <<>>]
  BY <1>1 DEF Persist
<1>3. storedDrawing' \in [BoardNames -> Optional(SnapshotType)]
  BY <1>1, <1>2, OneIsOptional DEF FilesInv
<1>4. storedEntries' \in [BoardNames -> Optional(Seq(Nat))]
  BY <1>1, <1>2, OneIsOptional DEF FilesInv
<1>5. lastStored' \in [BoardNames -> Optional([board : SnapshotType, log : Seq(Nat)])]
  <2>1. whole \in [board : SnapshotType, log : Seq(Nat)]
    BY <1>1
  <2> DEFINE Kept == Optional([board : SnapshotType, log : Seq(Nat)])
  <2>2. <<whole>> \in Kept /\ <<>> \in Kept
    BY <2>1, OneIsOptional, NoneIsOptional
  <2>3. lastStored \in [BoardNames -> Kept]
    BY DEF FilesInv
  <2> HIDE DEF whole, Kept
  <2>4. lastStored' \in [BoardNames -> Kept]
    BY <1>1, <1>2, <2>2, <2>3
  <2> QED BY <2>4 DEF Kept
<1>6. FilesTypeOK'
  BY <1>2, <1>3, <1>4, StoreKept DEF FilesInv, FilesTypeOK, IsOptional, Optional
<1>7. StorageReturns'
  <2> SUFFICES ASSUME NEW c \in BoardNames, lastStored'[c] # <<>>
               PROVE  /\ storedDrawing'[c] = <<lastStored'[c][1].board>>
                      /\ storedEntries'[c] = <<lastStored'[c][1].log>>
                      /\ StoredIsSound(lastStored'[c][1].board)
    BY DEF StorageReturns
  <2>1. CASE c # b
    <3>1. /\ lastStored'[c] = lastStored[c] /\ storedDrawing'[c] = storedDrawing[c]
          /\ storedEntries'[c] = storedEntries[c]
      BY <1>2, <2>1 DEF FilesInv
    <3> QED BY <3>1 DEF FilesInv, StorageReturns
  <2>2. CASE c = b
    <3>1. /\ storedDrawing'[c] = <<Snapshot>> /\ storedEntries'[c] = <<entries>>
          /\ lastStored'[c] = <<whole>>
      BY <1>1, <1>2, <2>2 DEF FilesInv
    <3>2. StoredIsSound(Snapshot)
      BY <1>1 DEF SnapshotType, StoredIsSound
    <3> QED BY <3>1, <3>2
  <2> QED BY <2>1, <2>2
<1> QED BY <1>3, <1>4, <1>5, <1>6, <1>7 DEF FilesInv

LEMMA FilesInvInit == FilesInit => FilesInv
<1> SUFFICES ASSUME FilesInit PROVE FilesInv
  OBVIOUS
<1>1. /\ storedDrawing \in [BoardNames -> Optional(SnapshotType)]
      /\ storedEntries \in [BoardNames -> Optional(Seq(Nat))]
      /\ lastStored \in [BoardNames -> Optional([board : SnapshotType, log : Seq(Nat)])]
  BY NoneIsOptional DEF FilesInit
<1>2. FilesTypeOK
  BY <1>1, EmptySeq DEF FilesInit, FilesTypeOK, IsOptional, Optional, Snapshot, SnapshotType
<1> QED BY <1>1, <1>2 DEF FilesInv, FilesInit, StorageReturns

LEMMA FilesInvNext == FilesInv /\ [FilesNext]_filesVars => FilesInv'
<1> SUFFICES ASSUME FilesInv, [FilesNext]_filesVars PROVE FilesInv'
  OBVIOUS
<1>1. /\ Snapshot \in SnapshotType /\ entries \in Seq(Nat) /\ steps \in Nat
      /\ boardName \in BoardNames /\ boardRole \in {"none", "owner", "guest"}
  BY DEF FilesInv, FilesTypeOK
<1>2. drawing \in Seq(Elements) /\ snapshotVersion \in Nat /\ actionCursor \in Nat
  BY <1>1 DEF Snapshot, SnapshotType
<1>3. Step => steps' \in Nat
  BY <1>1 DEF Step
<1>4. Clear => Replace([version |-> 0, cursor |-> 0, elements |-> <<>>], <<>>)
               /\ [version |-> 0, cursor |-> 0, elements |-> <<>>] \in SnapshotType
  BY EmptySeq DEF Clear, SnapshotType
<1>5. CASE EditBoard
  <2> DEFINE changed == [version |-> snapshotVersion, cursor |-> actionCursor + 1,
                        elements |-> drawing']
  <2>1. drawing' \in Seq(Elements)
    <3>1. CASE drawing = <<>>
      BY <1>2, <1>5, <3>1, AppendProperties DEF EditBoard
    <3>2. CASE drawing # <<>>
      BY <1>2, <1>5, <3>2, AppendProperties, HeadTailProperties DEF EditBoard
    <3> QED BY <3>1, <3>2
  <2>2. Append(entries, steps) \in Seq(Nat)
    BY <1>1, AppendProperties
  <2>3. changed \in SnapshotType /\ Replace(changed, Append(entries, steps))
    BY <1>2, <1>5, <2>1 DEF EditBoard, SnapshotType, Replace
  <2>4. Step /\ UNCHANGED <<boardName, boardRole, storage>>
    BY <1>5 DEF EditBoard
  <2> HIDE DEF changed
  <2> QED BY <1>1, <1>3, <2>2, <2>3, <2>4, ReplaceKeeps
<1>6. CASE Persist
  BY <1>6, PersistKeeps
<1>7. CASE ForgetStorage
  <2>1. /\ storedDrawing' \in [BoardNames -> Optional(SnapshotType)]
        /\ storedEntries' \in [BoardNames -> Optional(Seq(Nat))]
        /\ lastStored' \in [BoardNames -> Optional([board : SnapshotType, log : Seq(Nat)])]
    BY <1>7, NoneIsOptional DEF ForgetStorage
  <2>2. FilesTypeOK'
    BY <1>1, <1>3, <1>7, <2>1, StoreKept DEF ForgetStorage, FilesTypeOK, IsOptional, Optional
  <2>3. StorageReturns'
    BY <1>7 DEF ForgetStorage, StorageReturns
  <2> QED BY <2>1, <2>2, <2>3 DEF FilesInv
<1>8. CASE Reload
  BY <1>1, <1>3, <1>4, <1>8, EmptySeq, ReplaceKeeps DEF Reload
<1>9. CASE \E file \in ForeignFiles : ImportFromJson(file)
  BY <1>1, <1>3, <1>9, EmptySeq, ImportedIsSnapshot, ReplaceKeeps DEF ImportFromJson
<1>10. CASE \E b \in BoardNames : Restore(b)
  <2>1. PICK b \in BoardNames : Restore(b)
    BY <1>10
  <2>2. Step /\ UNCHANGED <<boardName, boardRole, storage>>
    BY <2>1 DEF Restore
  <2>3. CASE Clear
    BY <1>1, <1>3, <1>4, <2>2, <2>3, EmptySeq, ReplaceKeeps
  <2>4. CASE /\ storedDrawing[b] # <<>>
             /\ Replace(storedDrawing[b][1],
                        IF storedEntries[b] = <<>> THEN <<>> ELSE storedEntries[b][1])
    <3>1. storedDrawing[b] \in Optional(SnapshotType) /\ storedEntries[b] \in Optional(Seq(Nat))
      BY DEF FilesInv
    <3>2. storedDrawing[b][1] \in SnapshotType
      BY <2>4, <3>1, OptionalValue
    <3>3. (IF storedEntries[b] = <<>> THEN <<>> ELSE storedEntries[b][1]) \in Seq(Nat)
      BY <3>1, EmptySeq, OptionalValue
    <3> QED BY <1>1, <1>3, <2>2, <2>4, <3>2, <3>3, ReplaceKeeps
  <2> QED BY <2>1, <2>3, <2>4 DEF Restore
<1>11. CASE \E b \in BoardNames, role \in {"owner", "guest"} : StartSession(b, role)
  <2>1. PICK b \in BoardNames, role \in {"owner", "guest"} : StartSession(b, role)
    BY <1>11
  <2>2. /\ Step /\ boardName' = b /\ boardRole' = role /\ UNCHANGED storage
        /\ Replace(Snapshot, entries)
    BY <2>1 DEF StartSession, storeState, Replace, Snapshot
  <2> QED BY <1>1, <1>3, <2>1, <2>2, ReplaceKeeps
<1>12. CASE UNCHANGED filesVars
  <2>1. Replace(Snapshot, entries) /\ UNCHANGED <<boardName, boardRole, storage, steps>>
    BY <1>12 DEF filesVars, storeState, Replace, Snapshot
  <2> QED BY <1>1, <2>1, ReplaceKeeps
<1> QED BY <1>5, <1>6, <1>7, <1>8, <1>9, <1>10, <1>11, <1>12 DEF FilesNext

THEOREM FilesInvariant == FilesSpec => []FilesInv
BY FilesInvInit, FilesInvNext, PTL DEF FilesSpec

\* Type correctness of files and storage.
THEOREM FilesTypeCorrect == FilesSpec => []FilesTypeOK
<1>1. FilesInv => FilesTypeOK
  BY DEF FilesInv
<1> QED BY <1>1, FilesInvariant, PTL

\* What the owner of a board has stored with both writes comes back whole, whoever
\* uses that browser, on whatever boards (board-persistence.svelte.ts).
THEOREM StorageAlwaysReturns == FilesSpec => []StorageReturns
<1>1. FilesInv => StorageReturns
  BY DEF FilesInv
<1> QED BY <1>1, FilesInvariant, PTL

\* Max of two numbers.
LEMMA LargerOfTwo ==
  ASSUME NEW m \in Int, NEW n \in Int
  PROVE  Max({m, n}) = IF m >= n THEN m ELSE n
<1>1. \E x \in {m, n} : \A y \in {m, n} : x >= y
  OBVIOUS
<1> QED BY <1>1 DEF Max

\* A loaded board survives its export whatever was edited since, and any board passes
\* the relay with its elements (board-json.ts, createProtocolSnapshot).
THEOREM BoardsAlwaysTravel == FilesSpec => []BoardsTravel
<1>1. ASSUME FilesTypeOK PROVE BoardsTravel
  <2>1. Snapshot \in SnapshotType /\ snapshotVersion \in Nat /\ actionCursor \in Nat
    BY <1>1 DEF FilesTypeOK, Snapshot, SnapshotType
  <2>2. Loaded /\ Sound(drawing) => IsImportable(Exported)
    BY <2>1 DEF Loaded, Sound, Exported, IsImportable, VersionIsSound, CursorIsSound
  <2>3. Imported(Exported) = Snapshot
    BY <2>1 DEF Exported, Imported, ValueOr, Snapshot
  <2>4. Protocol(Snapshot) = [version |-> IF 1 >= snapshotVersion THEN 1 ELSE snapshotVersion,
                              cursor |-> IF 0 >= actionCursor THEN 0 ELSE actionCursor,
                              elements |-> drawing]
    <3>1. Protocol(Snapshot) = [version |-> Max({1, snapshotVersion}),
                                cursor |-> Max({0, actionCursor}), elements |-> drawing]
      <4>1. /\ Snapshot = [version |-> snapshotVersion, cursor |-> actionCursor,
                           elements |-> drawing]
            /\ Snapshot.version = snapshotVersion
        BY DEF Snapshot
      <4>2. [Snapshot EXCEPT !.version = Max({1, @})] =
              [version |-> Max({1, snapshotVersion}), cursor |-> actionCursor,
               elements |-> drawing]
        BY <4>1
      <4>3. [[version |-> Max({1, snapshotVersion}), cursor |-> actionCursor,
               elements |-> drawing] EXCEPT !.cursor = Max({0, @})] =
              [version |-> Max({1, snapshotVersion}), cursor |-> Max({0, actionCursor}),
               elements |-> drawing]
        OBVIOUS
      <4> QED BY <4>2, <4>3, Zenon DEF Protocol
    <3>2. /\ Max({1, snapshotVersion}) = IF 1 >= snapshotVersion THEN 1 ELSE snapshotVersion
          /\ Max({0, actionCursor}) = IF 0 >= actionCursor THEN 0 ELSE actionCursor
      BY <2>1, LargerOfTwo
    <3> QED BY <3>1, <3>2
  <2>5. IsForwardable(Protocol(Snapshot)) /\ Protocol(Snapshot).elements = drawing
    BY <2>1, <2>4 DEF IsForwardable
  <2> QED BY <2>2, <2>3, <2>5 DEF BoardsTravel
<1> QED BY <1>1, FilesTypeCorrect, PTL

(***************************************************************************)
(* The picture.                                                            *)
(***************************************************************************)
\* Finite sets of numbers have a largest and a smallest member: one that has the
\* fewest members on its other side.
LEMMA LargestIsThere ==
  ASSUME NEW S, IsFiniteSet(S), S \subseteq Int, S # {}
  PROVE  Max(S) \in S /\ \A y \in S : Max(S) >= y
<1> DEFINE Above(x) == {y \in S : y > x}
           Aboves == {Above(x) : x \in S}
<1>1. Aboves \subseteq FiniteSubsetsOf(S)
  <2>1. \A x \in S : IsFiniteSet(Above(x)) /\ Above(x) \in SUBSET S
    BY FS_Subset
  <2> QED BY <2>1 DEF FiniteSubsetsOf
<1>2. PICK A \in Aboves : \A B \in Aboves : <<B, A>> \notin StrictSubsetOrdering(S)
  <2>1. Aboves # {}
    OBVIOUS
  <2> HIDE DEF Aboves
  <2> QED BY <1>1, <2>1, FS_StrictSubsetOrderingWellFounded, WFMin
<1>3. PICK x \in S : A = Above(x)
  BY <1>2
<1>4. \A y \in S : x >= y
  <2> SUFFICES ASSUME NEW y \in S, y > x PROVE FALSE
    BY <1>3
  <2>1. Above(y) \subseteq Above(x) /\ y \in Above(x) /\ y \notin Above(y)
    <3>1. \A z \in S : z > y => z > x
      OBVIOUS
    <3>2. ~(y > y)
      OBVIOUS
    <3> QED BY <3>1, <3>2
  <2>2. <<Above(y), A>> \in StrictSubsetOrdering(S)
    BY <1>3, <2>1 DEF StrictSubsetOrdering
  <2>3. Above(y) \in Aboves
    OBVIOUS
  <2> QED BY <1>2, <2>2, <2>3
<1> QED BY <1>4 DEF Max

LEMMA SmallestIsThere ==
  ASSUME NEW S, IsFiniteSet(S), S \subseteq Int, S # {}
  PROVE  Min(S) \in S /\ \A y \in S : Min(S) <= y
<1> DEFINE Below(x) == {y \in S : y < x}
           Belows == {Below(x) : x \in S}
<1>1. Belows \subseteq FiniteSubsetsOf(S)
  <2>1. \A x \in S : IsFiniteSet(Below(x)) /\ Below(x) \in SUBSET S
    BY FS_Subset
  <2> QED BY <2>1 DEF FiniteSubsetsOf
<1>2. PICK A \in Belows : \A B \in Belows : <<B, A>> \notin StrictSubsetOrdering(S)
  <2>1. Belows # {}
    OBVIOUS
  <2> HIDE DEF Belows
  <2> QED BY <1>1, <2>1, FS_StrictSubsetOrderingWellFounded, WFMin
<1>3. PICK x \in S : A = Below(x)
  BY <1>2
<1>4. \A y \in S : x <= y
  <2> SUFFICES ASSUME NEW y \in S, y < x PROVE FALSE
    BY <1>3
  <2>1. Below(y) \subseteq Below(x) /\ y \in Below(x) /\ y \notin Below(y)
    <3>1. \A z \in S : z < y => z < x
      OBVIOUS
    <3>2. ~(y < y)
      OBVIOUS
    <3> QED BY <3>1, <3>2
  <2>2. <<Below(y), A>> \in StrictSubsetOrdering(S)
    BY <1>3, <2>1 DEF StrictSubsetOrdering
  <2>3. Below(y) \in Belows
    OBVIOUS
  <2> QED BY <1>2, <2>2, <2>3
<1> QED BY <1>4 DEF Min

Boxes == [minX : Int, minY : Int, maxX : Int, maxY : Int]

LEMMA BoxIsBox ==
  ASSUME NEW a \in Int, NEW b \in Int, NEW c \in Int, NEW d \in Int
  PROVE  Box(a, b, c, d) \in Boxes
BY DEF Box, Boxes

\* A hull holds each of its boxes.
LEMMA HullHolds ==
  ASSUME NEW B, IsFiniteSet(B), B \subseteq Boxes, B # {}
  PROVE  Hull(B) \in Boxes /\ \A b \in B : Within(b, Hull(B))
<1> DEFINE minXs == {b.minX : b \in B}
           minYs == {b.minY : b \in B}
           maxXs == {b.maxX : b \in B}
           maxYs == {b.maxY : b \in B}
<1>1. IsFiniteSet(minXs) /\ minXs \subseteq Int /\ minXs # {}
  <2>1. [b \in B |-> b.minX] \in Surjection(B, minXs)
    BY DEF Surjection
  <2> QED BY <2>1, FS_Surjection DEF Boxes
<1>2. IsFiniteSet(minYs) /\ minYs \subseteq Int /\ minYs # {}
  <2>1. [b \in B |-> b.minY] \in Surjection(B, minYs)
    BY DEF Surjection
  <2> QED BY <2>1, FS_Surjection DEF Boxes
<1>3. IsFiniteSet(maxXs) /\ maxXs \subseteq Int /\ maxXs # {}
  <2>1. [b \in B |-> b.maxX] \in Surjection(B, maxXs)
    BY DEF Surjection
  <2> QED BY <2>1, FS_Surjection DEF Boxes
<1>4. IsFiniteSet(maxYs) /\ maxYs \subseteq Int /\ maxYs # {}
  <2>1. [b \in B |-> b.maxY] \in Surjection(B, maxYs)
    BY DEF Surjection
  <2> QED BY <2>1, FS_Surjection DEF Boxes
<1>5. \A b \in B : b.minX \in minXs /\ b.minY \in minYs /\ b.maxX \in maxXs /\ b.maxY \in maxYs
  OBVIOUS
<1>6. Hull(B) = Box(Min(minXs), Min(minYs), Max(maxXs), Max(maxYs))
  BY DEF Hull
<1> HIDE DEF minXs, minYs, maxXs, maxYs
<1>7. /\ Min(minXs) \in Int /\ \A n \in minXs : Min(minXs) <= n
      /\ Min(minYs) \in Int /\ \A n \in minYs : Min(minYs) <= n
      /\ Max(maxXs) \in Int /\ \A n \in maxXs : n <= Max(maxXs)
      /\ Max(maxYs) \in Int /\ \A n \in maxYs : n <= Max(maxYs)
  BY <1>1, <1>2, <1>3, <1>4, LargestIsThere, SmallestIsThere
<1> QED BY <1>5, <1>6, <1>7 DEF Box, Boxes, Within

LEMMA HullOfPointsIsBox ==
  ASSUME NEW points, IsFiniteSet(points), points \subseteq Int \X Int, points # {}
  PROVE  HullOfPoints(points) \in Boxes
<1> DEFINE corners == {Box(p[1], p[2], p[1], p[2]) : p \in points}
<1>1. [p \in points |-> Box(p[1], p[2], p[1], p[2])] \in Surjection(points, corners)
  BY DEF Surjection
<1>2. IsFiniteSet(corners)
  BY <1>1, FS_Surjection
<1>3. corners \subseteq Boxes /\ corners # {}
  BY BoxIsBox
<1> QED BY <1>2, <1>3, HullHolds DEF HullOfPoints

LEMMA TurnedIsPoint ==
  ASSUME NEW p \in Int \X Int, NEW about \in Int \X Int, NEW quarters \in 0..3
  PROVE  Turned(p, about, quarters) \in Int \X Int
<1>1. /\ p[1] \in Int /\ p[2] \in Int /\ about[1] \in Int /\ about[2] \in Int
      /\ quarters \in {0, 1, 2, 3}
  OBVIOUS
<1> QED BY <1>1 DEF Turned

LEMMA TurnedBoxIsBox ==
  ASSUME NEW box \in Boxes, NEW about \in Int \X Int, NEW quarters \in 0..3
  PROVE  TurnedBox(box, about, quarters) \in Boxes
<1> DEFINE turned == {Turned(p, about, quarters) : p \in Corners(box)}
<1>1. /\ Corners(box) \subseteq Int \X Int
      /\ <<box.minX, box.minY>> \in Corners(box)
  BY DEF Corners, Boxes
<1>2. IsFiniteSet(Corners(box))
  <2>1. IsFiniteSet({box.minX} \cup {box.maxX}) /\ IsFiniteSet({box.minY} \cup {box.maxY})
    BY FS_Singleton, FS_AddElement
  <2>2. /\ {box.minX} \cup {box.maxX} = {box.minX, box.maxX}
        /\ {box.minY} \cup {box.maxY} = {box.minY, box.maxY}
    OBVIOUS
  <2> QED BY <2>1, <2>2, FS_Product DEF Corners
<1>3. [p \in Corners(box) |-> Turned(p, about, quarters)] \in Surjection(Corners(box), turned)
  BY DEF Surjection
<1>4. IsFiniteSet(turned)
  BY <1>2, <1>3, FS_Surjection
<1>5. turned \subseteq Int \X Int /\ turned # {}
  BY <1>1, TurnedIsPoint
<1> QED BY <1>4, <1>5, HullOfPointsIsBox DEF TurnedBox

\* A box that is not turned is the same about every point.
LEMMA NotTurned ==
  ASSUME NEW box, NEW about
  PROVE  TurnedBox(box, about, 0) = HullOfPoints(Corners(box))
<1>1. \A p : Turned(p, about, 0) = p
  BY DEF Turned
<1> QED BY <1>1 DEF TurnedBox

LEMMA SmallerOfTwo ==
  ASSUME NEW m \in Int, NEW n \in Int
  PROVE  Min({m, n}) = IF m <= n THEN m ELSE n
<1>1. \E x \in {m, n} : \A y \in {m, n} : x <= y
  OBVIOUS
<1> QED BY <1>1 DEF Min

LEMMA RectIsBox ==
  ASSUME NEW e \in SceneElements
  PROVE  RectBounds(e) \in Boxes /\ Centre(RectBounds(e)) \in Int \X Int
<1>1. e.x \in Int /\ e.y \in Int /\ e.x + e.width \in Int /\ e.y + e.height \in Int
  BY SceneAssumption
<1>2. RectBounds(e) \in Boxes
  <2>1. /\ Min({e.x, e.x + e.width}) \in Int /\ Min({e.y, e.y + e.height}) \in Int
        /\ Max({e.x, e.x + e.width}) \in Int /\ Max({e.y, e.y + e.height}) \in Int
    BY <1>1, LargerOfTwo, SmallerOfTwo
  <2> QED BY <2>1, BoxIsBox DEF RectBounds
<1>3. \A box \in Boxes : Centre(box) \in Int \X Int
  BY DEF Centre, Boxes
<1> QED BY <1>2, <1>3

LEMMA GrownIsBox ==
  ASSUME NEW box \in Boxes, NEW by \in Int
  PROVE  Grown(box, by) \in Boxes
BY DEF Grown, Box, Boxes

LEMMA BoundsAreBox ==
  ASSUME NEW e \in SceneElements, HasBounds(e)
  PROVE  ElementBounds(e) \in Boxes
<1>1. CASE e.kind = "stroke"
  <2>1. HullOfPoints(e.points) \in Boxes /\ Max({2, e.strokeWidth}) \in Int
    BY <1>1, SceneAssumption, HullOfPointsIsBox, LargerOfTwo DEF HasBounds
  <2> QED BY <1>1, <2>1, GrownIsBox DEF ElementBounds
<1>2. CASE e.kind = "shape"
  BY <1>2, SceneAssumption, RectIsBox, TurnedBoxIsBox DEF ElementBounds, RotatedRectBounds
<1>3. CASE e.kind \in {"text", "sticky"}
  BY <1>3, RectIsBox DEF ElementBounds
<1> QED BY <1>1, <1>2, <1>3, SceneAssumption

LEMMA WithinGrown ==
  ASSUME NEW box \in Boxes, NEW by \in Int, NEW more \in Int, by <= more
  PROVE  Within(Grown(box, by), Grown(box, more)) /\ Grown(box, by) \in Boxes
BY DEF Within, Grown, Box, Boxes

LEMMA GrownWithin ==
  ASSUME NEW box \in Boxes, NEW outer \in Boxes, Within(box, outer), NEW by \in Int
  PROVE  Within(Grown(box, by), Grown(outer, by))
BY DEF Within, Grown, Box, Boxes

LEMMA WithinWithin ==
  ASSUME NEW a \in Boxes, NEW b \in Boxes, NEW c \in Boxes, Within(a, b), Within(b, c)
  PROVE  Within(a, c)
BY DEF Within, Boxes

\* Nothing is painted further out of an element's bounds than the padding.
LEMMA PaintedNearBounds ==
  ASSUME NEW e \in SceneElements, HasBounds(e), InPlace(e),
         e.kind = "shape" => Overhang(e) <= 2 * Padding
  PROVE  /\ Painted(e) \in Boxes
         /\ Within(Painted(e), Grown(ElementBounds(e), 2 * Padding))
<1>1. /\ ElementBounds(e) \in Boxes /\ Padding \in Nat /\ e.strokeWidth \in Nat
      /\ 2 * Padding \in Int
  BY BoundsAreBox, SceneAssumption
<1>2. CASE e.kind = "stroke"
  <2> DEFINE box == HullOfPoints(e.points)
             width == IF 2 >= e.strokeWidth THEN 2 ELSE e.strokeWidth
  <2>1. box \in Boxes
    BY <1>2, SceneAssumption, HullOfPointsIsBox DEF HasBounds
  <2>2. ElementBounds(e) = Grown(box, width) /\ Painted(e) = Grown(box, e.strokeWidth)
    <3>1. Max({2, e.strokeWidth}) = width
      BY <1>1, LargerOfTwo
    <3> HIDE DEF width
    <3> QED BY <1>2, <3>1 DEF ElementBounds, Painted
  <2>3. width \in Int /\ e.strokeWidth <= width
    BY <1>1
  <2> HIDE DEF box, width
  <2> QED BY <1>1, <2>1, <2>2, <2>3 DEF Within, Grown, Box, Boxes
<1>3. CASE e.kind = "shape"
  <2>1. TurnedBox(RectBounds(e), Pivot(e), e.rotation) = ElementBounds(e)
    <3>1. CASE e.shape = "ellipse"
      BY <1>3, <3>1 DEF Pivot, ElementBounds, RotatedRectBounds
    <3>2. CASE e.shape # "ellipse"
      BY <1>3, <3>2, NotTurned DEF InPlace, ElementBounds, RotatedRectBounds
    <3> QED BY <3>1, <3>2
  <2>2. Painted(e) = Grown(ElementBounds(e), Overhang(e))
    BY <1>3, <2>1 DEF Painted
  <2>3. Overhang(e) \in Int
    <3>1. Max({3, e.strokeWidth}) \in Int
      BY <1>1, LargerOfTwo
    <3> QED BY <1>1, <3>1 DEF Overhang
  <2> QED BY <1>1, <1>3, <2>2, <2>3, WithinGrown
<1>4. CASE e.kind \in {"text", "sticky"}
  <2>1. Painted(e) = ElementBounds(e)
    BY <1>4 DEF Painted, ElementBounds
  <2> QED BY <1>1, <2>1 DEF Within, Grown, Box, Boxes
<1> QED BY <1>2, <1>3, <1>4, SceneAssumption

\* Only finitely many elements are drawn, all of them such as can be.
SceneInv == scene \subseteq SceneElements /\ IsFiniteSet(scene)

\* The picture is large enough for its bounds with the padding around them.
LEMMA PictureHoldsBounds ==
  ASSUME SceneBounds \in Boxes
  PROVE  Picture \in Boxes /\ Within(Grown(SceneBounds, 2 * Padding), Picture)
<1> DEFINE Span(n) == CeilOfHalf(n) + 2 * Padding
<1>1. /\ Padding \in Nat /\ MinimumWidth \in Nat /\ MinimumHeight \in Nat
      /\ SceneBounds.minX \in Int /\ SceneBounds.maxX \in Int
      /\ SceneBounds.minY \in Int /\ SceneBounds.maxY \in Int
  BY SceneAssumption DEF Boxes
<1>2. ASSUME NEW least \in Nat, NEW span \in Int
      PROVE  Size(least, span) \in Int /\ 2 * Size(least, span) >= span + 4 * Padding
  <2>1. CeilOfHalf(span) \in Int /\ 2 * CeilOfHalf(span) >= span
    BY DEF CeilOfHalf
  <2>2. Size(least, span) = IF least >= Span(span) THEN least ELSE Span(span)
    BY <1>1, <2>1, LargerOfTwo DEF Size
  <2> QED BY <1>1, <2>1, <2>2
<1> DEFINE width == Size(MinimumWidth, SceneBounds.maxX - SceneBounds.minX)
           height == Size(MinimumHeight, SceneBounds.maxY - SceneBounds.minY)
<1>3. /\ width \in Int /\ 2 * width >= SceneBounds.maxX - SceneBounds.minX + 4 * Padding
      /\ height \in Int /\ 2 * height >= SceneBounds.maxY - SceneBounds.minY + 4 * Padding
  <2>1. /\ SceneBounds.maxX - SceneBounds.minX \in Int
        /\ SceneBounds.maxY - SceneBounds.minY \in Int
    BY <1>1
  <2> QED BY ONLY <1>1, <1>2, <2>1
<1>4. Picture = Box(SceneBounds.minX - 2 * Padding, SceneBounds.minY - 2 * Padding,
                    SceneBounds.minX - 2 * Padding + 2 * width,
                    SceneBounds.minY - 2 * Padding + 2 * height)
  BY DEF Picture
<1> HIDE DEF width, height
<1> QED BY <1>1, <1>3, <1>4 DEF Box, Boxes, Within, Grown

LEMMA PictureHolds ==
  ASSUME SceneInv
  PROVE  PictureHoldsBoard
<1> SUFFICES ASSUME NEW e \in scene, HasBounds(e), InPlace(e),
                    e.kind = "shape" => Overhang(e) <= 2 * Padding
             PROVE  Within(Painted(e), Picture)
  BY DEF PictureHoldsBoard
<1> DEFINE bounded == {d \in scene : HasBounds(d)}
           boxes == {ElementBounds(d) : d \in bounded}
<1>1. bounded \subseteq SceneElements /\ IsFiniteSet(bounded)
  BY FS_Subset DEF SceneInv
<1>2. boxes \subseteq Boxes /\ ElementBounds(e) \in boxes
  BY <1>1, BoundsAreBox
<1>3. IsFiniteSet(boxes)
  <2>1. [d \in bounded |-> ElementBounds(d)] \in Surjection(bounded, boxes)
    BY DEF Surjection
  <2> QED BY <1>1, <2>1, FS_Surjection
<1>4. SceneBounds \in Boxes /\ Within(ElementBounds(e), SceneBounds)
  <2>1. SceneBounds = Hull(boxes)
    BY DEF SceneBounds
  <2> HIDE DEF boxes
  <2> QED BY <1>2, <1>3, <2>1, HullHolds
<1>5. e \in SceneElements /\ ElementBounds(e) \in Boxes /\ 2 * Padding \in Int
  BY <1>2, SceneAssumption DEF SceneInv
<1>6. /\ Painted(e) \in Boxes /\ Within(Painted(e), Grown(ElementBounds(e), 2 * Padding))
  BY <1>5, PaintedNearBounds
<1>7. Within(Grown(ElementBounds(e), 2 * Padding), Grown(SceneBounds, 2 * Padding))
  BY <1>4, <1>5, GrownWithin
<1>8. Picture \in Boxes /\ Within(Grown(SceneBounds, 2 * Padding), Picture)
  BY <1>4, PictureHoldsBounds
<1>9. Grown(ElementBounds(e), 2 * Padding) \in Boxes /\ Grown(SceneBounds, 2 * Padding) \in Boxes
  BY <1>4, <1>5, GrownIsBox
<1> QED BY <1>6, <1>7, <1>8, <1>9, WithinWithin

\* The picture of a board holds all that is painted of its elements but for turned
\* rectangles, diamonds, lines and arrows (board-export.ts).
THEOREM PictureAlwaysHolds == SceneSpec => []PictureHoldsBoard
<1>1. SceneInit => SceneInv
  BY FS_EmptySet DEF SceneInit, SceneInv
<1>2. SceneInv /\ [SceneNext]_scene => SceneInv'
  <2> SUFFICES ASSUME SceneInv, [SceneNext]_scene PROVE SceneInv'
    OBVIOUS
  <2>1. ASSUME NEW e \in SceneElements, DrawElement(e) PROVE SceneInv'
    BY <2>1, FS_AddElement DEF DrawElement, SceneInv
  <2>2. ASSUME NEW e \in SceneElements, EraseElement(e) PROVE SceneInv'
    BY <2>2, FS_RemoveElement DEF EraseElement, SceneInv
  <2>3. CASE UNCHANGED scene
    BY <2>3 DEF SceneInv
  <2> QED BY <2>1, <2>2, <2>3 DEF SceneNext
<1> QED BY <1>1, <1>2, PictureHolds, PTL DEF SceneSpec
-----------------------------------------------------------------------------
(* The page.                                                                *)

\* The sessions there can be: none; an owner's, with or without the guest that
\* can be kicked; and a guest's.
OwnerRosters == {Sample, <<"u_owner_1">>}
GuestRoster == <<"u_owner_1", "u_guest_local", "u_guest_2">>
PageCodes == ShellCodes \cup {DefaultCode}
OwnerSession(code, list) ==
  [actor |-> "u_owner_1", role |-> "owner", code |-> code, participants |-> list]
GuestSession(code) ==
  [actor |-> "u_guest_local", role |-> "guest", code |-> code, participants |-> GuestRoster]
IsOwned(s) == \E code \in PageCodes, list \in OwnerRosters : s = OwnerSession(code, list)
IsJoined(s) == \E code \in PageCodes : s = GuestSession(code)

\* The landing has nothing left of a board; a board has at most one panel open.
PageInv ==
  /\ session = NoSession \/ IsOwned(session) \/ IsJoined(session)
  /\ shellState \in {"landing", "board"}
  /\ connection = IF shellState = "board" THEN "connected" ELSE "disconnected"
  /\ shellState = "landing" => session = NoSession /\ openPanels = {} /\ ~isJoinCodeRevoked
  /\ openPanels \subseteq Panels /\ \E panel \in Panels : openPanels \subseteq {panel}
  /\ isJoinFormOpen \in BOOLEAN /\ joinError \in BOOLEAN /\ isJoinCodeRevoked \in BOOLEAN
  /\ look \in [tool : PageTools, color : PaletteOptions, brush : BrushPresets \cup {8}]

\* When the page offers what.
LEMMA OfferedWhen ==
  ASSUME PageInv, NEW c \in Offered
  PROVE  /\ c \in {"createBoard", "toggleJoinForm", "submitJoin", "showBoardFullOverlay"}
              => shellState = "landing"
         /\ c \in {"openShareDialog", "openParticipantsSheet", "openControlsDrawer"}
              => shellState = "board" /\ openPanels = {}
         /\ c \in {"handleImport", "handleExport"}
              => shellState = "board" /\ openPanels \subseteq {"controls"}
         /\ c \in {"kickParticipant", "close"} => shellState = "board"
         /\ c \in {"revokeJoinCode", "regenerateJoinCode"}
              => shellState = "board" /\ openPanels = {"share"}
<1>1. \A panel \in Panels : PanelControls(panel) =
        IF panel = "share" THEN ShareControls
        ELSE IF panel = "controls" THEN DrawerControls ELSE SheetControls
  BY DEF PanelControls, Panels
<1>2. CASE shellState = "landing"
  BY <1>2 DEF Offered, HeaderControls, LandingControls
<1>3. CASE shellState = "board" /\ openPanels = {}
  BY <1>3 DEF Offered, HeaderControls, ToolbarControls, ToolControls, MemberControls
<1>4. CASE shellState = "board" /\ openPanels # {}
  <2>1. PICK panel \in Panels : openPanels = {panel}
    BY <1>4 DEF PageInv
  <2>2. c \in PanelControls(panel)
    BY <1>4, <2>1 DEF Offered
  <2> QED
    BY <1>1, <1>4, <2>1, <2>2 DEF Panels, ShareControls, DrawerControls, SheetControls,
       ToolControls, MemberControls
<1> QED BY <1>2, <1>3, <1>4 DEF PageInv

\* Who is shown in a session, and what is left of a list without somebody.
LEMMA Rosters ==
  /\ Shown(NoSession) = Sample
  /\ \A code, list : list \in OwnerRosters => Shown(OwnerSession(code, list)) = list
  /\ \A code : Shown(GuestSession(code)) = GuestRoster
<1>1. Len(Sample) = 2 /\ Len(<<"u_owner_1">>) = 1 /\ Len(GuestRoster) = 3 /\ Len(<< >>) = 0
  BY DEF Sample, GuestRoster
<1>2. Sample # << >> /\ <<"u_owner_1">> # << >> /\ GuestRoster # << >>
  BY <1>1
<1> QED BY <1>2 DEF Shown, NoSession, OwnerSession, GuestSession, OwnerRosters

LEMMA ListsWithout ==
  /\ AllBut(Sample, "") = Sample
  /\ AllBut(Sample, "u_owner_1") = <<"u_guest_2">>
  /\ AllBut(Sample, "u_guest_2") = <<"u_owner_1">>
  /\ AllBut(<<"u_owner_1">>, "u_owner_1") = << >>
  /\ AllBut(GuestRoster, "u_guest_local") = <<"u_owner_1", "u_guest_2">>
<1>1. AllBut(Sample, "") = Sample
  <2>1. "" \notin {Sample[k] : k \in DOMAIN Sample}
    <3>1. \A k \in DOMAIN Sample : Sample[k] \in {"u_owner_1", "u_guest_2"}
      BY DEF Sample
    <3> QED BY <3>1
  <2> QED BY <2>1 DEF AllBut
<1>2. AllBut(Sample, "u_owner_1") = <<"u_guest_2">>
  <2>1. (CHOOSE k \in DOMAIN Sample : Sample[k] = "u_owner_1") = 1
    BY DEF Sample
  <2>2. AllBut(Sample, "u_owner_1") = [k \in 1 .. 1 |-> Sample[IF k < 1 THEN k ELSE k + 1]]
    BY <2>1 DEF AllBut, Sample
  <2> QED BY <2>2 DEF Sample
<1>3. AllBut(Sample, "u_guest_2") = <<"u_owner_1">>
  <2>1. (CHOOSE k \in DOMAIN Sample : Sample[k] = "u_guest_2") = 2
    BY DEF Sample
  <2>2. AllBut(Sample, "u_guest_2") = [k \in 1 .. 1 |-> Sample[IF k < 2 THEN k ELSE k + 1]]
    BY <2>1 DEF AllBut, Sample
  <2> QED BY <2>2 DEF Sample
<1>4. AllBut(<<"u_owner_1">>, "u_owner_1") = << >>
  <2> DEFINE one == <<"u_owner_1">>
  <2>1. (CHOOSE k \in DOMAIN one : one[k] = "u_owner_1") = 1
    OBVIOUS
  <2>2. AllBut(one, "u_owner_1") = [k \in 1 .. 0 |-> one[IF k < 1 THEN k ELSE k + 1]]
    BY <2>1 DEF AllBut
  <2> QED BY <2>2
<1>5. AllBut(GuestRoster, "u_guest_local") = <<"u_owner_1", "u_guest_2">>
  <2>1. (CHOOSE k \in DOMAIN GuestRoster : GuestRoster[k] = "u_guest_local") = 2
    BY DEF GuestRoster
  <2>2. AllBut(GuestRoster, "u_guest_local") =
          [k \in 1 .. 2 |-> GuestRoster[IF k < 2 THEN k ELSE k + 1]]
    BY <2>1 DEF AllBut, GuestRoster
  <2> QED BY <2>2 DEF GuestRoster
<1> QED BY <1>1, <1>2, <1>3, <1>4, <1>5

LEMMA ShownSets ==
  /\ ShownSet(NoSession) = {"u_owner_1", "u_guest_2"}
  /\ \A code : ShownSet(OwnerSession(code, Sample)) = {"u_owner_1", "u_guest_2"}
  /\ \A code : ShownSet(OwnerSession(code, <<"u_owner_1">>)) = {"u_owner_1"}
  /\ \A code : ShownSet(GuestSession(code)) = {"u_owner_1", "u_guest_local", "u_guest_2"}
<1>1. {Sample[k] : k \in DOMAIN Sample} = {"u_owner_1", "u_guest_2"}
  BY DEF Sample
<1>2. \A one : one = <<"u_owner_1">> => {one[k] : k \in DOMAIN one} = {"u_owner_1"}
  OBVIOUS
<1>3. {GuestRoster[k] : k \in DOMAIN GuestRoster} = {"u_owner_1", "u_guest_local", "u_guest_2"}
  BY DEF GuestRoster
<1> QED BY <1>1, <1>2, <1>3, Rosters DEF ShownSet, OwnerRosters

LEMMA PageInvInit == ShellInit => PageInv
<1> SUFFICES ASSUME ShellInit PROVE PageInv
  OBVIOUS
<1>1. look \in [tool : PageTools, color : PaletteOptions, brush : BrushPresets \cup {8}]
  BY ShellAssumption DEF ShellInit, Look, ShellAssumption
<1>2. openPanels \subseteq Panels /\ openPanels \subseteq {"share"} /\ "share" \in Panels
  BY DEF ShellInit, Panels
<1> QED BY <1>1, <1>2 DEF ShellInit, PageInv

\* The boards that open.
LEMMA OpenBoardKeeps ==
  ASSUME NEW actor, NEW role, NEW code, NEW participants,
         OpenBoard(actor, role, code, participants),
         IsOwned(session)' \/ IsJoined(session)'
  PROVE  PageInv'
<1>1. look' \in [tool : PageTools, color : PaletteOptions, brush : BrushPresets \cup {8}]
  BY ShellAssumption DEF OpenBoard, Look, ShellAssumption
<1>2. openPanels' \subseteq Panels /\ openPanels' \subseteq {"share"} /\ "share" \in Panels
  BY DEF OpenBoard, Panels
<1> QED BY <1>1, <1>2 DEF OpenBoard, PageInv

\* A board with a panel, or without.
LEMMA PanelsKeep ==
  ASSUME PageInv, NEW panels \in SUBSET Panels, NEW panel \in Panels, panels \subseteq {panel},
         shellState = "board", Only(panels)
  PROVE  PageInv'
BY DEF Only, PageInv, IsOwned, IsJoined

LEMMA OwnersAreOwned == PageInv /\ session.role = "owner" => IsOwned(session)
<1>1. NoSession.role = "none" /\ \A code : GuestSession(code).role = "guest"
  BY DEF NoSession, GuestSession
<1> QED BY <1>1 DEF PageInv, IsJoined

LEMMA KickKeeps ==
  ASSUME PageInv, NEW p \in ShownSet(session), KickParticipant(p)
  PROVE  /\ PageInv'
         /\ ShownSet(session)' \subseteq ShownSet(session)
<1>1. PICK code \in PageCodes, list \in OwnerRosters : session = OwnerSession(code, list)
  BY OwnersAreOwned DEF KickParticipant, IsOwned
<1>2. Shown(session) = list
  BY <1>1, Rosters
<1>3. p = "u_guest_2" /\ list = Sample
  BY <1>1, ShownSets DEF KickParticipant, Kickable, RoleOf, OwnerRosters
<1>4. session' = OwnerSession(code, <<"u_owner_1">>)
  BY <1>1, <1>2, <1>3, ListsWithout DEF KickParticipant, OwnerSession
<1>5. IsOwned(session)'
  BY <1>1, <1>4 DEF IsOwned, OwnerRosters
<1>6. shellState = "board"
  BY OfferedWhen DEF KickParticipant
<1>7. ShownSet(session)' = {"u_owner_1"}
  <2>1. ShownSet(session') = {"u_owner_1"}
    BY <1>4, ShownSets
  <2> QED BY <2>1 DEF ShownSet, Shown
<1>8. ShownSet(session) = {"u_owner_1", "u_guest_2"}
  BY <1>1, <1>3, ShownSets
<1> QED BY <1>5, <1>6, <1>7, <1>8 DEF PageInv, KickParticipant

\* The two action properties, of a step that keeps the session's list and the state.
LEMMA ShownKept ==
  ASSUME Shown(session)' = Shown(session), shellState' = shellState
  PROVE  KickedStayOut /\ BoardOpensFresh
BY DEF KickedStayOut, BoardOpensFresh, ShownSet, Shown

LEMMA OpenedFresh ==
  ASSUME shellState = "landing", ~isJoinCodeRevoked', openPanels' = {},
         session' = NoSession \/ \E code : \/ session' = OwnerSession(code, Sample)
                                          \/ session' = GuestSession(code)
  PROVE  KickedStayOut /\ BoardOpensFresh
<1>1. {"u_owner_1", "u_guest_2"} \subseteq ShownSet(session')
  BY ShownSets
<1>2. \A k \in DOMAIN Sample : Sample[k] \in {"u_owner_1", "u_guest_2"}
  BY DEF Sample
<1> QED BY <1>1, <1>2 DEF KickedStayOut, BoardOpensFresh

LEMMA PageStep == PageInv /\ ShellNext => PageInv' /\ KickedStayOut /\ BoardOpensFresh
<1> SUFFICES ASSUME PageInv, ShellNext PROVE PageInv' /\ KickedStayOut /\ BoardOpensFresh
  OBVIOUS
<1>1. CASE CreateBoard
  <2>1. session' = OwnerSession(DefaultCode, Sample)
    BY <1>1 DEF CreateBoard, OpenBoard, OwnerSession
  <2>2. IsOwned(session)'
    BY <2>1 DEF IsOwned, OwnerRosters, PageCodes
  <2>3. shellState = "landing"
    BY <1>1, OfferedWhen DEF CreateBoard
  <2>4. PageInv'
    BY <1>1, <2>2, OpenBoardKeeps DEF CreateBoard
  <2> QED BY <1>1, <2>1, <2>3, <2>4, OpenedFresh DEF CreateBoard, OpenBoard
<1>2. CASE ToggleJoinForm
  <2>1. shellState = "landing"
    BY <1>2, OfferedWhen DEF ToggleJoinForm
  <2>2. PageInv'
    BY <1>2, <2>1 DEF ToggleJoinForm, PageInv, IsOwned, IsJoined
  <2> QED BY <1>2, <2>2, ShownKept DEF ToggleJoinForm, Shown
<1>3. CASE SubmitJoin
  <2>1. shellState = "landing"
    BY <1>3, OfferedWhen DEF SubmitJoin
  <2>2. CASE shellState' = shellState /\ session' = session
    <3>1. PageInv'
      BY <1>3, <2>1, <2>2 DEF SubmitJoin, OpenBoard, PageInv, IsOwned, IsJoined
    <3> QED BY <2>2, <3>1, ShownKept DEF Shown
  <2>3. CASE \E code \in ShellCodes : OpenBoard("u_guest_local", "guest", code, GuestRoster)
    <3>1. PICK code \in ShellCodes : OpenBoard("u_guest_local", "guest", code, GuestRoster)
      BY <2>3
    <3>2. session' = GuestSession(code) /\ IsJoined(session)'
      BY <3>1 DEF OpenBoard, GuestSession, IsJoined, PageCodes
    <3>3. PageInv'
      BY <3>1, <3>2, OpenBoardKeeps
    <3> QED BY <2>1, <3>1, <3>2, <3>3, OpenedFresh DEF OpenBoard
  <2> QED BY <1>3, <2>2, <2>3 DEF SubmitJoin, GuestRoster
<1>4. CASE ShowBoardFullOverlay
  <2>1. shellState = "landing"
    BY <1>4, OfferedWhen DEF ShowBoardFullOverlay
  <2>2. look' \in [tool : PageTools, color : PaletteOptions, brush : BrushPresets \cup {8}]
    BY <1>4, ShellAssumption DEF ShowBoardFullOverlay, PageInv, ShellAssumption
  <2>3. PageInv'
    BY <1>4, <2>1, <2>2 DEF ShowBoardFullOverlay, PageInv, IsOwned, IsJoined
  <2> QED BY <1>4, <2>1, <2>3, OpenedFresh DEF ShowBoardFullOverlay, PageInv
<1>5. CASE ResetToLanding
  <2>1. look' \in [tool : PageTools, color : PaletteOptions, brush : BrushPresets \cup {8}]
    BY <1>5, ShellAssumption DEF ResetToLanding, Look, ShellAssumption
  <2>2. openPanels' \subseteq Panels /\ openPanels' \subseteq {"share"} /\ "share" \in Panels
    BY <1>5 DEF ResetToLanding, Panels
  <2>3. PageInv'
    BY <1>5, <2>1, <2>2 DEF ResetToLanding, ClearSession, PageInv
  <2> QED BY <1>5, <2>3 DEF ResetToLanding, KickedStayOut, BoardOpensFresh
<1>6. CASE RevokeJoinCode
  <2>1. shellState = "board"
    BY <1>6, OfferedWhen DEF RevokeJoinCode
  <2>2. PageInv'
    BY <1>6, <2>1 DEF RevokeJoinCode, PageInv, IsOwned, IsJoined
  <2> QED BY <1>6, <2>2, ShownKept DEF RevokeJoinCode, Shown
<1>7. CASE RegenerateJoinCode
  <2>1. shellState = "board" /\ openPanels' = {"share"}
    BY <1>7, OfferedWhen DEF RegenerateJoinCode
  <2>2. PICK code \in PageCodes, list \in OwnerRosters : session = OwnerSession(code, list)
    BY <1>7, OwnersAreOwned DEF RegenerateJoinCode, IsOwned
  <2>3. PICK new \in ShellCodes : session' = OwnerSession(new, list)
    BY <1>7, <2>2 DEF RegenerateJoinCode, OwnerSession
  <2>4. IsOwned(session)'
    BY <2>2, <2>3 DEF IsOwned, PageCodes
  <2>5. PageInv'
    BY <1>7, <2>1, <2>4 DEF RegenerateJoinCode, PageInv, Panels
  <2>6. Shown(session') = list /\ Shown(session) = list
    BY <2>2, <2>3, Rosters
  <2> QED BY <1>7, <2>5, <2>6, ShownKept DEF RegenerateJoinCode, Shown
<1>8. CASE OpenShareDialog \/ OpenControlsDrawer \/ OpenParticipantsSheet
           \/ \E panel \in Panels : ClosePanel(panel)
  <2>1. shellState = "board"
    BY <1>8, OfferedWhen
       DEF OpenShareDialog, OpenControlsDrawer, OpenParticipantsSheet, ClosePanel
  <2>2. PICK panels \in SUBSET Panels, panel \in Panels : Only(panels) /\ panels \subseteq {panel}
    <3>1. CASE OpenShareDialog
      BY <3>1, OfferedWhen DEF OpenShareDialog, Panels
    <3>2. CASE OpenParticipantsSheet
      BY <3>2, OfferedWhen DEF OpenParticipantsSheet, Panels
    <3>3. CASE OpenControlsDrawer
      <4>1. openPanels \subseteq {"controls"}
        BY <3>3, OfferedWhen DEF OpenControlsDrawer
      <4> QED BY <3>3, <4>1 DEF OpenControlsDrawer, Panels
    <3>4. CASE \E panel \in Panels : ClosePanel(panel)
      BY <3>4 DEF ClosePanel, PageInv
    <3> QED BY <1>8, <3>1, <3>2, <3>3, <3>4
  <2>3. PageInv'
    BY <2>1, <2>2, PanelsKeep
  <2> QED BY <2>2, <2>3, ShownKept DEF Only, Shown
<1>9. CASE \/ \E tool \in PageTools : SelectTool(tool)
           \/ \E color \in PaletteOptions : SelectColor(color)
           \/ \E size \in BrushPresets : SelectBrush(size)
  <2>1. PICK changed \in [tool : PageTools, color : PaletteOptions, brush : BrushPresets \cup {8}] :
          Chooses(changed)
    BY <1>9 DEF SelectTool, SelectColor, SelectBrush, PageInv
  <2>2. PageInv'
    BY <2>1 DEF Chooses, PageInv, IsOwned, IsJoined
  <2> QED BY <2>1, <2>2, ShownKept DEF Chooses, Shown
<1>10. CASE \E p \in ShownSet(session) : KickParticipant(p)
  <2>1. PICK p \in ShownSet(session) : KickParticipant(p)
    BY <1>10
  <2>2. PageInv' /\ ShownSet(session)' \subseteq ShownSet(session)
    BY <2>1, KickKeeps
  <2>3. shellState' = shellState
    BY <2>1 DEF KickParticipant
  <2> QED BY <2>2, <2>3 DEF KickedStayOut, BoardOpensFresh, ShownSet, Shown
<1> QED BY <1>1, <1>2, <1>3, <1>4, <1>5, <1>6, <1>7, <1>8, <1>9, <1>10 DEF ShellNext

LEMMA PageStutter == PageInv /\ UNCHANGED shellVars => PageInv'
BY DEF shellVars, PageInv, IsOwned, IsJoined

(* What the page shows of a session agrees with it. *)
LEMMA PageInvImplies == PageInv => ShellTypeOK /\ ShellSound
<1> SUFFICES ASSUME PageInv PROVE ShellTypeOK /\ ShellSound
  OBVIOUS
<1> USE DEF PageInv
<1>1. Cardinality(openPanels) <= 1
  <2>1. PICK panel \in Panels : openPanels \subseteq {panel}
    OBVIOUS
  <2>2. CASE openPanels = {}
    <3>1. Cardinality(openPanels) = 0
      BY <2>2, FS_EmptySet
    <3> QED BY <3>1
  <2>3. CASE openPanels = {panel}
    <3>1. Cardinality(openPanels) = 1
      BY <2>3, FS_Singleton
    <3> QED BY <3>1
  <2> QED BY <2>1, <2>2, <2>3
<1>2. (openPanels # {} => shellState = "board") /\ (shellState = "board" <=> connection = "connected")
  OBVIOUS
<1>3. ASSUME NEW list,
             AllBut(Shown(session), session.actor) = list,
             list \in {Sample, <<"u_guest_2">>, << >>, <<"u_owner_1", "u_guest_2">>},
             session.actor \notin {list[k] : k \in DOMAIN list}
      PROVE  \A k \in DOMAIN RemoteCursors :
               /\ RemoteCursors[k].actor # session.actor
               /\ \A i \in DOMAIN RemoteCursors :
                    RemoteCursors[i].anchor = RemoteCursors[k].anchor => i = k
  <2>1. DOMAIN list \subseteq 1 .. 2
    BY <1>3 DEF Sample
  <2>2. DOMAIN RemoteCursors = DOMAIN list
    BY <1>3 DEF RemoteCursors
  <2>3. \A k \in DOMAIN list : RemoteCursors[k].actor = list[k] /\ RemoteCursors[k].anchor = (k - 1) % 3
    BY <1>3 DEF RemoteCursors
  <2>4. \A k \in 1 .. 2 : (k - 1) % 3 = k - 1
    OBVIOUS
  <2> QED BY <1>3, <2>1, <2>2, <2>3, <2>4
<1>4. CASE session = NoSession
  <2>1. Shown(session) = Sample /\ session.actor = "" /\ session.role = "none"
    BY <1>4, Rosters DEF NoSession
  <2>2. ShownSet(session) = {"u_owner_1", "u_guest_2"}
    BY <1>4, ShownSets
  <2>3. AllBut(Shown(session), session.actor) = Sample
    BY <2>1, ListsWithout
  <2>4. session.actor \notin {Sample[k] : k \in DOMAIN Sample}
    <3>1. \A k \in DOMAIN Sample : Sample[k] \in {"u_owner_1", "u_guest_2"}
      BY DEF Sample
    <3> QED BY <2>1, <3>1
  <2>5. Status.seats = 2
    BY <2>1 DEF Status, Sample
  <2>6. ShellTypeOK
    BY <1>4, <2>2 DEF ShellTypeOK, NoSession
  <2>7. \A k \in DOMAIN RemoteCursors :
          /\ RemoteCursors[k].actor # session.actor
          /\ \A i \in DOMAIN RemoteCursors :
               RemoteCursors[i].anchor = RemoteCursors[k].anchor => i = k
    BY <1>3, <2>3, <2>4
  <2>8. {p \in ShownSet(session) : p = session.actor} = {}
    BY <2>1, <2>2
  <2>9. Status.seats <= 4
    BY <2>5
  <2> QED BY <1>1, <1>2, <2>1, <2>6, <2>7, <2>8, <2>9, Zenon DEF ShellSound
<1>5. CASE IsOwned(session)
  <2>1. PICK code \in PageCodes, list \in OwnerRosters : session = OwnerSession(code, list)
    BY <1>5 DEF IsOwned
  <2>2. Shown(session) = list /\ session.actor = "u_owner_1" /\ session.role = "owner"
    BY <2>1, Rosters DEF OwnerSession
  <2>3. "u_owner_1" \in ShownSet(session) /\ ShownSet(session) \subseteq {"u_owner_1", "u_guest_2"}
    BY <2>1, ShownSets DEF OwnerRosters
  <2>4. PICK rest \in {<<"u_guest_2">>, << >>} : AllBut(Shown(session), session.actor) = rest
    BY <2>2, ListsWithout DEF OwnerRosters
  <2>5. session.actor \notin {rest[k] : k \in DOMAIN rest}
    BY <2>2, <2>4
  <2>6. Status.seats \in {1, 2}
    BY <2>2 DEF Status, Sample, OwnerRosters
  <2>7. ShellTypeOK
    BY <2>1, <2>3 DEF ShellTypeOK, OwnerSession, PageCodes
  <2>8. RoleOf("u_owner_1") = "owner" /\ CardEnd("u_owner_1") = "You"
    BY <2>2 DEF RoleOf, CardEnd
  <2> QED BY <1>1, <1>2, <1>3, <2>2, <2>3, <2>4, <2>5, <2>6, <2>7, <2>8 DEF ShellSound
<1>6. CASE IsJoined(session)
  <2>1. PICK code \in PageCodes : session = GuestSession(code)
    BY <1>6 DEF IsJoined
  <2>2. Shown(session) = GuestRoster /\ session.actor = "u_guest_local" /\ session.role = "guest"
    BY <2>1, Rosters DEF GuestSession
  <2>3. ShownSet(session) = {"u_owner_1", "u_guest_local", "u_guest_2"}
    BY <2>1, ShownSets
  <2>4. AllBut(Shown(session), session.actor) = <<"u_owner_1", "u_guest_2">>
    BY <2>2, ListsWithout
  <2>5. \A rest : rest = <<"u_owner_1", "u_guest_2">> =>
          session.actor \notin {rest[k] : k \in DOMAIN rest}
    BY <2>2
  <2>6. Status.seats = 3
    BY <2>2 DEF Status, GuestRoster
  <2>7. ShellTypeOK
    BY <2>1, <2>3 DEF ShellTypeOK, GuestSession, PageCodes
  <2>8. RoleOf("u_guest_local") = "guest" /\ CardEnd("u_guest_local") = "You"
    BY <2>2 DEF RoleOf, CardEnd
  <2> QED BY <1>1, <1>2, <1>3, <2>2, <2>3, <2>4, <2>5, <2>6, <2>7, <2>8 DEF ShellSound
<1> QED BY <1>4, <1>5, <1>6

(* What the page shows of a board agrees with the session it has: one card
   says You, no cursor is one's own and no two are at one place, and at most
   one panel is open. *)
THEOREM PageAlwaysAgrees == ShellSpec => [](ShellTypeOK /\ ShellSound)
<1>1. ShellInit => PageInv
  BY PageInvInit
<1>2. PageInv /\ [ShellNext]_shellVars => PageInv'
  BY PageStep, PageStutter
<1> QED BY <1>1, <1>2, PageInvImplies, PTL DEF ShellSpec

(* Whoever was kicked stays out while the board is open, and a board that
   opens shows nothing of the one before. *)
THEOREM PageAlwaysSound == ShellSpec => PageSound
<1>1. ShellInit => PageInv
  BY PageInvInit
<1>2. PageInv /\ [ShellNext]_shellVars => PageInv'
  BY PageStep, PageStutter
<1>3. PageInv /\ [ShellNext]_shellVars => [KickedStayOut /\ BoardOpensFresh]_shellVars
  BY PageStep
<1> QED BY <1>1, <1>2, <1>3, PTL DEF ShellSpec, PageSound
-----------------------------------------------------------------------------
(* The whiteboard as a whole.                                               *)

(* The parts of the whiteboard keep to their own specifications when they run
   beside each other, so that what is proved of each holds of the whole. *)
LEMMA PartsKeepToThemselves ==
  WhiteboardSpec => PipelineSpec /\ FilesSpec /\ SceneSpec /\ ShellSpec /\ CollabSpec
<1> DEFINE whole == <<moving, vars, filesVars, scene, shellVars, collabVars>>
<1>1. WhiteboardInit => PipelineInit /\ FilesInit /\ SceneInit /\ ShellInit /\ CollabInit
  BY DEF WhiteboardInit
<1>2. [WhiteboardNext]_whole =>
        /\ [PipelineNext]_vars /\ [FilesNext]_filesVars /\ [SceneNext]_scene
        /\ [ShellNext]_shellVars /\ [CollabNext]_collabVars
  BY DEF WhiteboardNext
<1> QED
  BY <1>1, <1>2, PTL DEF WhiteboardSpec, PipelineSpec, FilesSpec, SceneSpec, ShellSpec, CollabSpec

(* The state of each part has its type, boards come back from files and from
   storage, and what the page shows of a session agrees with it. *)
THEOREM WhiteboardAlwaysSound == WhiteboardSpec => []WhiteboardInv
<1>1. CollabInv => CollabTypeOK
  BY DEF CollabInv
<1>2. PipelineTypeOK /\ FilesTypeOK /\ ShellTypeOK /\ ShellSound /\ CollabTypeOK
        /\ BoardsTravel /\ StorageReturns => WhiteboardInv
  BY DEF WhiteboardInv
<1> QED
  BY <1>1, <1>2, PartsKeepToThemselves, PipelineTypeCorrect, FilesTypeCorrect, PageAlwaysAgrees,
     CollabAlwaysSound, BoardsAlwaysTravel, StorageAlwaysReturns, PTL

(* Under the specification of the whole, too: the board and its history are
   sound, no action of others counts twice or out of order, points are sent,
   the picture holds the board, the edits of a shared board arrive, and the
   page shows neither who was kicked nor a board that was left. *)
THEOREM WhiteboardKeepsPromises ==
  WhiteboardSpec =>
    /\ [](EditorSound /\ AppliedOnce /\ PointsAreSent)
    /\ []PictureHoldsBoard
    /\ [](EditsArrive /\ OwnerHasEverything)
    /\ Spec /\ AppliedInOrder /\ PageSound
BY PartsKeepToThemselves, PipelineKeepsToStore, EditorAlwaysSound, NeverAppliedTwice,
   PointsAlwaysSent, PictureAlwaysHolds, EditsAlwaysArrive, OwnerAlwaysHasEverything,
   AlwaysInOrder, PageAlwaysSound, PTL
=============================================================================
