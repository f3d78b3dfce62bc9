------------------------------ MODULE BoardFiles ------------------------------
(***************************************************************************)
(* The ways a board leaves the program and comes back: JSON files          *)
(* (exportBoardSnapshotToJson, board-json.ts) and local storage            *)
(* (board-persistence.svelte.ts), with the methods of the board store that *)
(* use them.                                                               *)
(*                                                                         *)
(* An element is a model value; those in WellFormed have every field that  *)
(* readBoardElement asks for.  Others come from local storage, which is    *)
(* read without a look at its elements, or from other users' actions.      *)
(* What else an edit does is in BoardStore: here it changes the elements   *)
(* and adds an action to the log.  AnybodyStores, ProtocolAsIs and         *)
(* VersionFromTwo are faulty variants.                                     *)
(***************************************************************************)
EXTENDS Integers, Sequences, FiniteSetsExt

CONSTANTS
  Elements, WellFormed,
  BoardNames,   \* ids of the boards this browser has been on
  ForeignFiles, \* JSON texts that this program has not written
  MaxSteps      \* bound: edits, files, loads and sessions

(***************************************************************************)
(* A JSON text, as far as its reader looks at it.  form: an object with a  *)
(* board_state, one with elements and viewport only, or neither (or no     *)
(* JSON).  A number that may be missing is a set of at most one, and -1    *)
(* stands for every value that is not a natural number.                    *)
(***************************************************************************)
SnapshotType == [version : Nat, cursor : Nat, elements : Seq(Elements)]

ASSUME FilesAssumption ==
  /\ WellFormed \subseteq Elements
  /\ \A file \in ForeignFiles :
       /\ file.form \in {"snapshot", "state", "other"} /\ file.viewport \in BOOLEAN
       /\ file.elements \in Seq(Elements)
       /\ file.version \subseteq Int /\ \A m, n \in file.version : m = n
       /\ file.cursor \subseteq Int /\ \A m, n \in file.cursor : m = n

VARIABLES
  snapshotVersion, actionCursor, drawing, entries, \* LocalBoardStore
  boardName, boardRole,  \* AppSessionState
  storedDrawing,         \* local storage: board -> its snapshot, if any
  storedEntries,         \* local storage: board -> its log, if any
  lastStored,            \* history: board -> what its owner last stored whole
  steps

storeState == <<snapshotVersion, actionCursor, drawing, entries>>
storage == <<storedDrawing, storedEntries, lastStored>>
filesVars == <<storeState, boardName, boardRole, storage, steps>>

\* LocalBoardStore.getSnapshot
Snapshot == [version |-> snapshotVersion, cursor |-> actionCursor, elements |-> drawing]

\* Something, or nothing: a sequence of at most one.
IsOptional(x, S) == x \in Seq(S) /\ Len(x) <= 1

FilesTypeOK ==
  /\ Snapshot \in SnapshotType
  /\ entries \in Seq(Nat)
  /\ boardName \in BoardNames /\ boardRole \in {"none", "owner", "guest"}
  /\ \A b \in BoardNames :
       /\ IsOptional(storedDrawing[b], SnapshotType)
       /\ IsOptional(storedEntries[b], Seq(Nat))
  /\ steps \in Nat

FilesInit ==
  /\ snapshotVersion = 0 /\ actionCursor = 0 /\ drawing = << >> /\ entries = << >>
  /\ boardName \in BoardNames /\ boardRole = "none"
  /\ storedDrawing = [b \in BoardNames |-> << >>]
  /\ storedEntries = [b \in BoardNames |-> << >>]
  /\ lastStored = [b \in BoardNames |-> << >>]
  /\ steps = 0

Step == steps < MaxSteps /\ steps' = steps + 1

(***************************************************************************)
(* Files.                                                                  *)
(***************************************************************************)

\* exportBoardSnapshotToJson(getSnapshot())
Exported == [form |-> "snapshot", version |-> {snapshotVersion}, cursor |-> {actionCursor},
             elements |-> drawing, viewport |-> TRUE]

VersionFromTwo(file) == \A n \in file.version : n > 1
\* readSnapshotVersion, readActionCursor
VersionIsSound(file) == \A n \in file.version : n > 0
CursorIsSound(file) == \A n \in file.cursor : n >= 0

\* normalizeImportedSnapshot does not throw.
IsImportable(file) ==
  /\ file.form # "other"
  /\ file.form = "snapshot" => VersionIsSound(file) /\ CursorIsSound(file)
  /\ \A k \in DOMAIN file.elements : file.elements[k] \in WellFormed
  /\ file.viewport

ValueOr(number, default) == IF number = {} THEN default ELSE CHOOSE n \in number : TRUE

\* What it returns then.
Imported(file) ==
  IF file.form = "snapshot"
  THEN [version |-> ValueOr(file.version, 1), cursor |-> ValueOr(file.cursor, 0),
        elements |-> file.elements]
  ELSE [version |-> 1, cursor |-> 0, elements |-> file.elements]

\* LocalBoardStore.replaceSnapshot, and the log it is given afterwards
Replace(snapshot, log) ==
  /\ snapshotVersion' = snapshot.version
  /\ actionCursor' = snapshot.cursor
  /\ drawing' = snapshot.elements
  /\ entries' = log

\* LocalBoardStore.clear
Clear == Replace([version |-> 0, cursor |-> 0, elements |-> << >>], << >>)

\* importFromJson: a file that is refused changes nothing.
ImportFromJson(file) ==
  /\ Step
  /\ IsImportable(file)
  /\ Replace(Imported(file), << >>)
  /\ UNCHANGED <<boardName, boardRole, storage>>

\* An edit of any user, with appendAction: action ids are never used twice.
EditBoard ==
  /\ Step
  /\ drawing' \in {Append(drawing, e) : e \in Elements}
                    \cup (IF drawing = << >> THEN {} ELSE {Tail(drawing)})
  /\ entries' = Append(entries, steps)
  /\ actionCursor' = actionCursor + 1
  /\ UNCHANGED <<snapshotVersion, boardName, boardRole, storage>>

(***************************************************************************)
(* The relay.                                                              *)
(***************************************************************************)
ProtocolAsIs(snapshot) == snapshot
\* createProtocolSnapshot: what an owner sends to a guest.
Protocol(snapshot) == [snapshot EXCEPT !.version = Max({1, @}), !.cursor = Max({0, @})]

\* validateBoardSnapshotPayload; a snapshot refused here leaves the guest to
\* its timeout.
IsForwardable(snapshot) == snapshot.version > 0 /\ snapshot.cursor >= 0

(***************************************************************************)
(* Local storage.                                                          *)
(***************************************************************************)
AnybodyStores == boardRole # "none"
\* canPersistCreatorBoardState
CanPersist == boardRole = "owner"

\* persistCreatorBoardState: two writes, of which the second may throw, or
\* both; whoever calls it catches nothing.
Persist ==
  /\ CanPersist
  /\ storedDrawing' = [storedDrawing EXCEPT ![boardName] = <<Snapshot>>]
  /\ \/ /\ storedEntries' = [storedEntries EXCEPT ![boardName] = <<entries>>]
        /\ lastStored' = IF boardRole = "owner"
                         THEN [lastStored EXCEPT ![boardName] = <<[board |-> Snapshot, log |-> entries]>>]
                         ELSE lastStored
     \/ /\ UNCHANGED storedEntries
        /\ lastStored' = [lastStored EXCEPT ![boardName] = << >>]
  /\ UNCHANGED <<storeState, boardName, boardRole, steps>>

\* normalizeStoredSnapshot (readInteger): no throw
StoredIsSound(snapshot) == snapshot.version >= 0 /\ snapshot.cursor >= 0

\* restoreCreatorBoard; a snapshot that is refused changes nothing.
Restore(b) ==
  /\ Step
  /\ \/ storedDrawing[b] = << >> /\ Clear
     \/ /\ storedDrawing[b] # << >>
        /\ StoredIsSound(storedDrawing[b][1])
        /\ Replace(storedDrawing[b][1],
                   IF storedEntries[b] = << >> THEN << >> ELSE storedEntries[b][1])
  /\ UNCHANGED <<boardName, boardRole, storage>>

\* The user clears the browser's data.
ForgetStorage ==
  /\ Step
  /\ storedDrawing' = [b \in BoardNames |-> << >>]
  /\ storedEntries' = [b \in BoardNames |-> << >>]
  /\ lastStored' = [b \in BoardNames |-> << >>]
  /\ UNCHANGED <<storeState, boardName, boardRole>>

(***************************************************************************)
(* Sessions.                                                               *)
(***************************************************************************)

\* AppSessionState.setSession: also on a board this user has owned.
StartSession(b, role) ==
  /\ Step
  /\ boardName' = b /\ boardRole' = role
  /\ UNCHANGED <<storeState, storage>>

\* The page is loaded anew.
Reload ==
  /\ Step
  /\ Clear
  /\ boardRole' = "none"
  /\ UNCHANGED <<boardName, storage>>

FilesNext ==
  \/ EditBoard \/ Persist \/ ForgetStorage \/ Reload
  \/ \E file \in ForeignFiles : ImportFromJson(file)
  \/ \E b \in BoardNames :
       \/ Restore(b)
       \/ \E role \in {"owner", "guest"} : StartSession(b, role)

FilesSpec == FilesInit /\ [][FilesNext]_filesVars

(***************************************************************************)
(* Properties.                                                             *)
(***************************************************************************)

\* The board has come from a file, a snapshot or storage that had one of those.
Loaded == snapshotVersion > 0

Sound(board) == \A k \in DOMAIN board : board[k] \in WellFormed

(* A loaded board survives its export, whatever was edited since: the file is
   accepted again and gives the same board.  (A board that was never loaded
   does not: its version is 0, which readSnapshotVersion refuses; see the
   README.)  Any board, loaded or not, passes the relay with its elements. *)
BoardsTravel ==
  /\ Loaded /\ Sound(drawing) => IsImportable(Exported) /\ Imported(Exported) = Snapshot
  /\ IsForwardable(Protocol(Snapshot)) /\ Protocol(Snapshot).elements = drawing

(* What the owner of a board has stored with both writes comes back whole,
   board and log, whatever happens on that board and in that browser until its
   owner stores it again: a guest's board never takes its place, also when the
   guest is the user who owned the board, and what was stored is never refused,
   also before the board was loaded from anywhere. *)
StorageReturns ==
  \A b \in BoardNames : lastStored[b] # << >> =>
    /\ storedDrawing[b] = <<lastStored[b][1].board>>
    /\ storedEntries[b] = <<lastStored[b][1].log>>
    /\ StoredIsSound(lastStored[b][1].board)
=============================================================================
