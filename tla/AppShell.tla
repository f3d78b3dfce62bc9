------------------------------- MODULE AppShell -------------------------------
(***************************************************************************)
(* The page (+page.svelte) with the session and connection states it       *)
(* shows: from the landing to a board and back, the join form, the panels  *)
(* of the board, the join code, the chosen tool and the participants.      *)
(* What the template offers in a state (Offered) guards every action, as   *)
(* do the early returns of its handler.                                    *)
(*                                                                         *)
(* The page does not use the sync controller yet: its boards have the same *)
(* participants every time.  Nicknames, messages, the overlay (which is    *)
(* never shown), what copying a code does and showReconnectOverlay, which  *)
(* nothing calls, are left out.                                            *)
(* KickableAnyone and ClearSessionKeepingRoster are faulty variants.       *)
(***************************************************************************)
EXTENDS Integers, Sequences, FiniteSets

CONSTANTS
  DefaultCode, NoCode,
  ShellCodes,        \* codes a user may type or generateJoinCode may return
  PageTools, PaletteOptions, BrushPresets   \* what the tools panel offers

ASSUME ShellAssumption ==
  /\ {"pen", "select"} \subseteq PageTools
  /\ {"Amber", "Sky"} \subseteq PaletteOptions
  /\ {4, 6} \subseteq BrushPresets

VARIABLES
  shellState,    \* "landing" or "board"
  session,       \* AppSessionState
  connection,    \* AppConnectionState.status
  isJoinFormOpen, joinError,
  openPanels,    \* those of shareDialogOpen, mobileControlsOpen, mobilePeopleOpen that are set
  isJoinCodeRevoked,
  look           \* activeTool, selectedColor and brushSize

shellVars == <<shellState, session, connection, isJoinFormOpen, joinError,
               openPanels, isJoinCodeRevoked, look>>

\* ownerParticipant, guestBoardParticipant; u_guest_local is a guest of this page
Sample == <<"u_owner_1", "u_guest_2">>
RoleOf(p) == IF p = "u_owner_1" THEN "owner" ELSE "guest"
Panels == {"share", "controls", "people"}

NoSession == [actor |-> "", role |-> "none", code |-> NoCode, participants |-> << >>]
Look(tool, color, brush) == [tool |-> tool, color |-> color, brush |-> brush]

ShellInit ==
  /\ shellState = "landing" /\ session = NoSession /\ connection = "disconnected"
  /\ isJoinFormOpen = FALSE /\ joinError = FALSE
  /\ openPanels = {} /\ isJoinCodeRevoked = FALSE /\ look = Look("pen", "Amber", 6)

(***************************************************************************)
(* What the page shows.                                                    *)
(***************************************************************************)

\* getParticipants
Shown(s) == IF s.participants = << >> THEN Sample ELSE s.participants
ShownSet(s) == {Shown(s)[k] : k \in DOMAIN Shown(s)}

\* getParticipants().filter, by actor_id: no list has anybody twice
AllBut(list, p) ==
  IF p \notin {list[k] : k \in DOMAIN list} THEN list
  ELSE LET place == CHOOSE k \in DOMAIN list : list[k] = p
       IN [k \in 1 .. Len(list) - 1 |-> list[IF k < place THEN k ELSE k + 1]]

CurrentJoinCode == IF session.code = NoCode THEN DefaultCode ELSE session.code

\* The badges of the board, its canvas and its share dialog.
Status ==
  [board |-> IF session.role = "owner" THEN "Owner board" ELSE "Guest board",
   role |-> session.role,
   sync |-> IF connection = "reconnecting" THEN "paused" ELSE "live",
   code |-> IF isJoinCodeRevoked THEN "revoked" ELSE "active",
   joinCode |-> CurrentJoinCode,
   seats |-> Len(Shown(session))]

\* getRemoteCursors: everybody but oneself, at one of three anchors
RemoteCursors ==
  LET others == AllBut(Shown(session), session.actor)
  IN [k \in DOMAIN others |->
        [actor |-> others[k], anchor |-> (k - 1) % 3,
         tool |-> IF RoleOf(others[k]) = "owner" THEN "pen"
                  ELSE IF (k - 1) % 2 = 0 THEN "select" ELSE "text"]]

\* The card of a participant ends with a button or with a badge.
CardEnd(p) ==
  IF session.role = "owner" /\ RoleOf(p) # "owner" THEN "Kick"
  ELSE IF p = session.actor THEN "You" ELSE "Active"
MemberCards == [k \in DOMAIN Shown(session) |-> CardEnd(Shown(session)[k])]

(***************************************************************************)
(* The controls that can be reached, each named for its handler.           *)
(***************************************************************************)
HeaderControls == {"resetToLanding"}

LandingControls ==
  {"createBoard", "toggleJoinForm", "showBoardFullOverlay"}
  \cup {c \in {"submitJoin"} : isJoinFormOpen}

ToolbarControls ==
  {"openShareDialog", "handleImport", "handleExport", "openControlsDrawer",
   "openParticipantsSheet", "resetToLanding"}

ToolControls == {"selectTool", "selectColor", "selectBrush", "handleImport", "handleExport"}

MemberControls == {c \in {"kickParticipant"} : \E k \in DOMAIN MemberCards : MemberCards[k] = "Kick"}

ShareControls ==
  {"close"}
  \cup {c \in {"copyJoinCode"} : ~isJoinCodeRevoked}
  \cup {c \in {"revokeJoinCode"} : session.role = "owner" /\ ~isJoinCodeRevoked}
  \cup {c \in {"regenerateJoinCode"} : session.role = "owner"}

\* The drawer and the sheet are closed by the ways bits-ui gives to a dialog.
DrawerControls == ToolControls \cup {"close"}
SheetControls == MemberControls \cup {"close"}

PanelControls(panel) ==
  CASE panel = "share" -> ShareControls
    [] panel = "controls" -> DrawerControls
    [] panel = "people" -> SheetControls

\* The panels are modal: what is behind them cannot be reached.
Offered ==
  IF shellState = "landing" THEN HeaderControls \cup LandingControls
  ELSE IF openPanels = {}
       THEN HeaderControls \cup ToolbarControls \cup ToolControls \cup MemberControls
       ELSE UNION {PanelControls(panel) : panel \in openPanels}

(***************************************************************************)
(* The landing.                                                            *)
(***************************************************************************)

\* setSession and openBoard
OpenBoard(actor, role, code, participants) ==
  /\ session' = [actor |-> actor, role |-> role, code |-> code, participants |-> participants]
  /\ shellState' = "board"
  /\ connection' = "connected"
  /\ isJoinFormOpen' = FALSE /\ joinError' = FALSE
  /\ openPanels' = {} /\ isJoinCodeRevoked' = FALSE
  /\ look' = IF role = "owner" THEN Look("pen", "Amber", 8) ELSE Look("select", "Sky", 4)

CreateBoard ==
  /\ "createBoard" \in Offered
  /\ OpenBoard("u_owner_1", "owner", DefaultCode, Sample)

ToggleJoinForm ==
  /\ "toggleJoinForm" \in Offered
  /\ isJoinFormOpen' = ~isJoinFormOpen
  /\ joinError' = FALSE
  /\ connection' = "disconnected"
  /\ UNCHANGED <<shellState, session, openPanels, isJoinCodeRevoked, look>>

\* A nickname or a code that is too short, or both in order.
SubmitJoin ==
  /\ "submitJoin" \in Offered
  /\ \/ joinError' = TRUE
        /\ UNCHANGED <<shellState, session, connection, isJoinFormOpen,
                       openPanels, isJoinCodeRevoked, look>>
     \/ \E code \in ShellCodes :
          OpenBoard("u_guest_local", "guest", code, <<"u_owner_1", "u_guest_local", "u_guest_2">>)

\* The board without a session.
ShowBoardFullOverlay ==
  /\ "showBoardFullOverlay" \in Offered
  /\ shellState' = "board" /\ connection' = "connected"
  /\ look' = [look EXCEPT !.tool = "select"]
  /\ UNCHANGED <<session, isJoinFormOpen, joinError, openPanels, isJoinCodeRevoked>>

ClearSessionKeepingRoster ==
  session' = [NoSession EXCEPT !.participants = session.participants]
\* AppSessionState.clearSession
ClearSession == session' = NoSession

ResetToLanding ==
  /\ "resetToLanding" \in Offered
  /\ shellState' = "landing" /\ connection' = "disconnected"
  /\ ClearSession
  /\ openPanels' = {} /\ isJoinCodeRevoked' = FALSE /\ look' = Look("pen", "Amber", 6)
  /\ UNCHANGED <<isJoinFormOpen, joinError>>

(***************************************************************************)
(* The board.                                                              *)
(***************************************************************************)
Only(panels) ==
  /\ openPanels' = panels
  /\ UNCHANGED <<shellState, session, connection, isJoinFormOpen, joinError,
                 isJoinCodeRevoked, look>>

OpenShareDialog == "openShareDialog" \in Offered /\ Only(openPanels \cup {"share"})
OpenParticipantsSheet == "openParticipantsSheet" \in Offered /\ Only(openPanels \cup {"people"})
\* handleImport and handleExport do no more than that either.
OpenControlsDrawer ==
  /\ {"openControlsDrawer", "handleImport", "handleExport"} \cap Offered # {}
  /\ Only(openPanels \cup {"controls"})
ClosePanel(panel) == panel \in openPanels /\ "close" \in Offered /\ Only(openPanels \ {panel})

Chooses(changed) ==
  /\ look' = changed
  /\ UNCHANGED <<shellState, session, connection, isJoinFormOpen, joinError,
                 openPanels, isJoinCodeRevoked>>

SelectTool(tool) == "selectTool" \in Offered /\ Chooses([look EXCEPT !.tool = tool])
SelectColor(color) == "selectColor" \in Offered /\ Chooses([look EXCEPT !.color = color])
SelectBrush(size) == "selectBrush" \in Offered /\ Chooses([look EXCEPT !.brush = size])

RevokeJoinCode ==
  /\ "revokeJoinCode" \in Offered /\ session.role = "owner"
  /\ isJoinCodeRevoked' = TRUE
  /\ UNCHANGED <<shellState, session, connection, isJoinFormOpen, joinError,
                 openPanels, look>>

RegenerateJoinCode ==
  /\ "regenerateJoinCode" \in Offered /\ session.role = "owner"
  /\ \E code \in ShellCodes : session' = [session EXCEPT !.code = code]
  /\ isJoinCodeRevoked' = FALSE
  /\ openPanels' = openPanels \cup {"share"}
  /\ UNCHANGED <<shellState, connection, isJoinFormOpen, joinError, look>>

KickableAnyone == ShownSet(session)
\* The participants that kickParticipant does not refuse to remove.
Kickable == {p \in ShownSet(session) : RoleOf(p) # "owner"}

KickParticipant(p) ==
  /\ "kickParticipant" \in Offered
  /\ session.role = "owner" /\ p \in Kickable
  /\ session' = [session EXCEPT !.participants = AllBut(Shown(session), p)]
  /\ UNCHANGED <<shellState, connection, isJoinFormOpen, joinError,
                 openPanels, isJoinCodeRevoked, look>>

ShellNext ==
  \/ CreateBoard \/ ToggleJoinForm \/ SubmitJoin \/ ShowBoardFullOverlay
  \/ ResetToLanding \/ RevokeJoinCode \/ RegenerateJoinCode
  \/ OpenShareDialog \/ OpenControlsDrawer \/ OpenParticipantsSheet
  \/ \E panel \in Panels : ClosePanel(panel)
  \/ \E tool \in PageTools : SelectTool(tool)
  \/ \E color \in PaletteOptions : SelectColor(color)
  \/ \E size \in BrushPresets : SelectBrush(size)
  \/ \E p \in ShownSet(session) : KickParticipant(p)

ShellSpec == ShellInit /\ [][ShellNext]_shellVars

(***************************************************************************)
(* Properties.                                                             *)
(***************************************************************************)
ShellTypeOK ==
  /\ shellState \in {"landing", "board"}
  /\ session.role \in {"none", "owner", "guest"}
  /\ session.code \in ShellCodes \cup {DefaultCode, NoCode}
  /\ ShownSet(session) \subseteq {"u_owner_1", "u_guest_2", "u_guest_local"}
  /\ connection \in {"disconnected", "connected"}
  /\ openPanels \subseteq Panels
  /\ {isJoinFormOpen, joinError, isJoinCodeRevoked} \subseteq BOOLEAN
  /\ look \in [tool : PageTools, color : PaletteOptions, brush : BrushPresets \cup {8}]

(* A board with a session has exactly one card that says You, and that has
   the role of the session; a board without one has none.  Nobody sees a
   cursor of their own, nor two cursors at one place, though there are only
   three places; one panel is open at a time; nothing is shown as lost while
   a board is shown. *)
ShellSound ==
  /\ LET mine == {p \in ShownSet(session) : p = session.actor}
     IN IF session.role = "none" THEN mine = {}
        ELSE \E p \in ShownSet(session) : mine = {p} /\ RoleOf(p) = session.role /\ CardEnd(p) = "You"
  /\ \A k \in DOMAIN RemoteCursors :
       /\ RemoteCursors[k].actor # session.actor
       /\ \A i \in DOMAIN RemoteCursors : RemoteCursors[i].anchor = RemoteCursors[k].anchor => i = k
  /\ Cardinality(openPanels) <= 1 /\ (openPanels # {} => shellState = "board")
  /\ shellState = "board" <=> connection = "connected"
  /\ Status.seats <= 4

(* Whoever was kicked does not come back while the board is open.  The list
   that getParticipants falls back to holds everybody, kicked or not: it
   must not become empty, and only the owner, who cannot be kicked, keeps it
   from that. *)
KickedStayOut ==
  shellState = "board" /\ shellState' = "board" => ShownSet(session') \subseteq ShownSet(session)

(* A board that opens shows nothing of the one before: nobody is missing from
   it, its code is not revoked and its panels are closed.  That also holds of
   the board that is full, which is shown without a session of its own. *)
BoardOpensFresh ==
  shellState = "landing" /\ shellState' = "board" =>
    /\ \A k \in DOMAIN Sample : Sample[k] \in ShownSet(session')
    /\ ~isJoinCodeRevoked' /\ openPanels' = {}

(* No board shows what it should not: the two above at every step, and from
   one board to the next. *)
PageSound == [][KickedStayOut /\ BoardOpensFresh]_shellVars
=============================================================================
