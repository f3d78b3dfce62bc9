------------------------------- MODULE Protocol -------------------------------
(***************************************************************************)
(* The messages between a controller (types.ts, sync-controller.svelte.ts) *)
(* and the relay (router.go): what the one writes and what the other       *)
(* checks before it acts.  The two sides are written in two languages and  *)
(* nothing but this contract keeps them together: the controller gives up  *)
(* on any error, and passes over in silence what it does not understand.   *)
(*                                                                         *)
(* What the sessions of both are is in Relay and SyncController; here any  *)
(* message may be sent that its sender can write.  Request ids, times and  *)
(* wording are left out.  A text is empty, blank, an id with space around  *)
(* it, or an id.  SupportedToolsButOne, ProtocolNumberAsIs and             *)
(* ForwardUnaddressed are faulty variants.                                 *)
(***************************************************************************)
EXTENDS Integers

CONSTANTS
  Ids,        \* actor ids, and any other text that is neither blank nor padded
  Padded,     \* texts with space around an id
  Relayed,    \* padded text -> its id
  Numbers,    \* versions, cursors and sequence numbers
  None        \* a field or a message that is not there

ASSUME ProtocolAssumption ==
  /\ Relayed \in [Padded -> Ids] /\ Numbers \subseteq Int
  /\ Padded \cap Ids = {} /\ {"", "blank"} \cap (Ids \cup Padded) = {}
  /\ None \notin Ids \cup Padded

VARIABLES
  toRelay,    \* a message on its way to the relay, with its sender, or None
  toClient    \* one on its way from it, with its receiver, or None

protocolVars == <<toRelay, toClient>>

Texts == Ids \cup Padded \cup {"", "blank"}

\* trim, strings.TrimSpace
Trim(text) ==
  IF text \in Padded THEN Relayed[text] ELSE IF text \in Ids THEN text ELSE ""

ProtocolInit == toRelay = None /\ toClient = None

(***************************************************************************)
(* types.ts                                                                *)
(***************************************************************************)
Tools == {"select", "pen", "eraser", "shapes", "text", "sticky", "pan"}
PresenceStates == {"active", "idle"}
JoinRejectedReasons == {"invalid_code", "board_full", "rate_limited", "board_unavailable"}
LeftReasons == {"disconnect", "kick", "code_revoked"}
ErrorCodes ==
  {"invalid_message", "invalid_code", "board_full", "unauthorized", "rate_limited",
   "snapshot_timeout", "board_unavailable", "internal_error"}

(***************************************************************************)
(* What a controller sends.                                                *)
(***************************************************************************)
Given == {text \in Texts : Trim(text) # ""}

\* connectOwnerSession, buildSessionCreateMessage
SessionCreates ==
  {[type |-> "session.create", nickname |-> Trim(n), device |-> Trim(d)] : n \in Given, d \in Given}

\* connectGuestSession, buildSessionJoinMessage
SessionJoins ==
  {[type |-> "session.join", code |-> Trim(c), nickname |-> Trim(n), device |-> Trim(d)] :
     c \in Given, n \in Given, d \in Given}

ProtocolNumberAsIs(least, number) == number
ProtocolNumber(least, number) == IF number < least THEN least ELSE number

\* handleBoardSnapshotRequest, createProtocolSnapshot
BoardSnapshots ==
  {[type |-> "board.snapshot", target |-> Trim(t), version |-> ProtocolNumber(1, v),
    cursor |-> ProtocolNumber(0, c)] : t \in Given, v \in Numbers, c \in Numbers}

\* handleBoardSnapshot
BoardSnapshotAcks ==
  {[type |-> "board.snapshot.ack", version |-> ProtocolNumber(1, v)] : v \in Numbers}

\* sendBoardAction: BoardActionIdentityStore has counted it, its data is a record.
BoardActions ==
  {[type |-> "board.action", id |-> i, sequence |-> s, object |-> o] :
     i \in Ids, s \in {n + 1 : n \in {n \in Numbers : n >= 0}}, o \in Ids \cup {None}}

\* sendPresenceUpdate; a coordinate that is no number is null on the wire, and
\* zero for the relay.
PresenceUpdates ==
  {[type |-> "presence.update", tool |-> t, state |-> s] : t \in Tools, s \in PresenceStates}

ClientMessages ==
  SessionCreates \cup SessionJoins \cup BoardSnapshots \cup BoardSnapshotAcks
    \cup BoardActions \cup PresenceUpdates

Send(from) ==
  /\ toRelay = None
  /\ \E message \in ClientMessages : toRelay' = [from |-> from, message |-> message]
  /\ UNCHANGED toClient

(***************************************************************************)
(* What the relay accepts.                                                 *)
(***************************************************************************)
SupportedToolsButOne == Tools \ {"sticky"}
\* isSupportedPresenceTool, isSupportedPresenceState
SupportedTools == {"select", "pen", "eraser", "shapes", "text", "sticky", "pan"}
SupportedStates == {"active", "idle"}

\* handleSocketMessage up to the checks of a payload
Accepts(m) ==
  CASE m.type = "session.create" -> Trim(m.nickname) # "" /\ Trim(m.device) # ""
    [] m.type = "session.join" ->
         Trim(m.code) # "" /\ Trim(m.nickname) # "" /\ Trim(m.device) # ""
    [] m.type = "board.snapshot" -> Trim(m.target) # "" /\ m.version > 0 /\ m.cursor >= 0
    [] m.type = "board.snapshot.ack" -> m.version > 0
    [] m.type = "board.action" -> Trim(m.id) # "" /\ m.sequence > 0
    [] m.type = "presence.update" -> m.tool \in SupportedTools /\ m.state \in SupportedStates
    [] OTHER -> FALSE

(***************************************************************************)
(* What the relay sends.                                                   *)
(***************************************************************************)
ErrorMessage(code) == [type |-> "error", code |-> code]

\* writeSocketError: of a payload, of a session, and of the board
Failures ==
  {ErrorMessage(code) :
     code \in {"invalid_message", "rate_limited", "board_unavailable", "internal_error"}}

Rejections == {"invalid_code", "rate_limited", "board_full", "board_unavailable"}
Departures == {"disconnect", "kick", "code_revoked"}

ForwardUnaddressed(from, m) == [type |-> m.type, actor |-> None, body |-> m]
\* An envelope of the session's actor around the payload that was accepted.
Forward(from, m) == [type |-> m.type, actor |-> from, body |-> m]

\* What a message that is accepted makes the relay send, to whom.
Outbound(from, m) ==
  CASE m.type = "session.create" ->
         {[to |-> from, message |-> [type |-> "session.created", board |-> b, actor |-> from]] :
            b \in Ids}
    [] m.type = "session.join" ->
         {[to |-> from, message |-> [type |-> "session.joined", board |-> b, actor |-> from]] :
            b \in Ids}
         \cup {[to |-> from, message |-> [type |-> "session.join_rejected", reason |-> r]] :
                 r \in Rejections}
         \cup {[to |-> u, message |-> [type |-> "participant.joined", actor |-> from]] :
                 u \in Ids \ {from}}
         \cup {[to |-> u, message |-> [type |-> "board.snapshot.request", target |-> from]] :
                 u \in Ids \ {from}}
    [] m.type = "board.snapshot" ->
         {[to |-> Trim(m.target), message |-> Forward(from, [m EXCEPT !.target = Trim(@)])]}
    [] m.type \in {"board.snapshot.ack", "board.action", "presence.update"} ->
         {[to |-> u, message |-> Forward(from, m)] : u \in Ids \ {from}}

\* A handler, in one of its outcomes
Handle ==
  /\ toRelay # None /\ toClient = None
  /\ toRelay' = None
  /\ \/ /\ Accepts(toRelay.message)
        /\ toClient' \in Outbound(toRelay.from, toRelay.message)
     \/ toClient' \in {[to |-> toRelay.from, message |-> failure] : failure \in Failures}
     \/ UNCHANGED toClient

\* What the relay sends unasked: failPendingSnapshotRequest,
\* broadcastParticipantLeft, handleBoardCodeRevoke
Announce ==
  /\ toClient = None
  /\ \E u \in Ids :
       toClient' \in
         {[to |-> u, message |-> [type |-> "participant.left", actor |-> a, reason |-> r]] :
            a \in Ids \ {u}, r \in Departures}
         \cup {[to |-> u, message |-> ErrorMessage(code)] :
                 code \in {"snapshot_timeout", "board_unavailable"}}
         \cup {[to |-> u, message |-> [type |-> "board.code.revoked"]]}
  /\ UNCHANGED toRelay

(***************************************************************************)
(* What a controller understands: the checks its handlers begin with, in   *)
(* the phase in which they expect the message.                             *)
(***************************************************************************)

\* handleRawMessage has no case for these.
PassedOver == {"presence.update", "board.code.revoked", "heartbeat.pong"}

Understands(me, m) ==
  CASE m.type \in {"session.created", "session.joined"} -> m.board # "" /\ m.actor # ""
    [] m.type = "session.join_rejected" -> m.reason \in JoinRejectedReasons \cap ErrorCodes
    [] m.type = "board.snapshot.request" -> Trim(m.target) # ""
    [] m.type = "board.snapshot" -> m.body.target = me
    [] m.type = "board.snapshot.ack" -> m.actor # None /\ Trim(m.actor) # ""
    [] m.type = "board.action" -> m.actor \notin {None, me} /\ m.body.sequence > 0
    [] m.type = "participant.joined" -> TRUE
    [] m.type = "participant.left" -> m.reason \in LeftReasons
    [] m.type = "error" -> m.code \in ErrorCodes
    [] OTHER -> FALSE

Read == toClient # None /\ toClient' = None /\ UNCHANGED toRelay

ProtocolNext == (\E from \in Ids : Send(from)) \/ Handle \/ Announce \/ Read

(***************************************************************************)
(* Properties.                                                             *)
(***************************************************************************)

(* The two programs understand each other: the relay refuses no message of a
   controller for its form, whatever its user or its board put into it, and a
   controller acts upon every message of the relay but for the three kinds it
   has no case for (handleSocketMessage and the validate functions; types.ts,
   createProtocolSnapshot, handleRawMessage and its handlers). *)
UnderstandEachOther ==
  /\ toRelay # None => Accepts(toRelay.message)
  /\ toClient # None =>
       toClient.message.type \in PassedOver \/ Understands(toClient.to, toClient.message)
=============================================================================
