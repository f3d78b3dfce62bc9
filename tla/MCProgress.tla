------------------------------ MODULE MCProgress ------------------------------
(***************************************************************************)
(* The socket client under any order of calls, and what must go on, under  *)
(* fairness, in the relay, the socket client and the sync controller above *)
(* it: one run.  A behaviour is one of a single part (moving says which),  *)
(* so that TLC looks at their sum and not their product.                   *)
(***************************************************************************)
EXTENDS SocketClient, SequencesExt

VARIABLE moving  \* the part of this behaviour

-----------------------------------------------------------------------------
(* The relay.                                                              *)

CONSTANTS Conns, BoardIDs, JoinCodes, NoConn, NoCode, NoBoard, Requests,
          MaxParticipants, CodeTTL, MaxLag, MaxClock, p1, p2, b1, k1

VARIABLES boardsByID, boardIDsByJoinCode, clock, connectionsByBoard, boardOwnerByBoard,
          pendingSnapshotRequests, sessionByConn, disconnectReasonByConn, pc, board,
          code, listing, peer, todo, timedOut, open, roster, synced, creator

routerVars ==
  <<boardsByID, boardIDsByJoinCode, clock, connectionsByBoard, boardOwnerByBoard,
    pendingSnapshotRequests, sessionByConn, disconnectReasonByConn, pc, board,
    code, listing, peer, todo, timedOut, open, roster, synced, creator>>

Router == INSTANCE Relay

-----------------------------------------------------------------------------
(* The controller, above the socket client that the client's part has too. *)

CONSTANTS RelayUrl, Roles, Guests, StorageFails, DropsOnlyWhenReady,
          MaxCalls, MaxRealtime, MaxPushes

VARIABLES phase, editingLocked, sessionIntent, role, session, pendingRealtimeMessages,
          pendingSnapshotTargetIds, ownerBoardIdBeforeReconnect, queuedReconnectHandshake,
          shownBoard, stored, attached, served, replies, calls, handed, pushes

controllerVars ==
  <<phase, editingLocked, sessionIntent, role, session, pendingRealtimeMessages,
    pendingSnapshotTargetIds, ownerBoardIdBeforeReconnect, queuedReconnectHandshake,
    shownBoard, stored, attached, served, replies, calls, handed, pushes>>

\* The controller, with the theorems about it.
Controller == INSTANCE SyncControllerProofs

-----------------------------------------------------------------------------
(* The client and what it is handed.                                       *)

CONSTANTS m1, m2, other
CONSTANT MaxHistory  \* bound on the messages accepted and not dropped

MCUrls == {RelayUrl, other}
MCMessages == {m1, m2} \cup Controller!Outgoing
\* A turn sends nothing, one message or two.
MCBatches == {<<>>, <<m1>>, <<m2>>, <<m1, m2>>}

\* What this instance gives the parts: the controller's address and messages are
\* among the client's, and storage takes every write.
ASSUME ProgressAssumption ==
  /\ Urls = MCUrls /\ Messages = MCMessages
  /\ Controller!ControllerAssumption /\ ~StorageFails

\* Everything accepted and not dropped, in the order in which it reaches the
\* network: the sockets in order of creation, then the queue.
History == FlattenSeq(written) \o queuedMessages

MCNext == Next /\ Len(History') <= MaxHistory

\* The browser runs a due timer and reports the end of a closing handshake;
\* a connection attempt that does not fail opens.
Fairness ==
  /\ WF_vars(TimerFires)
  /\ \A s \in Sockets : WF_vars(SocketOpens(s))
  /\ \A s \in Sockets : WF_vars(readyState[s] = "closing" /\ CurrentCloses(s, <<>>))

-----------------------------------------------------------------------------
Moves(part) == moving = part /\ UNCHANGED moving

ProgressInit ==
  /\ moving \in {"relay", "client", "controller"}
  /\ Init /\ Router!Init /\ Controller!Init

ProgressNext ==
  \/ Moves("client") /\ MCNext /\ UNCHANGED <<routerVars, controllerVars>>
  \/ Moves("relay") /\ Router!Next /\ UNCHANGED <<vars, controllerVars>>
  \/ Moves("controller") /\ Controller!Next /\ UNCHANGED routerVars

\* No part that does not move is owed a step: none has begun anything.
ProgressSpec ==
  /\ ProgressInit /\ [][ProgressNext]_<<moving, vars, routerVars, controllerVars>>
  /\ Fairness /\ Router!Fairness /\ Controller!Fairness

-----------------------------------------------------------------------------
(* Properties.                                                             *)

\* What was accepted is neither lost, nor repeated, nor reordered on its way
\* through the queue and over replaced sockets: a step adds what the caller
\* sends, at the end, and only a disconnect, or a connect that abandons an
\* earlier connection, drops what is still queued.
AcceptedInOrder ==
  [][moving = "client" =>
       \/ History' = History
       \/ /\ \E messages \in Batches : History' = History \o messages
          /\ status' = "connected" => status = "connected"
       \/ /\ written' = written
          /\ \/ status' = "stopped"
             \/ status' = "connecting" /\ socket' # socket]_vars

\* If the network fails finitely often, whoever wants a connection gets it,
\* also when it is the controller (scheduleReconnect, its timer, openSocket).
Reconnects == [](socketUrl # NoUrl => <>(status = "connected" \/ socketUrl = NoUrl))

\* A guest that joins gets its snapshot or is let go, unless its board expires
\* (registerPendingSnapshotRequest, its timer, handleBoardSnapshot).
GuestsServed == Router!GuestsServed

\* A connection that is gone gives its place back (handleSocketDisconnect).
PlacesGivenBack == Router!PlacesGivenBack

\* A session that has lost its connection comes back, or its user is told
\* (handleReconnectStart, handleSessionCreated, handleBoardSnapshot).
SessionReturns == Controller!SessionReturns

\* An owner's board comes back whole from storage (handleSessionCreated).
OwnerKeepsBoard == Controller!OwnerKeepsBoard
=============================================================================
