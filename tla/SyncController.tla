--------------------------- MODULE SyncController ---------------------------
(***************************************************************************)
(* The frontend's sync controller (sync-controller.svelte.ts) above its     *)
(* socket client: the phases of a session, the editing lock of a guest,     *)
(* realtime messages held back until the session is ready, and the          *)
(* handshake repeated after a lost connection.                              *)
(*                                                                          *)
(* The relay is the environment: what it does on the current connection is  *)
(* taken from module Relay and reduced to what one client can see.  A       *)
(* connection stands for the board and the actor that the relay names in    *)
(* its answer to the handshake, as every handshake makes a new actor and    *)
(* every session.create a new board.  lastError, the participants and the   *)
(* connection state shown to the user are left out: no decision of the      *)
(* controller reads them.                                                   *)
(*                                                                          *)
(* A definition named after another one with a suffix that says what is     *)
(* wrong with it (LockGuestNever, ...) is a faulty variant, which nothing   *)
(* uses: a property is shown to notice it in the place of the original.     *)
(***************************************************************************)
EXTENDS Integers, Sequences, SequencesExt

CONSTANTS RelayUrl, NoUrl,
          Roles,                 \* the sessions the user may ask for
          Guests,                \* who may ask the owner for a snapshot
          StorageFails,          \* local storage may refuse a write, which then throws
          DropsOnlyWhenReady,    \* connections are lost only in phase ready
          MaxSockets, MaxCalls, MaxRealtime, MaxPushes  \* bounds

ASSUME ControllerAssumption ==
  /\ MaxSockets \in Nat /\ MaxCalls \in Nat /\ MaxRealtime \in Nat /\ MaxPushes \in Nat
  /\ RelayUrl # NoUrl
  /\ Roles \subseteq {"owner", "guest"}
  /\ StorageFails \in BOOLEAN /\ DropsOnlyWhenReady \in BOOLEAN

VARIABLES socketUrl, socket, reconnectTimer, queuedMessages, manualDisconnect,
          status, readyState, written  \* the socket client

VARIABLES phase, editingLocked, sessionIntent,
          role,                        \* sessionState.role
          session,                     \* sessionState.boardId and actorId: a connection
          pendingRealtimeMessages,
          pendingSnapshotTargetIds,
          ownerBoardIdBeforeReconnect,
          queuedReconnectHandshake

VARIABLES shownBoard,  \* boardStore: the edits on the board
          stored       \* local storage: the board last persisted under each id

VARIABLES attached,  \* the current connection's session at the relay
          served,    \* how many of the messages written the relay has read
          replies    \* what the relay has sent and the client not yet received

VARIABLES calls,   \* connect and disconnect calls of the user
          handed,  \* realtime messages accepted: they are numbered in order
          pushes   \* messages the relay has sent of its own accord

clientVars == <<socketUrl, socket, reconnectTimer, queuedMessages,
                manualDisconnect, status, readyState, written>>
sessionVars == <<phase, editingLocked, sessionIntent, role, session,
                 pendingRealtimeMessages, pendingSnapshotTargetIds,
                 ownerBoardIdBeforeReconnect, queuedReconnectHandshake>>
boardVars == <<shownBoard, stored>>
relayVars == <<attached, served, replies>>
countVars == <<calls, handed, pushes>>
vars == <<clientVars, sessionVars, boardVars, relayVars, countVars>>

NoSession == 0

-----------------------------------------------------------------------------
(* Messages and edits.                                                      *)

Msg(type, id) == [type |-> type, id |-> id]
Create == Msg("session.create", 0)
Join == Msg("session.join", 0)
IsHandshake(message) == message.type \in {"session.create", "session.join"}
IsRealtime(message) == message.type \in {"board.action", "presence.update"}

OwnEdits == 1..MaxRealtime
RemoteEdit == -1    \* an edit of somebody else
SnapshotEdit == 0   \* what the owner's board shows
Edits == OwnEdits \cup {RemoteEdit, SnapshotEdit}

Outgoing ==
  {Create, Join} \cup {Msg("board.snapshot.ack", 0)}
    \cup {Msg("board.snapshot", g) : g \in Guests}
    \cup {Msg(type, k) : type \in {"board.action", "presence.update"}, k \in OwnEdits}

Incoming ==
  {Msg(type, 0) : type \in {"session.created", "session.joined", "session.join_rejected",
                            "board.snapshot", "error", "snapshot_timeout"}}
    \cup {Msg(type, g) : type \in {"board.snapshot.request", "board.snapshot.ack"}, g \in Guests}
    \cup {Msg("board.action", RemoteEdit)}

Client == INSTANCE SocketClient
  WITH Urls <- {RelayUrl}, Messages <- Outgoing, Batches <- Seq(Outgoing)

Phases == {"idle", "connecting", "awaiting_snapshot", "ready", "reconnecting", "error"}
Connections == 1..MaxSockets

TypeOK ==
  /\ Client!TypeOK
  /\ phase \in Phases
  /\ editingLocked \in BOOLEAN
  /\ sessionIntent \in {"none", "owner", "guest"}
  /\ role \in {"none", "owner", "guest"}
  /\ session \in Connections \cup {NoSession}
  /\ pendingRealtimeMessages \in Seq({m \in Outgoing : IsRealtime(m)})
  /\ pendingSnapshotTargetIds \subseteq Guests
  /\ ownerBoardIdBeforeReconnect \in Connections \cup {NoSession}
  /\ queuedReconnectHandshake \in BOOLEAN
  /\ shownBoard \subseteq Edits
  /\ DOMAIN stored \subseteq Connections
  /\ \A id \in DOMAIN stored : stored[id] \subseteq Edits
  /\ attached \in {"none", "owner", "waiting", "guest"}
  /\ served \in Nat
  /\ replies \in Seq(Incoming)
  /\ calls \in 0..MaxCalls /\ handed \in 0..MaxRealtime /\ pushes \in 0..MaxPushes

Init ==
  /\ Client!Init
  /\ phase = "idle"
  /\ editingLocked = FALSE
  /\ sessionIntent = "none"
  /\ role = "none"
  /\ session = NoSession
  /\ pendingRealtimeMessages = <<>>
  /\ pendingSnapshotTargetIds = {}
  /\ ownerBoardIdBeforeReconnect = NoSession
  /\ queuedReconnectHandshake = FALSE
  /\ shownBoard = {}
  /\ stored = <<>>
  /\ attached = "none" /\ served = 0 /\ replies = <<>>
  /\ calls = 0 /\ handed = 0 /\ pushes = 0

-----------------------------------------------------------------------------
(* Local storage.                                                           *)

OwnsBoard == role = "owner" /\ session # NoSession

\* What is stored once b is written under id.
Stored(id, b) == [i \in DOMAIN stored \cup {id} |-> IF i = id THEN b ELSE stored[i]]

\* persistOwnerBoardState: what is stored once the board is b.
Persisted(b) == IF OwnsBoard THEN Stored(session, b) ELSE stored

\* restoreCreatorBoard: a board that is not in storage becomes a fresh one.
IsStored(id) == id \in DOMAIN stored
Restored(id) == IF IsStored(id) THEN stored[id] ELSE {}

-----------------------------------------------------------------------------
(* Calls of the user.                                                       *)

\* The relay's view of a connection begins anew with the connection.
NewConnection == attached' = "none" /\ served' = 0 /\ replies' = <<>>

Dial(intent) ==
  /\ intent \in Roles
  /\ calls < MaxCalls
  /\ calls' = calls + 1
  /\ sessionIntent' = intent
  /\ phase' = "connecting"
  /\ Client!Connect(RelayUrl, <<IF intent = "owner" THEN Create ELSE Join>>)
  /\ IF Client!AlreadyConnecting(RelayUrl) THEN UNCHANGED relayVars ELSE NewConnection
  /\ UNCHANGED <<role, session, pendingRealtimeMessages, pendingSnapshotTargetIds,
                 queuedReconnectHandshake, boardVars, handed, pushes>>

ConnectOwnerSession ==
  /\ Dial("owner")
  /\ ownerBoardIdBeforeReconnect' = NoSession
  /\ editingLocked' = FALSE

ConnectGuestSession ==
  /\ Dial("guest")
  /\ editingLocked' = TRUE
  /\ UNCHANGED ownerBoardIdBeforeReconnect

Disconnect ==
  /\ calls < MaxCalls
  /\ calls' = calls + 1
  /\ Client!Disconnect
  /\ phase' = "idle"
  /\ editingLocked' = FALSE
  /\ pendingSnapshotTargetIds' = {}
  /\ pendingRealtimeMessages' = <<>>
  /\ queuedReconnectHandshake' = FALSE
  /\ NewConnection
  /\ UNCHANGED <<sessionIntent, role, session, ownerBoardIdBeforeReconnect,
                 boardVars, handed, pushes>>

CanSendWhenConnected == status = "connected" /\ session # NoSession

CanSendRealtimeMessages ==
  phase = "ready" /\ status = "connected" /\ session # NoSession

GuestIsLocked == role = "guest" /\ editingLocked

\* What sendBoardAction and sendPresenceUpdate share.  A message that is
\* refused changes nothing.
HandOver(message) ==
  /\ ~GuestIsLocked
  /\ handed < MaxRealtime
  /\ handed' = handed + 1
  /\ \/ /\ ~CanSendRealtimeMessages
        /\ pendingRealtimeMessages' = Append(pendingRealtimeMessages, message)
        /\ UNCHANGED clientVars
     \/ /\ CanSendRealtimeMessages
        /\ Client!Send(<<message>>)
        /\ UNCHANGED pendingRealtimeMessages
  /\ UNCHANGED <<phase, editingLocked, sessionIntent, role, session,
                 pendingSnapshotTargetIds, ownerBoardIdBeforeReconnect,
                 queuedReconnectHandshake, relayVars, calls, pushes>>

\* The user edits the board and the edit is handed to sendBoardAction, which
\* persists an owner's board.
SendBoardAction ==
  /\ HandOver(Msg("board.action", handed + 1))
  /\ shownBoard' = shownBoard \cup {handed + 1}
  /\ \/ stored' = Persisted(shownBoard')
     \/ StorageFails /\ OwnsBoard /\ UNCHANGED stored

SendPresenceUpdate ==
  /\ HandOver(Msg("presence.update", handed + 1))
  /\ UNCHANGED boardVars

-----------------------------------------------------------------------------
(* Status changes of the socket client.                                     *)

\* A connection that is back is not yet a session that is back.
PhaseWhenConnectedReady == IF phase = "reconnecting" THEN "ready" ELSE phase
PhaseWhenConnectedStatus == IF phase = "reconnecting" THEN "connected" ELSE phase
PhaseWhenConnected ==
  IF phase = "reconnecting"
  THEN IF sessionIntent = "guest" THEN "awaiting_snapshot" ELSE "connecting"
  ELSE phase

\* "connected", with the queue written to the socket in the same turn.
SocketOpens ==
  \E s \in Connections :
    /\ Client!SocketOpens(s)
    /\ phase' = IF socket = s THEN PhaseWhenConnected ELSE phase
    /\ UNCHANGED <<editingLocked, sessionIntent, role, session, pendingRealtimeMessages,
                   pendingSnapshotTargetIds, ownerBoardIdBeforeReconnect,
                   queuedReconnectHandshake, boardVars, relayVars, countVars>>

\* The network may fail now (a restriction for one liveness property only).
MayDrop == DropsOnlyWhenReady => phase = "ready"

\* handleReconnectStart does nothing when it has queued a handshake before
\* that no answer has cleared, or when no session was ever asked for.
RepeatsHandshake == ~queuedReconnectHandshake /\ sessionIntent # "none"

KeepOwnerBoardUnstored ==
  /\ ownerBoardIdBeforeReconnect' = IF OwnsBoard THEN session ELSE ownerBoardIdBeforeReconnect
  /\ UNCHANGED stored
KeepOwnerBoard ==
  /\ ownerBoardIdBeforeReconnect' = IF OwnsBoard THEN session ELSE ownerBoardIdBeforeReconnect
  /\ stored' = Persisted(shownBoard)

LockGuestNever == UNCHANGED editingLocked
LockGuest == editingLocked' = (editingLocked \/ role = "guest")

HandleReconnectStart ==
  /\ KeepOwnerBoard
  /\ LockGuest
  /\ queuedReconnectHandshake' = TRUE

\* The current connection is lost.  The callback runs when the status changes,
\* which it does not if an attempt to reconnect fails.
SocketCloses ==
  \E s \in Connections :
    /\ MayDrop
    /\ NewConnection
    /\ \/ /\ status = "reconnecting"
          /\ Client!CurrentCloses(s, <<>>)
          /\ UNCHANGED <<sessionVars, boardVars>>
       \/ /\ status # "reconnecting" /\ ~RepeatsHandshake
          /\ Client!CurrentCloses(s, <<>>)
          /\ phase' = "reconnecting"
          /\ UNCHANGED <<editingLocked, ownerBoardIdBeforeReconnect,
                         queuedReconnectHandshake, boardVars>>
       \/ /\ status # "reconnecting" /\ RepeatsHandshake
          /\ Client!CurrentCloses(s, <<IF sessionIntent = "owner" THEN Create ELSE Join>>)
          /\ phase' = "reconnecting"
          /\ HandleReconnectStart
          /\ UNCHANGED shownBoard
    /\ UNCHANGED <<sessionIntent, role, session, pendingRealtimeMessages,
                   pendingSnapshotTargetIds, countVars>>

\* The same, when writing the owner's board to local storage throws: nothing
\* after the write happens, in the callback or in the socket client.
StorageThrows ==
  \E s \in Connections :
    /\ StorageFails
    /\ RepeatsHandshake /\ OwnsBoard
    /\ Client!CallbackThrows(s)
    /\ NewConnection
    /\ phase' = "reconnecting"
    /\ UNCHANGED <<editingLocked, sessionIntent, role, session, pendingRealtimeMessages,
                   pendingSnapshotTargetIds, ownerBoardIdBeforeReconnect,
                   queuedReconnectHandshake, boardVars, countVars>>

TimerFires ==
  /\ Client!TimerFires
  /\ UNCHANGED <<sessionVars, boardVars, relayVars, countVars>>

\* The relay closes after everything it has sent, or the network begins to.
SocketCloseBegins ==
  \E s \in Connections :
    /\ MayDrop
    /\ replies = <<>>
    /\ Client!SocketCloseBegins(s)
    /\ UNCHANGED <<sessionVars, boardVars, relayVars, countVars>>

StaleCloses ==
  \E s \in Connections :
    /\ Client!StaleCloses(s)
    /\ UNCHANGED <<sessionVars, boardVars, relayVars, countVars>>

-----------------------------------------------------------------------------
(* Messages of the relay.                                                   *)

Received(type) ==
  /\ socket # Client!NoSocket /\ readyState[socket] = "open"
  /\ replies # <<>> /\ Head(replies).type = type
  /\ replies' = Tail(replies)
  /\ UNCHANGED <<attached, served, countVars>>

\* flushPendingRealtimeMessages, called when the phase has become ready on an
\* open socket, after the sends of its caller.
SendWithoutFlush(messages) == Client!Send(messages) /\ UNCHANGED pendingRealtimeMessages
SendAndForget(messages) == Client!Send(messages) /\ pendingRealtimeMessages' = <<>>
SendAndFlush(messages) ==
  /\ Client!Send(messages \o pendingRealtimeMessages)
  /\ pendingRealtimeMessages' = <<>>

\* After a reconnection the board comes back from storage, where it is kept
\* under the id of the old board, and is stored under the new one.
RestoreOwnerBoard ==
  IF ownerBoardIdBeforeReconnect \notin {NoSession, socket}
  THEN /\ shownBoard' = Restored(ownerBoardIdBeforeReconnect)
       /\ stored' = IF IsStored(ownerBoardIdBeforeReconnect)
                    THEN Stored(socket, shownBoard') ELSE stored
  ELSE UNCHANGED boardVars

\* The write of the board restored throws: nothing after it happens.
RestoreThrows ==
  /\ StorageFails
  /\ ownerBoardIdBeforeReconnect \notin {NoSession, socket}
  /\ IsStored(ownerBoardIdBeforeReconnect)
  /\ shownBoard' = Restored(ownerBoardIdBeforeReconnect)
  /\ UNCHANGED <<clientVars, stored, editingLocked, phase, pendingRealtimeMessages>>

HandshakeUnanswered == UNCHANGED queuedReconnectHandshake
HandshakeAnswered == queuedReconnectHandshake' = FALSE

ReceiveSessionCreated ==
  /\ Received("session.created")
  /\ \/ /\ sessionIntent = "owner"
        /\ HandshakeAnswered
        /\ session' = socket
        /\ role' = "owner"
        /\ \/ /\ RestoreOwnerBoard
              /\ editingLocked' = FALSE
              /\ phase' = "ready"
              /\ SendAndFlush(<<>>)
           \/ RestoreThrows
        /\ UNCHANGED <<sessionIntent, pendingSnapshotTargetIds, ownerBoardIdBeforeReconnect>>
     \/ /\ sessionIntent # "owner"
        /\ UNCHANGED <<clientVars, sessionVars, boardVars>>

ReceiveSessionJoined ==
  /\ Received("session.joined")
  /\ HandshakeAnswered
  /\ session' = socket
  /\ role' = "guest"
  /\ editingLocked' = TRUE
  /\ phase' = "awaiting_snapshot"
  /\ UNCHANGED <<clientVars, sessionIntent, pendingRealtimeMessages,
                 pendingSnapshotTargetIds, ownerBoardIdBeforeReconnect, boardVars>>

ReceiveJoinRejected ==
  /\ Received("session.join_rejected")
  /\ editingLocked' = TRUE
  /\ phase' = "error"
  /\ UNCHANGED <<clientVars, sessionIntent, role, session, pendingRealtimeMessages,
                 pendingSnapshotTargetIds, ownerBoardIdBeforeReconnect,
                 queuedReconnectHandshake, boardVars>>

ReceiveSnapshotRequest ==
  /\ Received("board.snapshot.request")
  /\ \/ /\ role = "owner" /\ phase = "ready"
        /\ pendingSnapshotTargetIds' = pendingSnapshotTargetIds \cup {Head(replies).id}
        /\ Client!Send(<<Msg("board.snapshot", Head(replies).id)>>)
     \/ /\ role # "owner" \/ phase # "ready"
        /\ UNCHANGED <<clientVars, pendingSnapshotTargetIds>>
  /\ UNCHANGED <<phase, editingLocked, sessionIntent, role, session,
                 pendingRealtimeMessages, ownerBoardIdBeforeReconnect,
                 queuedReconnectHandshake, boardVars>>

\* A snapshot addressed to the actor of the present session.
ReceiveSnapshot ==
  /\ Received("board.snapshot")
  /\ \/ /\ role = "guest" /\ session = socket
        /\ shownBoard' = {SnapshotEdit}
        /\ editingLocked' = FALSE
        /\ phase' = "ready"
        /\ SendAndFlush(<<Msg("board.snapshot.ack", 0)>>)
     \/ /\ role # "guest" \/ session # socket
        /\ UNCHANGED <<clientVars, shownBoard, editingLocked, phase, pendingRealtimeMessages>>
  /\ UNCHANGED <<sessionIntent, role, session, pendingSnapshotTargetIds,
                 ownerBoardIdBeforeReconnect, queuedReconnectHandshake, stored>>

ReceiveSnapshotAck ==
  /\ Received("board.snapshot.ack")
  /\ pendingSnapshotTargetIds' = pendingSnapshotTargetIds \ {Head(replies).id}
  /\ UNCHANGED <<clientVars, phase, editingLocked, sessionIntent, role, session,
                 pendingRealtimeMessages, ownerBoardIdBeforeReconnect,
                 queuedReconnectHandshake, boardVars>>

\* A remote edit is applied and not persisted.
ReceiveBoardAction ==
  /\ Received("board.action")
  /\ shownBoard' = shownBoard \cup {Head(replies).id}
  /\ UNCHANGED <<clientVars, sessionVars, stored>>

ReceiveError ==
  \E type \in {"error", "snapshot_timeout"} :
    /\ Received(type)
    /\ editingLocked' = (editingLocked \/ type = "snapshot_timeout")
    /\ phase' = "error"
    /\ UNCHANGED <<clientVars, sessionIntent, role, session, pendingRealtimeMessages,
                   pendingSnapshotTargetIds, ownerBoardIdBeforeReconnect,
                   queuedReconnectHandshake, boardVars>>

ReceiveSteps ==
  \/ ReceiveSessionCreated \/ ReceiveSessionJoined \/ ReceiveJoinRejected
  \/ ReceiveSnapshotRequest \/ ReceiveSnapshot \/ ReceiveSnapshotAck
  \/ ReceiveBoardAction \/ ReceiveError

-----------------------------------------------------------------------------
(* The relay, as far as one client can see it (module Relay).               *)

RelayStep == UNCHANGED <<clientVars, sessionVars, boardVars, calls, handed>>

Linked == socket # Client!NoSocket /\ readyState[socket] \in {"open", "closing"}

RelayReads(message) ==
  /\ Linked
  /\ served < Len(written[socket])
  /\ message = written[socket][served + 1]
  /\ served' = served + 1
  /\ UNCHANGED pushes
  /\ RelayStep

Reply(message) == replies' = Append(replies, message)

\* A handshake on a connection without a session succeeds, or is refused:
\* rate limit, unknown or revoked code, board full, owner gone.
RelayAttaches ==
  \E message \in {Create, Join} :
    /\ RelayReads(message)
    /\ attached = "none"
    /\ IF message = Create
       THEN \/ attached' = "owner" /\ Reply(Msg("session.created", 0))
            \/ UNCHANGED attached /\ Reply(Msg("error", 0))
       ELSE \/ attached' = "waiting" /\ Reply(Msg("session.joined", 0))
            \/ UNCHANGED attached /\ Reply(Msg("session.join_rejected", 0))

\* Anything else is served silently when the connection has a session and may
\* be answered with an error: always without a session, and for a second
\* handshake; otherwise when the board has expired or the target has left.
RelayServes ==
  \E message \in Outgoing :
    /\ RelayReads(message)
    /\ IsHandshake(message) => attached # "none"
    /\ \/ Reply(Msg("error", 0))
       \/ /\ attached # "none" /\ ~IsHandshake(message)
          /\ UNCHANGED replies
    /\ UNCHANGED attached

\* The guest waiting for the owner's snapshot gets it, or is refused.
RelayResolvesJoin ==
  /\ Linked
  /\ attached = "waiting"
  /\ \/ attached' = "guest" /\ Reply(Msg("board.snapshot", 0))
     \/ attached' = "none" /\ Reply(Msg("snapshot_timeout", 0))
  /\ UNCHANGED <<served, pushes>>
  /\ RelayStep

HasServed(message) == \E i \in 1..served : written[socket][i] = message

\* Messages caused by other participants.  A guest acknowledges what the relay
\* has served; one acknowledgement at a time is on its way.
RelayPushes ==
  /\ Linked
  /\ \/ \E g \in Guests : /\ attached = "owner" /\ HasServed(Msg("board.snapshot", g))
                          /\ ~Contains(replies, Msg("board.snapshot.ack", g))
                          /\ Reply(Msg("board.snapshot.ack", g))
                          /\ UNCHANGED pushes
     \/ /\ pushes < MaxPushes
        /\ pushes' = pushes + 1
        /\ \/ \E g \in Guests : attached = "owner" /\ Reply(Msg("board.snapshot.request", g))
           \/ attached # "none" /\ Reply(Msg("board.action", RemoteEdit))
  /\ UNCHANGED <<attached, served>>
  /\ RelayStep

-----------------------------------------------------------------------------
Next ==
  \/ ConnectOwnerSession \/ ConnectGuestSession \/ Disconnect
  \/ SendBoardAction \/ SendPresenceUpdate
  \/ SocketOpens \/ SocketCloses \/ StorageThrows \/ TimerFires
  \/ SocketCloseBegins \/ StaleCloses
  \/ ReceiveSteps
  \/ RelayAttaches \/ RelayServes \/ RelayResolvesJoin \/ RelayPushes

Spec == Init /\ [][Next]_vars

\* The event loop runs what is due, the network delivers what was sent and lets
\* a connection open, the relay reads its connections and resolves every join
\* (its snapshot timer).
Fairness ==
  /\ WF_vars(TimerFires) /\ WF_vars(SocketOpens) /\ WF_vars(ReceiveSteps)
  /\ WF_vars(socket # Client!NoSocket /\ readyState[socket] = "closing" /\ SocketCloses)
  /\ WF_vars(RelayAttaches) /\ WF_vars(RelayServes) /\ WF_vars(RelayResolvesJoin)

FairSpec == Spec /\ Fairness

-----------------------------------------------------------------------------
(* Properties                                                               *)

Connected == status = "connected"

\* Sockets are numbered as they are created, the current one is the newest,
\* and a session is one of a socket that exists.
SocketsInOrder ==
  /\ \A s, t \in Connections :
       s < t /\ (readyState[s] = "none" \/ s = socket) => readyState[t] = "none"
  /\ \A s \in Connections : readyState[s] = "none" => written[s] = <<>> /\ s # session

\* What the relay has sent is of this connection, and true of it.
RepliesAreTrue ==
  /\ ~Linked => attached = "none" /\ served = 0 /\ replies = <<>>
  /\ \A i \in 1..Len(replies) :
       /\ replies[i].type = "session.created" => attached = "owner"
       /\ replies[i].type = "board.snapshot" => attached = "guest"

\* A session is ready as a whole: on a connection that is there, as the actor, on
\* the board and in the role that the relay has attached to this very connection
\* (never those of an earlier one), and with nothing held back; through
\* reconnections, errors, sessions that follow each other and a storage that
\* refuses a write.
ReadyIsWhole ==
  phase = "ready" =>
    /\ Connected
    /\ session = socket
    /\ attached = role
    /\ role # "none"
    /\ pendingRealtimeMessages = <<>>

\* A connection with a session is not waiting for the answer to a handshake.
HandshakeIsAnswered ==
  socket # Client!NoSocket /\ session = socket => ~queuedReconnectHandshake

\* A guest whose editing is open has stopped, or it is in its session.
OpenGuestHasSession ==
  sessionIntent = "guest" /\ role = "guest" /\ ~editingLocked
    => \/ ~Client!Accepts
       \/ Connected /\ session = socket /\ attached = "guest" /\ SnapshotEdit \in shownBoard

\* A guest whose editing is open has the snapshot the relay sent on this
\* connection on its board, also after reconnections and errors.
GuestEditsOnSnapshot ==
  sessionIntent = "guest" /\ role = "guest" /\ Connected /\ ~editingLocked
    => attached = "guest" /\ SnapshotEdit \in shownBoard

\* The lanes in which realtime messages are on their way, in the order in which
\* they reach the network: what each socket was given, the client's queue, and
\* what the controller holds back.
Lanes == 1..(MaxSockets + 2)
Lane(l) ==
  IF l \in Connections THEN written[l]
  ELSE IF l = MaxSockets + 1 THEN queuedMessages ELSE pendingRealtimeMessages

\* Realtime messages reach the network in the order in which the user made
\* them and none twice: across the list of pending messages, the client's
\* queue, direct sends, and reconnections.
RealtimeInOrder ==
  \A l, m \in Lanes : \A i \in 1..Len(Lane(l)), j \in 1..Len(Lane(m)) :
    IsRealtime(Lane(l)[i]) /\ IsRealtime(Lane(m)[j]) /\ (l < m \/ (l = m /\ i < j))
      => Lane(l)[i].id < Lane(m)[j].id

\* None has a number that the user has not come to.
NumbersAreUsed ==
  \A l \in Lanes : \A i \in 1..Len(Lane(l)) :
    IsRealtime(Lane(l)[i]) => Lane(l)[i].id <= handed

\* The realtime messages that are on their way.
UnderWay == {message \in Outgoing :
               IsRealtime(message) /\ \E l \in Lanes : message \in ToSet(Lane(l))}

\* A realtime message that was accepted leaves the client only over a socket,
\* unless the user disconnects or connects again.
AcceptedIsKept == [][calls' = calls => UnderWay \subseteq UnderWay']_vars

\* The session and its connection agree, whatever gets lost, throws or comes
\* late (the inductive invariant of the controller).
SyncInv ==
  /\ TypeOK /\ Client!LinkInv
  /\ SocketsInOrder /\ RepliesAreTrue /\ ReadyIsWhole
  /\ HandshakeIsAnswered /\ OpenGuestHasSession /\ NumbersAreUsed

\* The board of an owner loses no edit, own or remote, by a reconnection, although
\* it is then read back from storage that only some events write.  (Who was a
\* guest on another board meanwhile gets what was stored.)
OwnerKeepsBoard ==
  [][role = "owner" /\ role' = "owner" => shownBoard \subseteq shownBoard']_vars

\* After a connection is lost the session comes back, or the user is told.
\* (Checked with DropsOnlyWhenReady: see HandshakeOnEveryConnection.)
SessionReturns == [](phase = "reconnecting" => <>(phase \in {"ready", "error", "idle"}))

-----------------------------------------------------------------------------
(* What the documentation and the tests say, and the code does not do.      *)

\* Every connection of a session starts with its handshake.
HandshakeOnEveryConnection ==
  Connected /\ sessionIntent # "none"
    => \E i \in 1..Len(written[socket]) : IsHandshake(written[socket][i])
=============================================================================
