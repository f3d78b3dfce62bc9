------------------------- MODULE SyncControllerProofs -------------------------
(***************************************************************************)
(* Proofs about the sync controller, for any number of connections, calls, *)
(* edits and guests: its session is the one of its connection (SyncInv), a *)
(* guest edits on the owner's snapshot only, realtime messages keep their  *)
(* order and are not lost, and an owner's board survives its reconnections.*)
(***************************************************************************)
EXTENDS SyncController, SequenceTheorems, TLAPS

(***************************************************************************)
(* Messages.                                                               *)
(***************************************************************************)
Realtime == {m \in Outgoing : IsRealtime(m)}

LEMMA KindsOfMessages ==
  /\ Create \in Outgoing /\ ~IsRealtime(Create)
  /\ Join \in Outgoing /\ ~IsRealtime(Join)
  /\ Msg("board.snapshot.ack", 0) \in Outgoing /\ ~IsRealtime(Msg("board.snapshot.ack", 0))
  /\ \A g \in Guests : Msg("board.snapshot", g) \in Outgoing /\ ~IsRealtime(Msg("board.snapshot", g))
  /\ \A k \in OwnEdits : /\ Msg("board.action", k) \in Realtime
                         /\ Msg("presence.update", k) \in Realtime
  /\ \A m \in Realtime : m.id \in OwnEdits
<1> USE DEF Msg
<1>1. /\ Create \in Outgoing /\ ~IsRealtime(Create)
      /\ Join \in Outgoing /\ ~IsRealtime(Join)
  BY DEF Create, Join, Outgoing, IsRealtime
<1>2. Msg("board.snapshot.ack", 0) \in Outgoing /\ ~IsRealtime(Msg("board.snapshot.ack", 0))
  BY DEF Outgoing, IsRealtime
<1>3. ASSUME NEW g \in Guests
      PROVE  Msg("board.snapshot", g) \in Outgoing /\ ~IsRealtime(Msg("board.snapshot", g))
  BY DEF Outgoing, IsRealtime
<1>4. ASSUME NEW k \in OwnEdits, NEW type \in {"board.action", "presence.update"}
      PROVE  Msg(type, k) \in Realtime
  <2>1. Msg(type, k) \in Outgoing
    BY DEF Outgoing
  <2> QED
    BY <2>1 DEF Realtime, IsRealtime
<1>5. ASSUME NEW m \in Realtime PROVE m.id \in OwnEdits
  <2>1. m \in Outgoing /\ m.type \in {"board.action", "presence.update"}
    BY DEF Realtime, IsRealtime
  <2>2. m \notin {Create, Join} \cup {Msg("board.snapshot.ack", 0)}
    BY <2>1 DEF Create, Join
  <2>3. m \notin {Msg("board.snapshot", g) : g \in Guests}
    BY <2>1
  <2>4. PICK type \in {"board.action", "presence.update"}, k \in OwnEdits : m = Msg(type, k)
    BY <2>1, <2>2, <2>3 DEF Outgoing
  <2> QED
    BY <2>4
<1> QED
  BY <1>1, <1>2, <1>3, <1>4, <1>5

LEMMA KindsOfReplies ==
  /\ \A type \in {"session.created", "session.joined", "session.join_rejected",
                   "board.snapshot", "error", "snapshot_timeout"} : Msg(type, 0) \in Incoming
  /\ \A g \in Guests : /\ Msg("board.snapshot.request", g) \in Incoming
                        /\ Msg("board.snapshot.ack", g) \in Incoming
  /\ Msg("board.action", RemoteEdit) \in Incoming
<1> USE DEF Msg
<1>1. \A type \in {"session.created", "session.joined", "session.join_rejected",
                  "board.snapshot", "error", "snapshot_timeout"} : Msg(type, 0) \in Incoming
  BY DEF Incoming
<1>2. ASSUME NEW g \in Guests, NEW type \in {"board.snapshot.request", "board.snapshot.ack"}
      PROVE Msg(type, g) \in Incoming
  BY DEF Incoming
<1>3. Msg("board.action", RemoteEdit) \in Incoming
  BY DEF Incoming
<1> QED
  BY <1>1, <1>2, <1>3

LEMMA RequestsNameGuests ==
  ASSUME NEW m \in Incoming, m.type = "board.snapshot.request"
  PROVE  m.id \in Guests
<1> USE DEF Msg
<1>1. m # Msg("board.action", RemoteEdit)
  OBVIOUS
<1>2. m \notin {Msg(type, 0) : type \in {"session.created", "session.joined", "session.join_rejected",
                                         "board.snapshot", "error", "snapshot_timeout"}}
  OBVIOUS
<1>3. PICK type \in {"board.snapshot.request", "board.snapshot.ack"}, g \in Guests : m = Msg(type, g)
  BY <1>1, <1>2 DEF Incoming
<1> QED
  BY <1>3

LEMMA RemoteEditsAreOne ==
  ASSUME NEW m \in Incoming, m.type = "board.action"
  PROVE  m.id = RemoteEdit
<1> USE DEF Msg
<1>1. m \notin {Msg(type, g) : type \in {"board.snapshot.request", "board.snapshot.ack"}, g \in Guests}
  OBVIOUS
<1>2. m \notin {Msg(type, 0) : type \in {"session.created", "session.joined", "session.join_rejected",
                                         "board.snapshot", "error", "snapshot_timeout"}}
  OBVIOUS
<1>3. m = Msg("board.action", RemoteEdit)
  BY <1>1, <1>2 DEF Incoming
<1> QED
  BY <1>3

\* What a controller reads is the first of what the relay has sent.
LEMMA ReadsTheFirst ==
  ASSUME replies \in Seq(Incoming), NEW type, Received(type)
  PROVE  /\ Len(replies) \in Nat /\ 1 \in 1..Len(replies)
         /\ Head(replies) = replies[1] /\ replies[1].type = type
         /\ Head(replies) \in Incoming /\ replies' \in Seq(Incoming)
         /\ Len(replies') = Len(replies) - 1
         /\ \A i \in 1..Len(replies') : i + 1 \in 1..Len(replies) /\ replies'[i] = replies[i + 1]
<1>1. replies # <<>> /\ Head(replies).type = type /\ replies' = Tail(replies)
  BY DEF Received
<1>2. Len(replies) \in Nat /\ Len(replies) > 0
  BY <1>1, EmptySeq, LenProperties
<1>3. /\ replies' \in Seq(Incoming) /\ Len(replies') = Len(replies) - 1
      /\ \A i \in 1..Len(replies') : replies'[i] = replies[i + 1]
  BY <1>1, <1>2, HeadTailProperties
<1>4. Head(replies) = replies[1] /\ replies[1] \in Incoming
  BY <1>2, HeadTailProperties, ElementOfSeq
<1> QED
  BY <1>1, <1>2, <1>3, <1>4

LEMMA NextNumber ==
  ASSUME handed \in 0..MaxRealtime, handed < MaxRealtime
  PROVE  handed + 1 \in OwnEdits /\ handed + 1 \in 0..MaxRealtime
BY ControllerAssumption DEF OwnEdits

LEMMA RealtimeIsOutgoing == Seq(Realtime) \subseteq Seq(Outgoing)
BY SeqMonotonic DEF Realtime

(***************************************************************************)
(* The socket client.  ClientProofs are the theorems about it, for the     *)
(* client of the controller.                                               *)
(***************************************************************************)
ClientProofs == INSTANCE SocketClientProofs
  WITH Urls <- {RelayUrl}, Messages <- Outgoing, Batches <- Seq(Outgoing)

\* What moves the client: its operations, and a callback that throws.
ClientOperation ==
  \/ UNCHANGED clientVars
  \/ \E messages \in Seq(Outgoing) :
       Client!Send(messages) \/ Client!Connect(RelayUrl, messages)
  \/ Client!Disconnect \/ Client!TimerFires
  \/ \E s \in Connections :
       \/ Client!SocketOpens(s) \/ Client!SocketCloseBegins(s) \/ Client!StaleCloses(s)
       \/ \E messages \in Seq(Outgoing) : Client!CurrentCloses(s, messages)
ClientThrows == \E s \in Connections : Client!CallbackThrows(s)
ClientMove == ClientOperation \/ ClientThrows

(* The two instances are one. *)
LEMMA SameLinkInv == Client!LinkInv <=> ClientProofs!LinkInv
BY DEF Client!LinkInv, ClientProofs!LinkInv, Client!TypeOK, ClientProofs!TypeOK,
       Client!CurrentIsWanted, ClientProofs!CurrentIsWanted,
       Client!OneLiveSocket, ClientProofs!OneLiveSocket,
       Client!TimerIsNeeded, ClientProofs!TimerIsNeeded,
       Client!NothingWaitsWhileOpen, ClientProofs!NothingWaitsWhileOpen,
       Client!StatusIsTrue, ClientProofs!StatusIsTrue,
       Client!Accepts, ClientProofs!Accepts, Client!IsOpen, ClientProofs!IsOpen,
       Client!Sockets, ClientProofs!Sockets, Client!NoSocket, ClientProofs!NoSocket,
       Client!Statuses, ClientProofs!Statuses, Client!ReadyStates, ClientProofs!ReadyStates

LEMMA SameLinkInvNext == Client!LinkInv' <=> ClientProofs!LinkInv'
BY DEF Client!LinkInv, ClientProofs!LinkInv, Client!TypeOK, ClientProofs!TypeOK,
       Client!CurrentIsWanted, ClientProofs!CurrentIsWanted,
       Client!OneLiveSocket, ClientProofs!OneLiveSocket,
       Client!TimerIsNeeded, ClientProofs!TimerIsNeeded,
       Client!NothingWaitsWhileOpen, ClientProofs!NothingWaitsWhileOpen,
       Client!StatusIsTrue, ClientProofs!StatusIsTrue,
       Client!Accepts, ClientProofs!Accepts, Client!IsOpen, ClientProofs!IsOpen,
       Client!Sockets, ClientProofs!Sockets, Client!NoSocket, ClientProofs!NoSocket,
       Client!Statuses, ClientProofs!Statuses, Client!ReadyStates, ClientProofs!ReadyStates

LEMMA ClientAssumption == ClientProofs!SocketAssumption
BY ControllerAssumption DEF ClientProofs!SocketAssumption

LEMMA SameKeepsTrying ==
  /\ Client!KeepsTrying <=> ClientProofs!KeepsTrying
  /\ Client!KeepsTrying' <=> ClientProofs!KeepsTrying'
BY DEF Client!KeepsTrying, ClientProofs!KeepsTrying, Client!Accepts, ClientProofs!Accepts,
       Client!NoSocket, ClientProofs!NoSocket

\* The link stays sound, and a client that goes on trying does.
KeepsClient ==
  ClientProofs!LinkInv' /\ (ClientProofs!KeepsTrying => ClientProofs!KeepsTrying')

(* Each operation of the client keeps its link sound, whatever the controller
   does, and unless a callback throws the client goes on trying. *)
LEMMA OperationKeepsClient ==
  Client!LinkInv /\ ClientOperation
    => Client!LinkInv' /\ (Client!KeepsTrying => Client!KeepsTrying')
<1> SUFFICES ASSUME ClientProofs!LinkInv, ClientOperation PROVE KeepsClient
  BY SameLinkInv, SameLinkInvNext, SameKeepsTrying DEF KeepsClient
<1> USE DEF Client!NoSocket, ClientProofs!NoSocket, Client!Sockets, ClientProofs!Sockets, Connections
<1>1. CASE UNCHANGED clientVars
  BY <1>1 DEF KeepsClient, ClientProofs!KeepsTrying, clientVars, ClientProofs!LinkInv, ClientProofs!TypeOK, ClientProofs!CurrentIsWanted,
       ClientProofs!OneLiveSocket, ClientProofs!TimerIsNeeded, ClientProofs!Accepts,
       ClientProofs!NothingWaitsWhileOpen, ClientProofs!StatusIsTrue, ClientProofs!IsOpen
<1>2. ASSUME NEW messages \in Seq(Outgoing), Client!Send(messages) PROVE KeepsClient
  <2>1. ClientProofs!Send(messages)
    BY <1>2 DEF Client!Send, ClientProofs!Send, Client!Accepts, ClientProofs!Accepts,
         Client!IsOpen, ClientProofs!IsOpen
  <2> QED
    BY <2>1, ClientAssumption, ClientProofs!SendKeepsInv DEF KeepsClient
<1>3. ASSUME NEW messages \in Seq(Outgoing), Client!OpenAnew(RelayUrl, messages)
      PROVE KeepsClient
  <2>1. ClientProofs!OpenAnew(RelayUrl, messages)
    BY <1>3 DEF Client!OpenAnew, ClientProofs!OpenAnew, Client!AlreadyConnecting,
         ClientProofs!AlreadyConnecting, Client!StopTimer, ClientProofs!StopTimer,
         Client!IsNew, ClientProofs!IsNew, Client!Abandoned, ClientProofs!Abandoned
  <2> QED
    BY <2>1, ClientAssumption, ClientProofs!OpenAnewKeepsInv DEF KeepsClient
<1>4. CASE Client!Disconnect
  <2>1. ClientProofs!Disconnect
    BY <1>4 DEF Client!Disconnect, ClientProofs!Disconnect, Client!StopTimer, ClientProofs!StopTimer,
         Client!LetGo, ClientProofs!LetGo, Client!Abandoned, ClientProofs!Abandoned
  <2> QED
    BY <2>1, ClientAssumption, ClientProofs!DisconnectKeepsInv DEF KeepsClient
<1>5. CASE Client!TimerFires
  <2>1. ClientProofs!TimerFires
    BY <1>5 DEF Client!TimerFires, ClientProofs!TimerFires, Client!Accepts, ClientProofs!Accepts,
         Client!IsNew, ClientProofs!IsNew
  <2> QED
    BY <2>1, ClientAssumption, ClientProofs!TimerKeepsInv DEF KeepsClient
<1>6. ASSUME NEW s \in Connections, NEW messages \in Seq(Outgoing),
             \/ Client!SocketOpens(s) \/ Client!SocketCloseBegins(s)
             \/ Client!StaleCloses(s) \/ Client!CurrentCloses(s, messages)
      PROVE KeepsClient
  <2>1. \/ ClientProofs!SocketOpens(s) \/ ClientProofs!SocketCloseBegins(s)
        \/ ClientProofs!StaleCloses(s) \/ ClientProofs!CurrentCloses(s, messages)
    BY <1>6 DEF Client!SocketOpens, ClientProofs!SocketOpens, Client!SocketCloseBegins,
         ClientProofs!SocketCloseBegins, Client!StaleCloses, ClientProofs!StaleCloses,
         Client!CurrentCloses, ClientProofs!CurrentCloses, Client!MayClose,
         ClientProofs!MayClose, Client!FailuresLeft, ClientProofs!FailuresLeft,
         Client!Accepts, ClientProofs!Accepts, Client!StopTimer, ClientProofs!StopTimer,
         Client!FlushQueuedMessages, ClientProofs!FlushQueuedMessages,
         Client!ScheduleReconnect, ClientProofs!ScheduleReconnect
  <2> QED
    BY <2>1, ClientAssumption, ClientProofs!EventKeepsInv DEF KeepsClient
<1>7. ASSUME NEW messages \in Seq(Outgoing), Client!Connect(RelayUrl, messages)
      PROVE KeepsClient
  BY <1>2, <1>3, <1>7 DEF Client!Connect
<1>8. ASSUME NEW s \in Connections,
             Client!SocketOpens(s) \/ Client!SocketCloseBegins(s) \/ Client!StaleCloses(s)
      PROVE KeepsClient
  BY <1>6, <1>8, EmptySeq
<1> QED
  BY <1>1, <1>2, <1>4, <1>5, <1>6, <1>7, <1>8 DEF ClientOperation

LEMMA ClientKeepsLink == Client!LinkInv /\ ClientMove => Client!LinkInv'
<1>1. ASSUME Client!LinkInv, NEW s \in Connections, Client!CallbackThrows(s)
      PROVE  ClientProofs!LinkInv'
  <2>1. ClientProofs!CallbackThrows(s)
    BY <1>1 DEF Client!CallbackThrows, ClientProofs!CallbackThrows, Client!MayClose,
         ClientProofs!MayClose, Client!FailuresLeft, ClientProofs!FailuresLeft,
         Client!Accepts, ClientProofs!Accepts, Client!NoSocket, ClientProofs!NoSocket,
         Client!Sockets, ClientProofs!Sockets
  <2> QED
    BY <1>1, <2>1, SameLinkInv, ClientAssumption, ClientProofs!ThrowKeepsLink
       DEF ClientProofs!Sockets, Connections
<1> QED
  BY <1>1, OperationKeepsClient, SameLinkInvNext DEF ClientMove, ClientThrows

(* Every step of the controller, its user, the network and the relay moves the
   client by one of its operations. *)
LEMMA HandOverMovesClient ==
  ASSUME TypeOK, NEW type \in {"board.action", "presence.update"},
         HandOver(Msg(type, handed + 1))
  PROVE  ClientOperation
<1>1. handed + 1 \in OwnEdits
  BY NextNumber DEF TypeOK, HandOver
<1>2. Msg(type, handed + 1) \in Outgoing
  BY <1>1, KindsOfMessages DEF Realtime
<1>3. <<Msg(type, handed + 1)>> \in Seq(Outgoing)
  BY <1>2
<1> QED
  BY <1>3 DEF HandOver, ClientOperation

LEMMA PendingAreOutgoing == TypeOK => pendingRealtimeMessages \in Seq(Outgoing)
BY RealtimeIsOutgoing DEF TypeOK, Realtime

LEMMA ControllerOperatesClient == TypeOK /\ Next => ClientOperation \/ (StorageThrows /\ ClientThrows)
<1> SUFFICES ASSUME TypeOK, Next PROVE ClientOperation \/ (StorageThrows /\ ClientThrows)
  OBVIOUS
<1>1. <<>> \in Seq(Outgoing) /\ <<Create>> \in Seq(Outgoing) /\ <<Join>> \in Seq(Outgoing)
  BY KindsOfMessages
<1>2. ASSUME NEW intent \in {"owner", "guest"}, Dial(intent) PROVE ClientOperation
  BY <1>1, <1>2 DEF Dial, ClientOperation
<1>3. CASE ConnectOwnerSession \/ ConnectGuestSession
  BY <1>2, <1>3 DEF ConnectOwnerSession, ConnectGuestSession
<1>4. CASE Disconnect
  BY <1>4 DEF Disconnect, ClientOperation
<1>5. CASE SendBoardAction \/ SendPresenceUpdate
  BY <1>5, HandOverMovesClient DEF SendBoardAction, SendPresenceUpdate
<1>6. CASE SocketOpens \/ TimerFires \/ SocketCloseBegins \/ StaleCloses
  BY <1>6 DEF SocketOpens, TimerFires, SocketCloseBegins, StaleCloses, ClientOperation
<1>13. CASE StorageThrows
  BY <1>13 DEF StorageThrows, ClientThrows
<1>7. CASE SocketCloses
  BY <1>1, <1>7 DEF SocketCloses, ClientOperation
<1>8. CASE ReceiveSessionCreated
  <2>1. <<>> \o pendingRealtimeMessages \in Seq(Outgoing)
    BY <1>1, PendingAreOutgoing, ConcatProperties
  <2> QED
    BY <1>8, <2>1 DEF ReceiveSessionCreated, RestoreThrows, SendAndFlush, ClientOperation
<1>9. CASE ReceiveSnapshot
  <2>1. <<Msg("board.snapshot.ack", 0)>> \in Seq(Outgoing)
    BY KindsOfMessages
  <2>2. <<Msg("board.snapshot.ack", 0)>> \o pendingRealtimeMessages \in Seq(Outgoing)
    BY <2>1, PendingAreOutgoing, ConcatProperties
  <2> QED
    BY <1>9, <2>2 DEF ReceiveSnapshot, SendAndFlush, ClientOperation
<1>10. CASE ReceiveSnapshotRequest
  <2>1. Received("board.snapshot.request") /\ replies \in Seq(Incoming)
    BY <1>10 DEF ReceiveSnapshotRequest, TypeOK
  <2>2. Head(replies) \in Incoming /\ Head(replies).type = "board.snapshot.request"
    BY <2>1, ReadsTheFirst
  <2>3. Head(replies).id \in Guests
    BY <2>2, RequestsNameGuests
  <2>4. <<Msg("board.snapshot", Head(replies).id)>> \in Seq(Outgoing)
    BY <2>3, KindsOfMessages
  <2> QED
    BY <1>10, <2>4 DEF ReceiveSnapshotRequest, ClientOperation
<1>11. CASE \/ ReceiveSessionJoined \/ ReceiveJoinRejected \/ ReceiveSnapshotAck
           \/ ReceiveBoardAction \/ ReceiveError
  BY <1>11 DEF ReceiveSessionJoined, ReceiveJoinRejected, ReceiveSnapshotAck,
       ReceiveBoardAction, ReceiveError, ClientOperation
<1>12. CASE RelayAttaches \/ RelayServes \/ RelayResolvesJoin \/ RelayPushes
  BY <1>12 DEF RelayAttaches, RelayServes, RelayResolvesJoin, RelayPushes, RelayReads,
       RelayStep, ClientOperation
<1> QED
  BY <1>3, <1>4, <1>5, <1>6, <1>7, <1>8, <1>9, <1>10, <1>11, <1>12, <1>13 DEF Next, ReceiveSteps

LEMMA ControllerMovesClient == TypeOK /\ Next => ClientMove
BY ControllerOperatesClient DEF ClientMove

(***************************************************************************)
(* Types, in four parts: the session, the messages held back, the board    *)
(* and what the relay knows.                                               *)
(***************************************************************************)
SessionOK ==
  /\ phase \in Phases
  /\ editingLocked \in BOOLEAN
  /\ sessionIntent \in {"none", "owner", "guest"}
  /\ role \in {"none", "owner", "guest"}
  /\ session \in Connections \cup {NoSession}
  /\ pendingSnapshotTargetIds \subseteq Guests
  /\ ownerBoardIdBeforeReconnect \in Connections \cup {NoSession}
  /\ queuedReconnectHandshake \in BOOLEAN

HeldBackOK ==
  /\ pendingRealtimeMessages \in Seq(Realtime)
  /\ calls \in 0..MaxCalls /\ handed \in 0..MaxRealtime /\ pushes \in 0..MaxPushes

BoardOK ==
  /\ shownBoard \subseteq Edits
  /\ DOMAIN stored \subseteq Connections
  /\ \A id \in DOMAIN stored : stored[id] \subseteq Edits

RelayOK ==
  /\ attached \in {"none", "owner", "waiting", "guest"}
  /\ served \in Nat
  /\ replies \in Seq(Incoming)

LEMMA TypeInParts ==
  TypeOK <=> Client!TypeOK /\ SessionOK /\ HeldBackOK /\ BoardOK /\ RelayOK
BY DEF TypeOK, SessionOK, HeldBackOK, BoardOK, RelayOK, Realtime

LEMMA SocketsAreConnections ==
  Client!TypeOK => /\ socket \in Connections \cup {0}
                   /\ readyState \in [Connections -> Client!ReadyStates]
                   /\ written \in [Connections -> Seq(Outgoing)]
                   /\ queuedMessages \in Seq(Outgoing)
BY DEF Client!TypeOK, Client!Sockets, Client!NoSocket, Connections

LEMMA SessionOKNext == TypeOK /\ [Next]_vars => SessionOK'
<1> SUFFICES ASSUME TypeOK, [Next]_vars PROVE SessionOK'
  OBVIOUS
<1>1. SessionOK /\ socket \in Connections \cup {0} /\ replies \in Seq(Incoming)
  BY TypeInParts, SocketsAreConnections DEF RelayOK
<1> USE ControllerAssumption DEF SessionOK, Phases, NoSession
<1>2. CASE UNCHANGED vars
  BY <1>1, <1>2 DEF vars, sessionVars
<1>3. CASE ConnectOwnerSession \/ ConnectGuestSession \/ Disconnect
  BY <1>1, <1>3 DEF ConnectOwnerSession, ConnectGuestSession, Dial, Disconnect
<1>4. CASE SendBoardAction \/ SendPresenceUpdate
  BY <1>1, <1>4 DEF SendBoardAction, SendPresenceUpdate, HandOver
<1>5. CASE SocketOpens
  BY <1>1, <1>5 DEF SocketOpens, PhaseWhenConnected
<1>6. CASE SocketCloses
  <2>1. CASE UNCHANGED sessionVars
    BY <1>1, <2>1 DEF sessionVars
  <2>2. CASE phase' = "reconnecting" /\ UNCHANGED <<editingLocked, ownerBoardIdBeforeReconnect,
                                                    queuedReconnectHandshake>>
    BY <1>1, <1>6, <2>2 DEF SocketCloses
  <2>3. CASE phase' = "reconnecting" /\ HandleReconnectStart
    BY <1>1, <1>6, <2>3 DEF SocketCloses, HandleReconnectStart, KeepOwnerBoard, LockGuest
  <2> QED
    BY <1>6, <2>1, <2>2, <2>3 DEF SocketCloses
<1>7. CASE StorageThrows \/ TimerFires \/ SocketCloseBegins \/ StaleCloses
  BY <1>1, <1>7 DEF StorageThrows, TimerFires, SocketCloseBegins, StaleCloses, sessionVars
<1>8. CASE ReceiveSessionCreated
  BY <1>1, <1>8 DEF ReceiveSessionCreated, Received, Client!NoSocket, HandshakeAnswered,
     RestoreThrows, SendAndFlush, sessionVars
<1>9. CASE ReceiveSessionJoined
  BY <1>1, <1>9 DEF ReceiveSessionJoined, Received, Client!NoSocket, HandshakeAnswered
<1>10. CASE ReceiveSnapshotRequest
  <2>1. Received("board.snapshot.request")
    BY <1>10 DEF ReceiveSnapshotRequest
  <2>2. Head(replies) \in Incoming /\ Head(replies).type = "board.snapshot.request"
    BY <1>1, <2>1, ReadsTheFirst
  <2>3. Head(replies).id \in Guests
    BY <2>2, RequestsNameGuests
  <2> QED
    BY <1>1, <1>10, <2>3 DEF ReceiveSnapshotRequest
<1>11. CASE ReceiveSnapshot
  BY <1>1, <1>11 DEF ReceiveSnapshot
<1>12. CASE ReceiveJoinRejected \/ ReceiveSnapshotAck \/ ReceiveBoardAction \/ ReceiveError
  BY <1>1, <1>12 DEF ReceiveJoinRejected, ReceiveSnapshotAck, ReceiveBoardAction, ReceiveError,
     sessionVars
<1>13. CASE RelayAttaches \/ RelayServes \/ RelayResolvesJoin \/ RelayPushes
  BY <1>1, <1>13 DEF RelayAttaches, RelayServes, RelayResolvesJoin, RelayPushes, RelayReads,
     RelayStep, sessionVars
<1> QED
  BY <1>2, <1>3, <1>4, <1>5, <1>6, <1>7, <1>8, <1>9, <1>10, <1>11, <1>12, <1>13
     DEF Next, ReceiveSteps

LEMMA HeldBackOKNext == TypeOK /\ [Next]_vars => HeldBackOK'
<1> SUFFICES ASSUME TypeOK, [Next]_vars PROVE HeldBackOK'
  OBVIOUS
<1>1. HeldBackOK
  BY TypeInParts
<1> USE ControllerAssumption DEF HeldBackOK
<1>2. CASE UNCHANGED <<pendingRealtimeMessages, countVars>>
  BY <1>1, <1>2 DEF countVars
<1>3. CASE ConnectOwnerSession \/ ConnectGuestSession \/ Disconnect
  <2>1. calls < MaxCalls /\ calls' = calls + 1 /\ UNCHANGED <<handed, pushes>>
    BY <1>3 DEF ConnectOwnerSession, ConnectGuestSession, Dial, Disconnect
  <2>2. UNCHANGED pendingRealtimeMessages \/ pendingRealtimeMessages' = <<>>
    BY <1>3 DEF ConnectOwnerSession, ConnectGuestSession, Dial, Disconnect
  <2> QED
    <3>1. pendingRealtimeMessages' \in Seq(Realtime)
      BY <1>1, <2>2, EmptySeq
    <3>2. calls' \in 0..MaxCalls /\ handed' \in 0..MaxRealtime /\ pushes' \in 0..MaxPushes
      BY <1>1, <2>1
    <3> QED
      BY <3>1, <3>2
<1>4. ASSUME NEW type \in {"board.action", "presence.update"}, HandOver(Msg(type, handed + 1))
      PROVE  HeldBackOK'
  <2>1. Msg(type, handed + 1) \in Realtime /\ handed + 1 \in 0..MaxRealtime
    BY <1>1, <1>4, NextNumber, KindsOfMessages DEF HandOver
  <2>2. Append(pendingRealtimeMessages, Msg(type, handed + 1)) \in Seq(Realtime)
    BY <1>1, <2>1, AppendProperties
  <2> QED
    BY <1>1, <1>4, <2>1, <2>2 DEF HandOver
<1>5. CASE SendBoardAction \/ SendPresenceUpdate
  BY <1>4, <1>5 DEF SendBoardAction, SendPresenceUpdate
<1>6. CASE \/ UNCHANGED vars \/ SocketOpens \/ SocketCloses \/ StorageThrows \/ TimerFires
           \/ SocketCloseBegins \/ StaleCloses
  BY <1>2, <1>6 DEF vars, sessionVars, SocketOpens, SocketCloses, StorageThrows, TimerFires,
     SocketCloseBegins, StaleCloses
<1>7. CASE \/ ReceiveSessionJoined \/ ReceiveSnapshotRequest \/ ReceiveJoinRejected
           \/ ReceiveSnapshotAck \/ ReceiveBoardAction \/ ReceiveError
  BY <1>2, <1>7 DEF ReceiveSessionJoined, ReceiveSnapshotRequest, ReceiveJoinRejected,
     ReceiveSnapshotAck, ReceiveBoardAction, ReceiveError, Received, sessionVars
<1>8. CASE ReceiveSessionCreated \/ ReceiveSnapshot
  <2>1. UNCHANGED countVars /\ (UNCHANGED pendingRealtimeMessages \/ pendingRealtimeMessages' = <<>>)
    BY <1>8 DEF ReceiveSessionCreated, ReceiveSnapshot, Received, SendAndFlush, RestoreThrows,
       sessionVars
  <2> QED
    BY <1>1, <2>1, EmptySeq DEF countVars
<1>9. CASE RelayAttaches \/ RelayServes \/ RelayResolvesJoin \/ RelayPushes
  <2>1. UNCHANGED <<pendingRealtimeMessages, calls, handed>>
    BY <1>9 DEF RelayAttaches, RelayServes, RelayResolvesJoin, RelayPushes, RelayReads,
       RelayStep, sessionVars
  <2>2. pushes' \in 0..MaxPushes
    BY <1>1, <1>9 DEF RelayAttaches, RelayServes, RelayResolvesJoin, RelayPushes, RelayReads
  <2> QED
    BY <1>1, <2>1, <2>2
<1> QED
  BY <1>3, <1>5, <1>6, <1>7, <1>8, <1>9 DEF Next, ReceiveSteps

\* Keeping and giving back a board.
LEMMA StoredBoards ==
  ASSUME BoardOK, session \in Connections \cup {NoSession}, NEW b \in SUBSET Edits
  PROVE  /\ DOMAIN Persisted(b) \subseteq Connections
         /\ \A id \in DOMAIN Persisted(b) : Persisted(b)[id] \subseteq Edits
<1>1. CASE ~OwnsBoard
  BY <1>1 DEF Persisted, BoardOK
<1>2. CASE OwnsBoard
  BY <1>2 DEF OwnsBoard, Persisted, BoardOK, Stored
<1> QED
  BY <1>1, <1>2

LEMMA BoardOKNext == TypeOK /\ [Next]_vars => BoardOK'
<1> SUFFICES ASSUME TypeOK, [Next]_vars PROVE BoardOK'
  OBVIOUS
<1>1. /\ BoardOK /\ SessionOK /\ HeldBackOK
      /\ socket \in Connections \cup {0} /\ replies \in Seq(Incoming)
  BY TypeInParts, SocketsAreConnections DEF RelayOK
<1>2. CASE UNCHANGED boardVars
  BY <1>1, <1>2 DEF BoardOK, boardVars
<1>3. CASE SendBoardAction
  <2>1. handed + 1 \in OwnEdits
    BY <1>1, <1>3, NextNumber DEF SendBoardAction, HandOver, HeldBackOK
  <2>2. shownBoard' = shownBoard \cup {handed + 1} /\ shownBoard' \in SUBSET Edits
    BY <1>1, <1>3, <2>1 DEF SendBoardAction, BoardOK, Edits
  <2>3. stored' = Persisted(shownBoard') \/ UNCHANGED stored
    BY <1>3 DEF SendBoardAction
  <2> QED
    BY <1>1, <2>2, <2>3, StoredBoards DEF BoardOK, SessionOK
<1>4. CASE SocketCloses
  <2>1. UNCHANGED boardVars \/ (UNCHANGED shownBoard /\ stored' = Persisted(shownBoard))
    BY <1>4 DEF SocketCloses, HandleReconnectStart, KeepOwnerBoard, boardVars
  <2> QED
    BY <1>1, <1>2, <2>1, StoredBoards DEF BoardOK, SessionOK
<1>5. CASE ReceiveSessionCreated
  <2>1. /\ socket \in Connections
        /\ \/ UNCHANGED boardVars \/ RestoreOwnerBoard
           \/ /\ shownBoard' = Restored(ownerBoardIdBeforeReconnect)
              /\ UNCHANGED stored
    BY <1>1, <1>5 DEF ReceiveSessionCreated, Received, RestoreThrows, Client!NoSocket
  <2>2. Restored(ownerBoardIdBeforeReconnect) \subseteq Edits
    BY <1>1 DEF Restored, IsStored, BoardOK
  <2>3. CASE RestoreOwnerBoard
    <3>1. CASE ownerBoardIdBeforeReconnect \in {NoSession, socket}
      BY <1>2, <2>3, <3>1 DEF RestoreOwnerBoard
    <3>2. CASE ownerBoardIdBeforeReconnect \notin {NoSession, socket}
      BY <1>1, <2>1, <2>2, <2>3, <3>2 DEF RestoreOwnerBoard, BoardOK, Stored
    <3> QED
      BY <3>1, <3>2
  <2> QED
    BY <1>1, <1>2, <2>1, <2>2, <2>3 DEF BoardOK
<1>6. CASE ReceiveSnapshot
  BY <1>1, <1>6 DEF ReceiveSnapshot, BoardOK, Edits
<1>7. CASE ReceiveBoardAction
  <2>1. Received("board.action") /\ shownBoard' = shownBoard \cup {Head(replies).id} /\ UNCHANGED stored
    BY <1>7 DEF ReceiveBoardAction
  <2>2. Head(replies) \in Incoming /\ Head(replies).type = "board.action"
    BY <1>1, <2>1, ReadsTheFirst
  <2>3. Head(replies).id \in Edits
    BY <2>2, RemoteEditsAreOne DEF Edits
  <2> QED
    BY <1>1, <2>1, <2>3 DEF BoardOK
<1>8. CASE \/ UNCHANGED vars \/ ConnectOwnerSession \/ ConnectGuestSession \/ Disconnect
           \/ SendPresenceUpdate \/ SocketOpens \/ StorageThrows \/ TimerFires
           \/ SocketCloseBegins \/ StaleCloses
  BY <1>2, <1>8 DEF vars, ConnectOwnerSession, ConnectGuestSession, Dial, Disconnect,
     SendPresenceUpdate, SocketOpens, StorageThrows, TimerFires, SocketCloseBegins, StaleCloses
<1>9. CASE \/ ReceiveSessionJoined \/ ReceiveSnapshotRequest \/ ReceiveJoinRejected
           \/ ReceiveSnapshotAck \/ ReceiveError
           \/ RelayAttaches \/ RelayServes \/ RelayResolvesJoin \/ RelayPushes
  BY <1>2, <1>9 DEF ReceiveSessionJoined, ReceiveSnapshotRequest, ReceiveJoinRejected,
     ReceiveSnapshotAck, ReceiveError, RelayAttaches, RelayServes, RelayResolvesJoin,
     RelayPushes, RelayReads, RelayStep
<1> QED
  BY <1>3, <1>4, <1>5, <1>6, <1>7, <1>8, <1>9 DEF Next, ReceiveSteps

\* What the relay sends: it adds one message that the controller can read.
LEMMA RelaySends ==
  ASSUME TypeOK, NEW m \in Incoming, Reply(m)
  PROVE  /\ replies' \in Seq(Incoming) /\ Len(replies) \in Nat /\ Len(replies') = Len(replies) + 1
         /\ \A i \in 1..Len(replies') : \/ i \in 1..Len(replies) /\ replies'[i] = replies[i]
                                        \/ i = Len(replies) + 1 /\ replies'[i] = m
BY AppendProperties, LenProperties DEF TypeOK, Reply

LEMMA RelayOKNext == TypeOK /\ [Next]_vars => RelayOK'
<1> SUFFICES ASSUME TypeOK, [Next]_vars PROVE RelayOK'
  OBVIOUS
<1>1. RelayOK
  BY TypeInParts
<1>2. CASE UNCHANGED relayVars
  BY <1>1, <1>2 DEF RelayOK, relayVars
<1>3. CASE NewConnection
  BY <1>3, EmptySeq DEF NewConnection, RelayOK
<1>4. CASE \/ UNCHANGED vars \/ ConnectOwnerSession \/ ConnectGuestSession \/ Disconnect
           \/ SendBoardAction \/ SendPresenceUpdate \/ SocketOpens \/ SocketCloses
           \/ StorageThrows \/ TimerFires \/ SocketCloseBegins \/ StaleCloses
  BY <1>2, <1>3, <1>4 DEF vars, ConnectOwnerSession, ConnectGuestSession, Dial, Disconnect, HandOver,
     SendBoardAction, SendPresenceUpdate, SocketOpens, SocketCloses, StorageThrows, TimerFires,
     SocketCloseBegins, StaleCloses
<1>5. ASSUME NEW type, Received(type) PROVE RelayOK'
  BY <1>1, <1>5, ReadsTheFirst DEF Received, RelayOK
<1>6. CASE ReceiveSteps
  BY <1>5, <1>6 DEF ReceiveSteps, ReceiveSessionCreated, ReceiveSessionJoined, ReceiveJoinRejected,
     ReceiveSnapshotRequest, ReceiveSnapshot, ReceiveSnapshotAck, ReceiveBoardAction, ReceiveError
<1>7. CASE RelayAttaches \/ RelayServes \/ RelayResolvesJoin \/ RelayPushes
  <2>1. attached' \in {"none", "owner", "waiting", "guest"}
    BY <1>1, <1>7 DEF RelayAttaches, RelayServes, RelayResolvesJoin, RelayPushes, RelayOK
  <2>2. served' \in Nat
    BY <1>1, <1>7 DEF RelayAttaches, RelayServes, RelayResolvesJoin, RelayPushes, RelayReads, RelayOK
  <2>3. UNCHANGED replies \/ \E m \in Incoming : Reply(m)
    BY <1>7, KindsOfReplies DEF RelayAttaches, RelayServes, RelayResolvesJoin, RelayPushes
  <2> QED
    BY <1>1, <2>1, <2>2, <2>3, RelaySends DEF RelayOK
<1> QED
  BY <1>4, <1>6, <1>7 DEF Next

(***************************************************************************)
(* Connections.                                                            *)
(***************************************************************************)

\* The client's invariant, as the controller needs it.
LEMMA LinkFacts ==
  Client!LinkInv =>
    /\ socket \in Connections \cup {0}
    /\ readyState \in [Connections -> Client!ReadyStates]
    /\ written \in [Connections -> Seq(Outgoing)] /\ queuedMessages \in Seq(Outgoing)
    /\ socket # 0 => Client!Accepts /\ readyState[socket] \in {"connecting", "open", "closing"}
    /\ \A s \in Connections : readyState[s] \in {"connecting", "open"} => socket = s
    /\ socket # 0 /\ readyState[socket] = "open" => status = "connected" /\ queuedMessages = <<>>
    /\ status = "connected" => socket # 0 /\ readyState[socket] \in {"open", "closing"}
    /\ status \in {"idle", "stopped"} <=> ~Client!Accepts
    /\ reconnectTimer => Client!Accepts /\ socket = 0
BY DEF Client!LinkInv, Client!TypeOK, Client!CurrentIsWanted, Client!OneLiveSocket,
       Client!TimerIsNeeded, Client!NothingWaitsWhileOpen, Client!StatusIsTrue,
       Client!IsOpen, Client!NoSocket, Client!Sockets, Connections

\* Either the sockets are those that were, or there is a new one, the next.
NewSocket(n) ==
  /\ readyState[n] = "none" /\ \A t \in Connections : t < n => readyState[t] # "none"
  /\ socket' = n /\ readyState'[n] = "connecting"
  /\ \A t \in Connections \ {n} : readyState'[t] = "none" <=> readyState[t] = "none"

SameSockets ==
  /\ socket' \in {socket, 0}
  /\ \A t \in Connections : readyState'[t] = "none" <=> readyState[t] = "none"

LEMMA SocketsMove ==
  Client!LinkInv /\ ClientMove => SameSockets \/ \E n \in Connections : NewSocket(n)
<1> SUFFICES ASSUME Client!LinkInv, ClientMove
             PROVE  SameSockets \/ \E n \in Connections : NewSocket(n)
  OBVIOUS
<1> USE DEF Client!NoSocket, Client!Sockets, Connections
<1>1. /\ socket \in Connections \cup {0} /\ readyState \in [Connections -> Client!ReadyStates]
      /\ socket # 0 => readyState[socket] \in {"connecting", "open", "closing"}
  BY LinkFacts
<1>2. CASE UNCHANGED <<socket, readyState>>
  BY <1>1, <1>2 DEF SameSockets
<1>3. CASE \E messages \in Seq(Outgoing) : Client!OpenAnew(RelayUrl, messages)
  <2>1. PICK n \in Connections : /\ Client!IsNew(n) /\ socket' = n
                                 /\ readyState' = [Client!Abandoned EXCEPT ![n] = "connecting"]
    BY <1>3 DEF Client!OpenAnew
  <2>2. /\ Client!Abandoned \in [Connections -> Client!ReadyStates]
        /\ \A t \in Connections : Client!Abandoned[t] = "none" <=> readyState[t] = "none"
    BY <1>1 DEF Client!Abandoned, Client!ReadyStates
  <2>3. NewSocket(n)
    BY <1>1, <2>1, <2>2 DEF NewSocket, Client!IsNew
  <2> QED
    BY <2>3
<1>4. CASE Client!Disconnect
  BY <1>1, <1>4 DEF Client!Disconnect, Client!LetGo, Client!Abandoned, SameSockets
<1>5. CASE Client!TimerFires
  <2>1. PICK n \in Connections : /\ Client!IsNew(n) /\ socket' = n
                                 /\ readyState' = [readyState EXCEPT ![n] = "connecting"]
    BY <1>5 DEF Client!TimerFires
  <2>2. NewSocket(n)
    BY <1>1, <2>1 DEF NewSocket, Client!IsNew
  <2> QED
    BY <2>2
<1>6. ASSUME NEW s \in Connections, NEW messages \in Seq(Outgoing),
             \/ Client!SocketOpens(s) \/ Client!SocketCloseBegins(s) \/ Client!StaleCloses(s)
             \/ Client!CallbackThrows(s) \/ Client!CurrentCloses(s, messages)
      PROVE  SameSockets
  <2>1. socket' \in {socket, 0} /\ readyState[s] # "none"
    BY <1>6 DEF Client!SocketOpens, Client!SocketCloseBegins, Client!StaleCloses,
       Client!CallbackThrows, Client!CurrentCloses, Client!MayClose
  <2>2. \E x \in {"open", "closing", "closed"} : readyState' = [readyState EXCEPT ![s] = x]
    BY <1>6 DEF Client!SocketOpens, Client!SocketCloseBegins, Client!StaleCloses,
       Client!CallbackThrows, Client!CurrentCloses
  <2> QED
    BY <1>1, <2>1, <2>2 DEF SameSockets
<1>7. ASSUME NEW s \in Connections,
             \/ Client!SocketOpens(s) \/ Client!SocketCloseBegins(s) \/ Client!StaleCloses(s)
             \/ Client!CallbackThrows(s)
      PROVE  SameSockets
  BY <1>6, <1>7, EmptySeq
<1>8. ASSUME NEW messages \in Seq(Outgoing),
             Client!Send(messages) \/ Client!Connect(RelayUrl, messages)
      PROVE  SameSockets \/ \E n \in Connections : NewSocket(n)
  BY <1>2, <1>3, <1>8 DEF Client!Send, Client!Connect
<1>9. CASE UNCHANGED clientVars
  BY <1>2, <1>9 DEF clientVars
<1> QED
  BY <1>4, <1>5, <1>6, <1>7, <1>8, <1>9 DEF ClientMove, ClientOperation, ClientThrows

\* A socket that does not exist is given nothing.
LEMMA WrittenMoves ==
  Client!LinkInv /\ ClientMove =>
    \A t \in Connections : readyState[t] = "none" => written'[t] = written[t]
<1> SUFFICES ASSUME Client!LinkInv, ClientMove, NEW t \in Connections, readyState[t] = "none"
             PROVE  written'[t] = written[t]
  OBVIOUS
<1> USE DEF Client!NoSocket, Client!Sockets, Connections
<1>1. /\ socket \in Connections \cup {0} /\ written \in [Connections -> Seq(Outgoing)]
      /\ socket # 0 => readyState[socket] \in {"connecting", "open", "closing"}
  BY LinkFacts
<1>2. CASE UNCHANGED written
  BY <1>2
<1>3. ASSUME NEW messages \in Seq(Outgoing), Client!Send(messages) PROVE written'[t] = written[t]
  BY <1>1, <1>3 DEF Client!Send, Client!IsOpen
<1>4. ASSUME NEW s \in Connections, Client!SocketOpens(s) PROVE written'[t] = written[t]
  BY <1>1, <1>4 DEF Client!SocketOpens, Client!FlushQueuedMessages
<1> QED
  BY <1>2, <1>3, <1>4 DEF ClientMove, ClientOperation, ClientThrows, Client!Connect, Client!OpenAnew, Client!Disconnect,
     Client!TimerFires, Client!SocketCloseBegins, Client!StaleCloses, Client!CallbackThrows,
     Client!CurrentCloses, clientVars

\* A session is taken from the answer on the current connection.
LEMMA SessionMoves ==
  [Next]_vars => session' = session \/ (session' = socket /\ socket # 0)
<1> SUFFICES ASSUME [Next]_vars PROVE session' = session \/ (session' = socket /\ socket # 0)
  OBVIOUS
<1>1. CASE ReceiveSteps
  BY <1>1 DEF ReceiveSteps, ReceiveSessionCreated, ReceiveSessionJoined, ReceiveJoinRejected,
     ReceiveSnapshotRequest, ReceiveSnapshot, ReceiveSnapshotAck, ReceiveBoardAction, ReceiveError,
     Received, sessionVars, Client!NoSocket
<1>2. CASE \/ UNCHANGED vars \/ ConnectOwnerSession \/ ConnectGuestSession \/ Disconnect
           \/ SendBoardAction \/ SendPresenceUpdate \/ SocketOpens \/ SocketCloses
           \/ StorageThrows \/ TimerFires \/ SocketCloseBegins \/ StaleCloses
           \/ RelayAttaches \/ RelayServes \/ RelayResolvesJoin \/ RelayPushes
  BY <1>2 DEF vars, sessionVars, ConnectOwnerSession, ConnectGuestSession, Dial, Disconnect,
     SendBoardAction, SendPresenceUpdate, HandOver, SocketOpens, SocketCloses, StorageThrows,
     TimerFires, SocketCloseBegins, StaleCloses, RelayAttaches, RelayServes, RelayResolvesJoin,
     RelayPushes, RelayReads, RelayStep
<1> QED
  BY <1>1, <1>2 DEF Next

LEMMA SocketsInOrderNext ==
  TypeOK /\ Client!LinkInv /\ SocketsInOrder /\ [Next]_vars => SocketsInOrder'
<1> SUFFICES ASSUME TypeOK, Client!LinkInv, SocketsInOrder, [Next]_vars PROVE SocketsInOrder'
  OBVIOUS
<1>1. ClientMove
  BY ControllerMovesClient DEF vars, ClientMove, ClientOperation, ClientThrows
<1>2. /\ Connections \subseteq Int /\ 0 \notin Connections
      /\ socket \in Connections \cup {0}
      /\ socket # 0 => readyState[socket] \in {"connecting", "open", "closing"}
  BY LinkFacts, ControllerAssumption DEF Connections
<1>3. ASSUME NEW s \in Connections, readyState'[s] = "none" PROVE readyState[s] = "none"
  BY <1>1, <1>3, SocketsMove DEF SameSockets, NewSocket
<1>4. ASSUME NEW s \in Connections, NEW t \in Connections, s < t,
             readyState'[s] = "none" \/ s = socket'
      PROVE  readyState'[t] = "none"
  <2>1. CASE SameSockets
    BY <1>2, <1>4, <2>1 DEF SameSockets, SocketsInOrder
  <2>2. ASSUME NEW n \in Connections, NewSocket(n) PROVE readyState'[t] = "none"
    BY <1>2, <1>4, <2>2 DEF NewSocket, SocketsInOrder
  <2> QED
    BY <1>1, <2>1, <2>2, SocketsMove
<1>5. ASSUME NEW s \in Connections, readyState'[s] = "none"
      PROVE  written'[s] = <<>> /\ s # session'
  BY <1>1, <1>2, <1>3, <1>5, WrittenMoves, SessionMoves DEF SocketsInOrder
<1> QED
  BY <1>4, <1>5 DEF SocketsInOrder

(***************************************************************************)
(* What the relay has sent.                                                *)
(***************************************************************************)

LEMMA RepliesAreTrueNext ==
  TypeOK /\ Client!LinkInv /\ RepliesAreTrue /\ [Next]_vars => RepliesAreTrue'
<1> SUFFICES ASSUME TypeOK, Client!LinkInv, RepliesAreTrue, [Next]_vars PROVE RepliesAreTrue'
  OBVIOUS
<1> USE DEF Client!NoSocket, Linked
<1>1. /\ replies \in Seq(Incoming)
      /\ socket \in Connections \cup {0} /\ readyState \in [Connections -> Client!ReadyStates]
      /\ \A s \in Connections : readyState[s] \in {"connecting", "open"} => socket = s
      /\ reconnectTimer => socket = 0
  BY LinkFacts DEF TypeOK
<1>2. CASE NewConnection
  <2>1. Len(replies') = 0 /\ attached' = "none" /\ served' = 0 /\ replies' = <<>>
    BY <1>2 DEF NewConnection
  <2> QED
    BY <2>1 DEF RepliesAreTrue
<1>3. CASE UNCHANGED relayVars /\ (Linked => Linked')
  BY <1>3 DEF RepliesAreTrue, relayVars
<1>4. CASE SocketOpens
  <2>1. PICK s \in Connections : Client!SocketOpens(s) /\ UNCHANGED relayVars
    BY <1>4 DEF SocketOpens
  <2>2. socket' = socket /\ readyState' = [readyState EXCEPT ![s] = "open"]
    BY <2>1 DEF Client!SocketOpens
  <2> QED
    BY <1>1, <1>3, <2>1, <2>2
<1>5. CASE SocketCloseBegins \/ StaleCloses
  <2>1. /\ UNCHANGED relayVars /\ socket' = socket
        /\ \E s \in Connections : \/ readyState' = [readyState EXCEPT ![s] = "closing"]
                                  \/ socket # s /\ readyState' = [readyState EXCEPT ![s] = "closed"]
    BY <1>5 DEF SocketCloseBegins, StaleCloses, Client!SocketCloseBegins, Client!StaleCloses
  <2> QED
    BY <1>1, <1>3, <2>1
<1>6. CASE TimerFires
  <2>1. UNCHANGED relayVars /\ socket = 0
    BY <1>1, <1>6 DEF TimerFires, Client!TimerFires
  <2> QED
    BY <1>3, <2>1
<1>7. ASSUME NEW messages, Client!Send(messages), UNCHANGED relayVars PROVE RepliesAreTrue'
  BY <1>3, <1>7 DEF Client!Send
<1>8. CASE ConnectOwnerSession \/ ConnectGuestSession
  BY <1>2, <1>7, <1>8 DEF ConnectOwnerSession, ConnectGuestSession, Dial, Client!Connect, Client!OpenAnew
<1>9. CASE SendBoardAction \/ SendPresenceUpdate \/ UNCHANGED vars
  BY <1>3, <1>7, <1>9 DEF SendBoardAction, SendPresenceUpdate, HandOver, vars, clientVars
<1>10. CASE Disconnect \/ SocketCloses \/ StorageThrows
  BY <1>2, <1>10 DEF Disconnect, SocketCloses, StorageThrows
<1>11. CASE ReceiveSteps
  <2>1. PICK type : Received(type)
    BY <1>11 DEF ReceiveSteps, ReceiveSessionCreated, ReceiveSessionJoined, ReceiveJoinRejected,
       ReceiveSnapshotRequest, ReceiveSnapshot, ReceiveSnapshotAck, ReceiveBoardAction, ReceiveError
  <2>2. UNCHANGED <<socket, readyState>>
    BY <1>11 DEF ReceiveSteps, ReceiveSessionCreated, ReceiveSessionJoined, ReceiveJoinRejected,
       ReceiveSnapshotRequest, ReceiveSnapshot, ReceiveSnapshotAck, ReceiveBoardAction, ReceiveError,
       SendAndFlush, RestoreThrows, Client!Send, clientVars
  <2>3. Linked' /\ UNCHANGED attached
    BY <2>1, <2>2 DEF Received
  <2>4. \A i \in 1..Len(replies') : i + 1 \in 1..Len(replies) /\ replies'[i] = replies[i + 1]
    BY <1>1, <2>1, ReadsTheFirst
  <2> QED
    BY <2>3, <2>4 DEF RepliesAreTrue
<1>12. ASSUME NEW m \in Incoming, Reply(m), Linked',
              attached' = attached \/ attached \in {"none", "waiting"},
              m.type = "session.created" => attached' = "owner",
              m.type = "board.snapshot" => attached' = "guest"
       PROVE  RepliesAreTrue'
  BY <1>12, RelaySends DEF RepliesAreTrue
<1>13. CASE RelayAttaches \/ RelayServes \/ RelayResolvesJoin \/ RelayPushes
  <2>1. Linked /\ UNCHANGED <<socket, readyState>>
    BY <1>13 DEF RelayAttaches, RelayServes, RelayResolvesJoin, RelayPushes, RelayReads, RelayStep, clientVars
  <2>2. CASE RelayAttaches
    <3>1. \A type \in {"session.created", "session.joined", "session.join_rejected", "error"} :
             Msg(type, 0) \in Incoming /\ Msg(type, 0).type = type
      BY KindsOfReplies DEF Msg
    <3> QED
      BY <1>12, <2>1, <2>2, <3>1 DEF RelayAttaches
  <2>3. CASE RelayServes
    <3>1. Msg("error", 0) \in Incoming /\ Msg("error", 0).type = "error"
      BY KindsOfReplies DEF Msg
    <3>2. CASE UNCHANGED replies
      BY <2>1, <2>3, <3>2 DEF RelayServes, RepliesAreTrue
    <3> QED
      BY <1>12, <2>1, <2>3, <3>1, <3>2 DEF RelayServes
  <2>4. CASE RelayResolvesJoin
    <3>1. \A type \in {"board.snapshot", "snapshot_timeout"} :
             Msg(type, 0) \in Incoming /\ Msg(type, 0).type = type
      BY KindsOfReplies DEF Msg
    <3> QED
      BY <1>12, <2>1, <2>4, <3>1 DEF RelayResolvesJoin
  <2>5. CASE RelayPushes
    <3>1. \A g \in Guests : /\ Msg("board.snapshot.request", g) \in Incoming
                            /\ Msg("board.snapshot.request", g).type = "board.snapshot.request"
                            /\ Msg("board.snapshot.ack", g) \in Incoming
                            /\ Msg("board.snapshot.ack", g).type = "board.snapshot.ack"
      BY KindsOfReplies DEF Msg
    <3>2. Msg("board.action", RemoteEdit) \in Incoming /\ Msg("board.action", RemoteEdit).type = "board.action"
      BY KindsOfReplies DEF Msg
    <3> QED
      BY <1>12, <2>1, <2>5, <3>1, <3>2 DEF RelayPushes
  <2> QED
    BY <1>13, <2>2, <2>3, <2>4, <2>5
<1> QED
  BY <1>4, <1>5, <1>6, <1>8, <1>9, <1>10, <1>11, <1>13 DEF Next

(***************************************************************************)
(* Sessions.                                                               *)
(***************************************************************************)

\* Operations of the client that leave its connection alone.
LEMMA SendsKeepConnection ==
  ASSUME NEW messages, Client!Send(messages)
  PROVE  UNCHANGED <<socketUrl, socket, reconnectTimer, manualDisconnect, status, readyState>>
BY DEF Client!Send

\* What a controller reads comes over an open socket, and says what is so.
LEMMA ReadsOnOpenSocket ==
  ASSUME Client!LinkInv, NEW type, Received(type)
  PROVE  socket # 0 /\ socket \in Connections /\ readyState[socket] = "open" /\ Connected
BY LinkFacts DEF Received, Connected, Client!NoSocket

LEMMA AnswersAreTrue ==
  ASSUME TypeOK, RepliesAreTrue, NEW type, Received(type)
  PROVE  /\ type = "session.created" => attached = "owner"
         /\ type = "board.snapshot" => attached = "guest"
<1>1. 1 \in 1..Len(replies) /\ replies[1].type = type
  BY ReadsTheFirst DEF TypeOK
<1> QED
  BY <1>1 DEF RepliesAreTrue

LEMMA ReadyIsWholeNext ==
  TypeOK /\ Client!LinkInv /\ RepliesAreTrue /\ ReadyIsWhole /\ [Next]_vars => ReadyIsWhole'
<1> SUFFICES ASSUME TypeOK, Client!LinkInv, RepliesAreTrue, ReadyIsWhole, [Next]_vars,
                    phase' = "ready"
             PROVE  /\ Connected' /\ session' = socket' /\ attached' = role' /\ role' # "none"
                    /\ pendingRealtimeMessages' = <<>>
  BY DEF ReadyIsWhole
<1> DEFINE Whole == /\ Connected' /\ session' = socket' /\ attached' = role' /\ role' # "none"
                    /\ pendingRealtimeMessages' = <<>>
<1> USE DEF Connected, Client!NoSocket
<1>1. /\ socket \in Connections \cup {0} /\ 0 \notin Connections
      /\ \A s \in Connections : readyState[s] \in {"connecting", "open"} => socket = s
      /\ status = "connected" => socket # 0 /\ readyState[socket] \in {"open", "closing"}
      /\ reconnectTimer => socket = 0
      /\ role \in {"none", "owner", "guest"} /\ attached \in {"none", "owner", "waiting", "guest"}
  BY LinkFacts DEF TypeOK, Connections
<1>2. CASE UNCHANGED <<phase, session, role, attached, pendingRealtimeMessages, socket, status>>
  BY <1>2 DEF ReadyIsWhole
<1>3. CASE ConnectOwnerSession \/ ConnectGuestSession \/ Disconnect \/ StorageThrows
  BY <1>3 DEF ConnectOwnerSession, ConnectGuestSession, Dial, Disconnect, StorageThrows
<1>4. ASSUME NEW message, HandOver(message) PROVE Whole
  <2>1. phase = "ready" /\ UNCHANGED <<phase, session, role, attached>>
    BY <1>4 DEF HandOver, relayVars
  <2>2. CanSendRealtimeMessages
    BY <1>1, <2>1 DEF ReadyIsWhole, CanSendRealtimeMessages, NoSession
  <2>3. Client!Send(<<message>>) /\ UNCHANGED pendingRealtimeMessages
    BY <1>4, <2>2 DEF HandOver
  <2>4. UNCHANGED <<socket, status>>
    BY <2>3, SendsKeepConnection
  <2> QED
    BY <1>2, <2>1, <2>3, <2>4
<1>5. CASE SendBoardAction \/ SendPresenceUpdate
  BY <1>4, <1>5 DEF SendBoardAction, SendPresenceUpdate
<1>6. CASE SocketOpens
  <2>1. phase = "ready"
    BY <1>6 DEF SocketOpens, PhaseWhenConnected
  <2>2. PICK s \in Connections : readyState[s] = "connecting"
    BY <1>6 DEF SocketOpens, Client!SocketOpens
  <2> QED
    BY <1>1, <2>1, <2>2 DEF ReadyIsWhole
<1>7. CASE SocketCloses
  BY <1>7 DEF SocketCloses, sessionVars, ReadyIsWhole
<1>8. CASE TimerFires
  <2>1. phase = "ready" /\ socket = 0
    BY <1>1, <1>8 DEF TimerFires, Client!TimerFires, sessionVars
  <2> QED
    BY <1>1, <2>1 DEF ReadyIsWhole
<1>9. CASE SocketCloseBegins \/ StaleCloses \/ UNCHANGED vars
  BY <1>2, <1>9 DEF SocketCloseBegins, StaleCloses, Client!SocketCloseBegins, Client!StaleCloses,
     sessionVars, relayVars, vars, clientVars
<1>10. CASE ReceiveSessionCreated
  <2>1. Received("session.created")
    BY <1>10 DEF ReceiveSessionCreated
  <2>2. attached = "owner" /\ attached' = attached /\ Connected /\ socket # 0
    BY <2>1, AnswersAreTrue, ReadsOnOpenSocket DEF Received
  <2>3. CASE /\ sessionIntent = "owner" /\ session' = socket /\ role' = "owner"
             /\ SendAndFlush(<<>>)
    <3>1. pendingRealtimeMessages' = <<>> /\ UNCHANGED <<socket, status>>
      BY <2>3, SendsKeepConnection DEF SendAndFlush
    <3> QED
      BY <2>2, <2>3, <3>1
  <2>4. CASE /\ sessionIntent = "owner" /\ session' = socket /\ role' = "owner"
             /\ RestoreThrows
    BY <2>2, <2>4 DEF RestoreThrows, ReadyIsWhole, clientVars
  <2>5. CASE UNCHANGED <<clientVars, sessionVars, boardVars>>
    BY <1>2, <2>2, <2>5 DEF clientVars, sessionVars
  <2> QED
    BY <1>10, <2>3, <2>4, <2>5 DEF ReceiveSessionCreated
<1>11. CASE ReceiveSnapshot
  <2>1. Received("board.snapshot")
    BY <1>11 DEF ReceiveSnapshot
  <2>2. attached = "guest" /\ attached' = attached /\ Connected /\ socket # 0
    BY <2>1, AnswersAreTrue, ReadsOnOpenSocket DEF Received
  <2>3. CASE role = "guest" /\ session = socket /\ SendAndFlush(<<Msg("board.snapshot.ack", 0)>>)
    <3>1. pendingRealtimeMessages' = <<>> /\ UNCHANGED <<socket, status>>
      BY <2>3, SendsKeepConnection DEF SendAndFlush
    <3> QED
      BY <1>11, <2>2, <2>3, <3>1 DEF ReceiveSnapshot
  <2>4. CASE UNCHANGED <<clientVars, phase, pendingRealtimeMessages>>
    BY <1>2, <1>11, <2>2, <2>4 DEF ReceiveSnapshot, clientVars
  <2> QED
    BY <1>11, <2>3, <2>4 DEF ReceiveSnapshot
<1>12. CASE ReceiveSnapshotRequest
  <2>1. UNCHANGED <<phase, session, role, attached, pendingRealtimeMessages>>
    BY <1>12 DEF ReceiveSnapshotRequest, Received
  <2>2. UNCHANGED <<socket, status>>
    BY <1>12, SendsKeepConnection DEF ReceiveSnapshotRequest, clientVars
  <2> QED
    BY <1>2, <2>1, <2>2
<1>13. CASE ReceiveSessionJoined \/ ReceiveJoinRejected \/ ReceiveError
  BY <1>13 DEF ReceiveSessionJoined, ReceiveJoinRejected, ReceiveError
<1>14. CASE ReceiveSnapshotAck \/ ReceiveBoardAction
  BY <1>2, <1>14 DEF ReceiveSnapshotAck, ReceiveBoardAction, Received, clientVars, sessionVars
<1>15. CASE RelayAttaches \/ RelayServes \/ RelayResolvesJoin \/ RelayPushes
  <2>1. /\ UNCHANGED <<phase, session, role, pendingRealtimeMessages, socket, status>>
        /\ attached' = attached \/ attached \in {"none", "waiting"}
    BY <1>15 DEF RelayAttaches, RelayServes, RelayResolvesJoin, RelayPushes, RelayReads, RelayStep,
       clientVars, sessionVars
  <2> QED
    BY <1>1, <1>2, <2>1 DEF ReadyIsWhole
<1> QED
  BY <1>3, <1>5, <1>6, <1>7, <1>8, <1>9, <1>10, <1>11, <1>12, <1>13, <1>14, <1>15
     DEF Next, ReceiveSteps

\* The flag of a queued handshake is taken back with the session, and set only
\* when the connection is lost.
LEMMA FlagMoves ==
  [Next]_vars => \/ queuedReconnectHandshake' = FALSE
                 \/ UNCHANGED <<queuedReconnectHandshake, session>>
                 \/ socket' = 0
<1> SUFFICES ASSUME [Next]_vars
             PROVE  \/ queuedReconnectHandshake' = FALSE
                    \/ UNCHANGED <<queuedReconnectHandshake, session>>
                    \/ socket' = 0
  OBVIOUS
<1>1. CASE ReceiveSteps
  BY <1>1 DEF ReceiveSteps, ReceiveSessionCreated, ReceiveSessionJoined, ReceiveJoinRejected,
     ReceiveSnapshotRequest, ReceiveSnapshot, ReceiveSnapshotAck, ReceiveBoardAction, ReceiveError,
     HandshakeAnswered, sessionVars
<1>2. CASE SocketCloses
  BY <1>2 DEF SocketCloses, Client!CurrentCloses, Client!NoSocket
<1>3. CASE \/ UNCHANGED vars \/ ConnectOwnerSession \/ ConnectGuestSession \/ Disconnect
           \/ SendBoardAction \/ SendPresenceUpdate \/ SocketOpens
           \/ StorageThrows \/ TimerFires \/ SocketCloseBegins \/ StaleCloses
           \/ RelayAttaches \/ RelayServes \/ RelayResolvesJoin \/ RelayPushes
  BY <1>3 DEF vars, sessionVars, ConnectOwnerSession, ConnectGuestSession, Dial, Disconnect,
     SendBoardAction, SendPresenceUpdate, HandOver, SocketOpens,
     StorageThrows, TimerFires, SocketCloseBegins, StaleCloses, RelayAttaches, RelayServes,
     RelayResolvesJoin, RelayPushes, RelayReads, RelayStep
<1> QED
  BY <1>1, <1>2, <1>3 DEF Next

LEMMA HandshakeIsAnsweredNext ==
  TypeOK /\ Client!LinkInv /\ SocketsInOrder /\ HandshakeIsAnswered /\ [Next]_vars
    => HandshakeIsAnswered'
<1> SUFFICES ASSUME TypeOK, Client!LinkInv, SocketsInOrder, HandshakeIsAnswered, [Next]_vars,
                    socket' # 0, session' = socket'
             PROVE  ~queuedReconnectHandshake'
  BY DEF HandshakeIsAnswered, Client!NoSocket
<1>1. ClientMove
  BY ControllerMovesClient DEF vars, ClientMove, ClientOperation, ClientThrows
<1>2. socket # 0 => socket \in Connections /\ readyState[socket] # "none"
  BY LinkFacts
<1>3. ASSUME NEW n \in Connections, NewSocket(n) PROVE FALSE
  <2>1. readyState[n] = "none" /\ socket' = n
    BY <1>3 DEF NewSocket
  <2>2. session # n /\ socket # n
    BY <1>2, <1>3, <2>1 DEF SocketsInOrder
  <2> QED
    BY <2>1, <2>2, SessionMoves
<1>4. socket' = socket
  BY <1>1, <1>3, SocketsMove DEF SameSockets
<1> QED
  BY <1>4, FlagMoves DEF HandshakeIsAnswered, Client!NoSocket

LEMMA OpenGuestHasSessionNext ==
  /\ TypeOK /\ Client!LinkInv /\ RepliesAreTrue /\ HandshakeIsAnswered /\ OpenGuestHasSession
  /\ [Next]_vars
  => OpenGuestHasSession'
<1> SUFFICES ASSUME TypeOK, Client!LinkInv, RepliesAreTrue, HandshakeIsAnswered,
                    OpenGuestHasSession, [Next]_vars,
                    sessionIntent' = "guest", role' = "guest", ~editingLocked'
             PROVE  \/ ~Client!Accepts'
                    \/ /\ Connected' /\ session' = socket' /\ attached' = "guest"
                       /\ SnapshotEdit \in shownBoard'
  BY DEF OpenGuestHasSession
<1> DEFINE OpenBefore == sessionIntent = "guest" /\ role = "guest" /\ ~editingLocked
           Fine == \/ ~Client!Accepts'
                   \/ /\ Connected' /\ session' = socket' /\ attached' = "guest"
                      /\ SnapshotEdit \in shownBoard'
<1> USE DEF Connected, Client!NoSocket, Client!Accepts
<1>1. /\ socket \in Connections \cup {0} /\ 0 \notin Connections
      /\ socket # 0 => Client!Accepts /\ readyState[socket] \in {"connecting", "open", "closing"}
      /\ \A s \in Connections : readyState[s] \in {"connecting", "open"} => socket = s
      /\ status = "connected" => socket # 0 /\ readyState[socket] \in {"open", "closing"}
      /\ reconnectTimer => Client!Accepts /\ socket = 0
  BY LinkFacts DEF Connections
<1>2. OpenBefore /\ Client!Accepts
        => Connected /\ session = socket /\ attached = "guest" /\ SnapshotEdit \in shownBoard
  BY DEF OpenGuestHasSession
<1>3. ASSUME UNCHANGED <<sessionIntent, role, editingLocked, session, attached>>,
             UNCHANGED <<socketUrl, manualDisconnect, socket, status>>,
             shownBoard \subseteq shownBoard'
      PROVE  Fine
  BY <1>2, <1>3
<1>4. CASE ConnectOwnerSession \/ ConnectGuestSession \/ Disconnect
  BY <1>4 DEF ConnectOwnerSession, ConnectGuestSession, Dial, Disconnect, Client!Disconnect
<1>5. ASSUME NEW message, HandOver(message), shownBoard \subseteq shownBoard' PROVE Fine
  <2>1. UNCHANGED <<sessionIntent, role, editingLocked, session, attached>>
    BY <1>5 DEF HandOver, relayVars
  <2>2. UNCHANGED <<socketUrl, manualDisconnect, socket, status>>
    BY <1>5, SendsKeepConnection DEF HandOver, clientVars
  <2> QED
    BY <1>3, <1>5, <2>1, <2>2
<1>6. CASE SendBoardAction \/ SendPresenceUpdate
  BY <1>5, <1>6 DEF SendBoardAction, SendPresenceUpdate, boardVars
<1>7. CASE SocketOpens
  <2>1. OpenBefore
    BY <1>7 DEF SocketOpens
  <2>2. PICK s \in Connections : readyState[s] = "connecting"
    BY <1>7 DEF SocketOpens, Client!SocketOpens
  <2> QED
    BY <1>1, <1>2, <2>1, <2>2
<1>8. CASE SocketCloses
  <2>1. PICK s \in Connections : \E messages \in {<<>>, <<Create>>, <<Join>>} : Client!CurrentCloses(s, messages)
    BY <1>8 DEF SocketCloses
  <2>2. socket = s /\ Client!Accepts
    BY <2>1 DEF Client!CurrentCloses
  <2>3. sessionIntent = "guest" /\ role = "guest"
    BY <1>8 DEF SocketCloses
  <2>4. ~editingLocked
    BY <1>8, <2>3 DEF SocketCloses, sessionVars, HandleReconnectStart, LockGuest
  <2>5. status # "reconnecting" /\ RepeatsHandshake
    <3>1. Connected /\ session = socket /\ socket # 0
      BY <1>1, <1>2, <2>2, <2>3, <2>4
    <3> QED
      BY <2>3, <3>1 DEF HandshakeIsAnswered, RepeatsHandshake
  <2> QED
    BY <1>8, <2>3, <2>5 DEF SocketCloses, HandleReconnectStart, LockGuest
<1>9. CASE StorageThrows
  BY <1>9 DEF StorageThrows, OwnsBoard
<1>10. CASE TimerFires
  <2>1. OpenBefore /\ reconnectTimer
    BY <1>10 DEF TimerFires, sessionVars, Client!TimerFires
  <2> QED
    BY <1>1, <1>2, <2>1
<1>11. CASE SocketCloseBegins \/ StaleCloses \/ UNCHANGED vars
  BY <1>3, <1>11 DEF SocketCloseBegins, StaleCloses, Client!SocketCloseBegins, Client!StaleCloses,
     sessionVars, relayVars, boardVars, vars, clientVars
<1>12. CASE ReceiveSessionCreated
  BY <1>3, <1>12 DEF ReceiveSessionCreated, Received, sessionVars, clientVars, boardVars
<1>13. CASE ReceiveSessionJoined \/ ReceiveJoinRejected
  BY <1>13 DEF ReceiveSessionJoined, ReceiveJoinRejected
<1>14. CASE ReceiveSnapshotRequest
  <2>1. UNCHANGED <<sessionIntent, role, editingLocked, session, attached, shownBoard>>
    BY <1>14 DEF ReceiveSnapshotRequest, Received, boardVars
  <2>2. UNCHANGED <<socketUrl, manualDisconnect, socket, status>>
    BY <1>14, SendsKeepConnection DEF ReceiveSnapshotRequest, clientVars
  <2> QED
    BY <1>3, <2>1, <2>2
<1>15. CASE ReceiveSnapshot
  <2>1. Received("board.snapshot") /\ UNCHANGED <<sessionIntent, role, session, attached>>
    BY <1>15 DEF ReceiveSnapshot, Received
  <2>2. attached = "guest" /\ Connected
    BY <2>1, AnswersAreTrue, ReadsOnOpenSocket
  <2>3. CASE /\ session = socket /\ shownBoard' = {SnapshotEdit}
             /\ SendAndFlush(<<Msg("board.snapshot.ack", 0)>>)
    <3>1. UNCHANGED <<socket, status>>
      BY <2>3, SendsKeepConnection DEF SendAndFlush
    <3> QED
      BY <2>1, <2>2, <2>3, <3>1
  <2>4. CASE UNCHANGED <<clientVars, shownBoard, editingLocked>>
    BY <1>3, <2>1, <2>4 DEF clientVars
  <2> QED
    BY <1>15, <2>3, <2>4 DEF ReceiveSnapshot
<1>16. CASE ReceiveSnapshotAck \/ ReceiveBoardAction
  BY <1>3, <1>16 DEF ReceiveSnapshotAck, ReceiveBoardAction, Received, clientVars, sessionVars, boardVars
<1>17. CASE ReceiveError
  <2>1. ~editingLocked
    BY <1>17 DEF ReceiveError
  <2> QED
    BY <1>2, <1>17, <2>1 DEF ReceiveError, Received, clientVars, boardVars
<1>18. CASE RelayAttaches \/ RelayServes \/ RelayResolvesJoin \/ RelayPushes
  <2>1. UNCHANGED <<clientVars, sessionVars, boardVars>> /\ Linked
    BY <1>18 DEF RelayAttaches, RelayServes, RelayResolvesJoin, RelayPushes, RelayReads, RelayStep
  <2>2. OpenBefore /\ Client!Accepts
    BY <1>1, <2>1 DEF sessionVars, Linked
  <2>3. attached' = attached
    BY <1>2, <1>18, <2>2 DEF RelayAttaches, RelayServes, RelayResolvesJoin, RelayPushes
  <2> QED
    BY <1>3, <2>1, <2>3 DEF clientVars, sessionVars, boardVars
<1> QED
  BY <1>4, <1>6, <1>7, <1>8, <1>9, <1>10, <1>11, <1>12, <1>13, <1>14, <1>15, <1>16, <1>17, <1>18
     DEF Next, ReceiveSteps

(***************************************************************************)
(* Realtime messages on their way.                                         *)
(***************************************************************************)
Ordered(s) ==
  \A i, j \in 1..Len(s) :
    i < j /\ IsRealtime(s[i]) /\ IsRealtime(s[j]) => s[i].id < s[j].id

Before(s, t) ==
  \A i \in 1..Len(s), j \in 1..Len(t) :
    IsRealtime(s[i]) /\ IsRealtime(t[j]) => s[i].id < t[j].id

UpTo(s, n) == \A i \in 1..Len(s) : IsRealtime(s[i]) => s[i].id <= n

Quiet(s) == \A i \in 1..Len(s) : ~IsRealtime(s[i])

\* The lanes w, q and p hold the first n realtime messages in their order.
InFlow(w, q, p, n) ==
  /\ \A s \in Connections : /\ Ordered(w[s]) /\ UpTo(w[s], n)
                            /\ Before(w[s], q) /\ Before(w[s], p)
  /\ \A s, t \in Connections : s < t => Before(w[s], w[t])
  /\ Ordered(q) /\ UpTo(q, n) /\ Before(q, p)
  /\ Ordered(p) /\ UpTo(p, n)

LEMMA QuietIsOrdered ==
  ASSUME NEW s, NEW t, NEW n, Quiet(s)
  PROVE  Ordered(s) /\ UpTo(s, n) /\ Before(s, t) /\ Before(t, s)
BY DEF Quiet, Ordered, UpTo, Before

LEMMA NothingIsQuiet == Quiet(<<>>)
BY DEF Quiet

LEMMA ElementsOfConcat ==
  ASSUME NEW s \in Seq(Outgoing), NEW t \in Seq(Outgoing), NEW i \in 1..Len(s \o t)
  PROVE  \/ i \in 1..Len(s) /\ (s \o t)[i] = s[i]
         \/ i - Len(s) \in 1..Len(t) /\ (s \o t)[i] = t[i - Len(s)] /\ i > Len(s)
<1>1. Len(s) \in Nat /\ Len(t) \in Nat /\ Len(s \o t) = Len(s) + Len(t)
  BY ConcatProperties, LenProperties
<1>2. CASE i <= Len(s)
  BY <1>1, <1>2, ConcatProperties
<1>3. CASE i > Len(s)
  BY <1>1, <1>3, ConcatProperties
<1> QED
  BY <1>1, <1>2, <1>3

LEMMA ConcatFlows ==
  ASSUME NEW s \in Seq(Outgoing), NEW t \in Seq(Outgoing)
  PROVE  /\ Ordered(s) /\ Ordered(t) /\ Before(s, t) => Ordered(s \o t)
         /\ \A n : UpTo(s, n) /\ UpTo(t, n) => UpTo(s \o t, n)
         /\ \A r : Before(r, s) /\ Before(r, t) => Before(r, s \o t)
         /\ \A r : Before(s, r) /\ Before(t, r) => Before(s \o t, r)
         /\ Quiet(s) /\ Quiet(t) => Quiet(s \o t)
<1>1. ASSUME Ordered(s), Ordered(t), Before(s, t), NEW i \in 1..Len(s \o t),
             NEW j \in 1..Len(s \o t), i < j, IsRealtime((s \o t)[i]), IsRealtime((s \o t)[j])
      PROVE  (s \o t)[i].id < (s \o t)[j].id
  <2>1. CASE j \in 1..Len(s) /\ (s \o t)[j] = s[j]
    <3>1. i \in 1..Len(s) /\ (s \o t)[i] = s[i]
      BY <1>1, <2>1, ElementsOfConcat
    <3> QED
      BY <1>1, <2>1, <3>1 DEF Ordered
  <2>2. CASE j - Len(s) \in 1..Len(t) /\ (s \o t)[j] = t[j - Len(s)] /\ j > Len(s)
    <3>1. CASE i \in 1..Len(s) /\ (s \o t)[i] = s[i]
      BY <1>1, <2>2, <3>1 DEF Before
    <3>2. CASE i - Len(s) \in 1..Len(t) /\ (s \o t)[i] = t[i - Len(s)] /\ i > Len(s)
      <4>1. i - Len(s) < j - Len(s)
        BY <1>1, LenProperties
      <4> QED
        BY <1>1, <2>2, <3>2, <4>1 DEF Ordered
    <3> QED
      BY <3>1, <3>2, ElementsOfConcat
  <2> QED
    BY <2>1, <2>2, ElementsOfConcat
<1>2. ASSUME NEW n, UpTo(s, n), UpTo(t, n) PROVE UpTo(s \o t, n)
  BY <1>2, ElementsOfConcat DEF UpTo
<1>3. ASSUME NEW r, Before(r, s), Before(r, t) PROVE Before(r, s \o t)
  BY <1>3, ElementsOfConcat DEF Before
<1>4. ASSUME NEW r, Before(s, r), Before(t, r) PROVE Before(s \o t, r)
  BY <1>4, ElementsOfConcat DEF Before
<1>5. ASSUME Quiet(s), Quiet(t) PROVE Quiet(s \o t)
  BY <1>5, ElementsOfConcat DEF Quiet
<1> QED
  BY <1>1, <1>2, <1>3, <1>4, <1>5 DEF Ordered

\* The next message, alone.
LEMMA NextIsLast ==
  ASSUME NEW n \in Nat, NEW m \in Realtime, m.id = n + 1
  PROVE  /\ Ordered(<<m>>) /\ UpTo(<<m>>, n + 1)
         /\ \A s \in Seq(Outgoing) : UpTo(s, n) => Before(s, <<m>>) /\ UpTo(s, n + 1)
<1>1. ASSUME NEW s \in Seq(Outgoing), UpTo(s, n) PROVE Before(s, <<m>>) /\ UpTo(s, n + 1)
  <2>1. ASSUME NEW i \in 1..Len(s), IsRealtime(s[i]) PROVE s[i].id \in Int /\ s[i].id <= n
    <3>1. s[i] \in Realtime
      BY <2>1, ElementOfSeq DEF Realtime
    <3> QED
      BY <1>1, <2>1, <3>1, KindsOfMessages DEF UpTo, OwnEdits
  <2> QED
    BY <2>1 DEF Before, UpTo
<1> QED
  BY <1>1 DEF Ordered, UpTo

(* Messages are added behind all that a client was given: to its open socket,
   which is the newest and behind which nothing waits, or to its queue. *)
Newest(s) == s \in Connections /\ \A t \in Connections : t > s => written[t] = <<>>

Added(messages) ==
  \/ /\ Newest(socket) /\ queuedMessages = <<>>
     /\ written' = [written EXCEPT ![socket] = @ \o messages]
     /\ UNCHANGED queuedMessages
  \/ /\ UNCHANGED written
     /\ queuedMessages' = queuedMessages \o messages

LEMMA ToSocketFlows ==
  ASSUME NEW n \in Nat, NEW n2 \in Nat, n <= n2, NEW s, Newest(s),
         written \in [Connections -> Seq(Outgoing)],
         NEW x \in Seq(Outgoing), NEW q, NEW q2, NEW p, NEW p2,
         InFlow(written, q, p, n),
         Ordered(x), UpTo(x, n2), Before(x, q2), Before(x, p2),
         Ordered(q2), UpTo(q2, n2), Before(q2, p2), Ordered(p2), UpTo(p2, n2),
         \A t \in Connections : /\ Before(written[t], x) /\ UpTo(written[t], n2)
                                /\ Before(written[t], q2) /\ Before(written[t], p2)
  PROVE  InFlow([written EXCEPT ![s] = @ \o x], q2, p2, n2)
<1> DEFINE w == [written EXCEPT ![s] = @ \o x]
<1>1. /\ s \in Connections /\ written[s] \in Seq(Outgoing) /\ w[s] = written[s] \o x
      /\ \A t \in Connections \ {s} : w[t] = written[t]
  BY DEF Newest
<1>2. \A t \in Connections : /\ Ordered(w[t]) /\ UpTo(w[t], n2)
                             /\ Before(w[t], q2) /\ Before(w[t], p2)
  <2>1. \A t \in Connections \ {s} : /\ Ordered(w[t]) /\ UpTo(w[t], n2)
                                     /\ Before(w[t], q2) /\ Before(w[t], p2)
    BY <1>1 DEF InFlow
  <2>2. Ordered(written[s]) /\ Before(written[s], x) /\ UpTo(written[s], n2)
    BY <1>1 DEF InFlow
  <2>3. Ordered(w[s]) /\ UpTo(w[s], n2) /\ Before(w[s], q2) /\ Before(w[s], p2)
    BY <1>1, <2>2, ConcatFlows
  <2> QED
    BY <2>1, <2>3
<1>3. ASSUME NEW t \in Connections, NEW u \in Connections, t < u PROVE Before(w[t], w[u])
  <2>0. Connections \subseteq Int
    BY ControllerAssumption DEF Connections
  <2>1. CASE u = s
    BY <1>1, <1>3, <2>0, <2>1, ConcatFlows DEF InFlow
  <2>2. CASE t = s
    <3>1. u # s /\ u > s
      BY <1>1, <1>3, <2>0, <2>2
    <3>2. w[u] = <<>>
      BY <1>1, <3>1 DEF Newest
    <3>3. Quiet(w[u])
      BY <3>2, NothingIsQuiet
    <3> QED
      BY <2>2, <3>3, QuietIsOrdered
  <2>3. CASE t # s /\ u # s
    BY <1>1, <1>3, <2>3 DEF InFlow
  <2> QED
    BY <2>1, <2>2, <2>3
<1> QED
  BY <1>2, <1>3 DEF InFlow

LEMMA AddedFlows ==
  ASSUME NEW n \in Nat, NEW n2 \in Nat, n <= n2,
         written \in [Connections -> Seq(Outgoing)], queuedMessages \in Seq(Outgoing),
         NEW x \in Seq(Outgoing), NEW p, NEW p2,
         InFlow(written, queuedMessages, p, n), Added(x),
         Ordered(x), UpTo(x, n2), Before(x, p2), Ordered(p2), UpTo(p2, n2),
         Before(queuedMessages, x), Before(queuedMessages, p2), UpTo(queuedMessages, n2),
         \A t \in Connections : /\ Before(written[t], x) /\ UpTo(written[t], n2)
                                /\ Before(written[t], p2)
  PROVE  InFlow(written', queuedMessages', p2, n2)
<1>1. CASE /\ Newest(socket) /\ queuedMessages = <<>>
           /\ written' = [written EXCEPT ![socket] = @ \o x]
           /\ UNCHANGED queuedMessages
  <2>1. Quiet(queuedMessages)
    BY <1>1, NothingIsQuiet
  <2> QED
    BY <1>1, <2>1, QuietIsOrdered, ToSocketFlows
<1>2. CASE UNCHANGED written /\ queuedMessages' = queuedMessages \o x
  <2>1. /\ Ordered(queuedMessages \o x) /\ UpTo(queuedMessages \o x, n2)
        /\ Before(queuedMessages \o x, p2)
        /\ \A t \in Connections : Before(written[t], queuedMessages \o x)
    BY ConcatFlows DEF InFlow
  <2> QED
    BY <1>2, <2>1 DEF InFlow
<1> QED
  BY <1>1, <1>2 DEF Added

(* What a step does to the messages on their way: *)
Rests == UNCHANGED <<written, queuedMessages, pendingRealtimeMessages, handed>>

\* the user gives up what waits,
Drops ==
  /\ calls' # calls /\ Quiet(queuedMessages')
  /\ pendingRealtimeMessages' \in {pendingRealtimeMessages, <<>>}
  /\ UNCHANGED <<written, handed>>

\* a message of another kind is added,
Passes(x) == Quiet(x) /\ Added(x) /\ UNCHANGED <<pendingRealtimeMessages, handed>>

\* what was held back is added behind it,
Releases(x) ==
  /\ Quiet(x) /\ Added(x \o pendingRealtimeMessages)
  /\ pendingRealtimeMessages' = <<>> /\ UNCHANGED handed

\* the next realtime message is held back or added,
Takes(m) ==
  /\ m.id = handed + 1 /\ handed' = handed + 1
  /\ \/ /\ pendingRealtimeMessages' = Append(pendingRealtimeMessages, m)
        /\ UNCHANGED <<written, queuedMessages>>
     \/ pendingRealtimeMessages = <<>> /\ Added(<<m>>) /\ UNCHANGED pendingRealtimeMessages

\* or the queue is written to the socket that has opened.
Flushes(s) ==
  /\ Newest(s) /\ written' = [written EXCEPT ![s] = @ \o queuedMessages]
  /\ queuedMessages' = <<>> /\ UNCHANGED <<pendingRealtimeMessages, handed>>

FlowStep ==
  \/ Rests \/ Drops
  \/ \E x \in Seq(Outgoing) : Passes(x) \/ Releases(x)
  \/ \E m \in Realtime : Takes(m)
  \/ \E s \in Connections : Flushes(s)

LEMMA NewestIsCurrent ==
  Client!LinkInv /\ SocketsInOrder /\ socket # 0 => Newest(socket)
BY LinkFacts DEF SocketsInOrder, Newest

LEMMA SendAdds ==
  ASSUME Client!LinkInv, SocketsInOrder, Client!Accepts, NEW messages, Client!Send(messages)
  PROVE  Added(messages)
<1>1. CASE Client!IsOpen
  <2>1. socket # 0 /\ queuedMessages = <<>>
    BY <1>1, LinkFacts DEF Client!IsOpen, Client!NoSocket
  <2> QED
    BY <1>1, <2>1, NewestIsCurrent DEF Client!Send, Added
<1>2. CASE ~Client!IsOpen
  BY <1>2 DEF Client!Send, Added
<1> QED
  BY <1>1, <1>2

LEMMA OneOtherMessage ==
  ASSUME NEW m \in Outgoing, ~IsRealtime(m)
  PROVE  <<m>> \in Seq(Outgoing) /\ Quiet(<<m>>)
BY DEF Quiet

LEMMA ConnectFlows ==
  ASSUME Client!LinkInv, SocketsInOrder, NEW m \in Outgoing, ~IsRealtime(m),
         Client!Connect(RelayUrl, <<m>>), UNCHANGED <<pendingRealtimeMessages, handed>>,
         calls' # calls
  PROVE  FlowStep
<1>1. <<m>> \in Seq(Outgoing) /\ Quiet(<<m>>)
  BY OneOtherMessage
<1>2. CASE Client!AlreadyConnecting(RelayUrl)
  <2>1. Client!Send(<<m>>) /\ socket # 0
    BY <1>2 DEF Client!Connect, Client!OpenAnew, Client!AlreadyConnecting, Client!NoSocket
  <2>2. Client!Accepts
    BY <2>1, LinkFacts
  <2>3. Passes(<<m>>)
    BY <1>1, <2>1, <2>2, SendAdds DEF Passes
  <2> QED
    BY <1>1, <2>3 DEF FlowStep
<1>3. CASE Client!OpenAnew(RelayUrl, <<m>>)
  <2>1. UNCHANGED written /\ queuedMessages' \in {queuedMessages \o <<m>>, <<>> \o <<m>>}
    BY <1>3 DEF Client!OpenAnew
  <2>2. <<>> \o <<m>> = <<m>>
    BY <1>1, ConcatEmptySeq
  <2>3. CASE queuedMessages' = queuedMessages \o <<m>>
    <3>1. Passes(<<m>>)
      BY <1>1, <2>1, <2>3 DEF Passes, Added
    <3> QED
      BY <1>1, <3>1 DEF FlowStep
  <2>4. CASE queuedMessages' = <<m>>
    BY <1>1, <2>1, <2>4 DEF Drops, FlowStep
  <2> QED
    BY <2>1, <2>2, <2>3, <2>4
<1> QED
  BY <1>2, <1>3 DEF Client!Connect, Client!OpenAnew

LEMMA HandOverFlows ==
  ASSUME TypeOK, Client!LinkInv, SocketsInOrder, ReadyIsWhole,
         NEW type \in {"board.action", "presence.update"},
         HandOver(Msg(type, handed + 1))
  PROVE  FlowStep
<1> DEFINE m == Msg(type, handed + 1)
<1>1. m \in Realtime /\ m.id = handed + 1
  <2>1. handed + 1 \in OwnEdits
    BY NextNumber DEF HandOver, TypeOK
  <2> QED
    BY <2>1, KindsOfMessages DEF Msg
<1>2. CASE ~CanSendRealtimeMessages
  BY <1>1, <1>2 DEF HandOver, clientVars, Takes, FlowStep
<1>3. CASE CanSendRealtimeMessages
  <2>1. phase = "ready" /\ status = "connected"
    BY <1>3 DEF CanSendRealtimeMessages
  <2>2. pendingRealtimeMessages = <<>> /\ Client!Accepts
    BY <2>1, LinkFacts DEF ReadyIsWhole
  <2>3. Client!Send(<<m>>) /\ UNCHANGED pendingRealtimeMessages /\ handed' = handed + 1
    BY <1>3 DEF HandOver
  <2>4. Added(<<m>>)
    BY <2>2, <2>3, SendAdds
  <2>5. Takes(m)
    BY <1>1, <2>2, <2>3, <2>4 DEF Takes
  <2> QED
    BY <1>1, <2>5 DEF FlowStep
<1> QED
  BY <1>2, <1>3

LEMMA Flows ==
  TypeOK /\ Client!LinkInv /\ SocketsInOrder /\ ReadyIsWhole /\ [Next]_vars => FlowStep
<1> SUFFICES ASSUME TypeOK, Client!LinkInv, SocketsInOrder, ReadyIsWhole, [Next]_vars PROVE FlowStep
  OBVIOUS
<1>1. CASE Rests
  BY <1>1 DEF FlowStep
<1>2. CASE UNCHANGED vars
  BY <1>1, <1>2 DEF vars, clientVars, sessionVars, countVars, Rests
<1>3. CASE ConnectOwnerSession \/ ConnectGuestSession
  <2>1. PICK m \in {Create, Join} : /\ Client!Connect(RelayUrl, <<m>>) /\ calls' = calls + 1
                                    /\ UNCHANGED <<pendingRealtimeMessages, handed>>
    BY <1>3 DEF ConnectOwnerSession, ConnectGuestSession, Dial
  <2>2. calls' # calls
    BY <2>1 DEF TypeOK
  <2> QED
    BY <2>1, <2>2, KindsOfMessages, ConnectFlows
<1>4. CASE Disconnect
  <2>1. /\ calls' = calls + 1 /\ queuedMessages' = <<>> /\ pendingRealtimeMessages' = <<>>
        /\ UNCHANGED <<written, handed>>
    BY <1>4 DEF Disconnect, Client!Disconnect
  <2>2. calls' # calls
    BY <2>1 DEF TypeOK
  <2> QED
    BY <2>1, <2>2, NothingIsQuiet DEF Drops, FlowStep
<1>5. CASE SendBoardAction \/ SendPresenceUpdate
  BY <1>5, HandOverFlows DEF SendBoardAction, SendPresenceUpdate
<1>6. CASE SocketOpens
  <2>1. PICK s \in Connections : Client!SocketOpens(s) /\ UNCHANGED <<pendingRealtimeMessages, handed>>
    BY <1>6 DEF SocketOpens, countVars
  <2>2. CASE Rests
    BY <2>2 DEF FlowStep
  <2>3. CASE socket = s /\ Client!FlushQueuedMessages(s)
    <3>1. Newest(s)
      BY <2>3, NewestIsCurrent, ControllerAssumption DEF Connections
    <3> QED
      BY <2>1, <2>3, <3>1 DEF Client!FlushQueuedMessages, Flushes, FlowStep
  <2> QED
    BY <2>1, <2>2, <2>3 DEF Client!SocketOpens, Rests
<1>7. CASE SocketCloses
  <2>1. PICK messages \in {<<>>, <<Create>>, <<Join>>} :
          /\ UNCHANGED written /\ queuedMessages' = queuedMessages \o messages
          /\ UNCHANGED <<pendingRealtimeMessages, handed>>
    BY <1>7 DEF SocketCloses, Client!CurrentCloses, Client!ScheduleReconnect, countVars
  <2>2. messages \in Seq(Outgoing) /\ Quiet(messages)
    <3>1. <<>> \in Seq(Outgoing) /\ Quiet(<<>>)
      BY NothingIsQuiet
    <3>2. /\ <<Create>> \in Seq(Outgoing) /\ Quiet(<<Create>>)
          /\ <<Join>> \in Seq(Outgoing) /\ Quiet(<<Join>>)
      BY OneOtherMessage, KindsOfMessages
    <3> QED
      BY <3>1, <3>2
  <2>3. Passes(messages)
    BY <2>1, <2>2 DEF Passes, Added
  <2> QED
    BY <2>2, <2>3 DEF FlowStep
<1>8. CASE StorageThrows \/ TimerFires \/ SocketCloseBegins \/ StaleCloses
  BY <1>1, <1>8 DEF StorageThrows, TimerFires, SocketCloseBegins, StaleCloses, Client!CallbackThrows,
     Client!TimerFires, Client!SocketCloseBegins, Client!StaleCloses, countVars, sessionVars, Rests
<1>9. ASSUME NEW type, Received(type), NEW x \in Seq(Outgoing), Quiet(x), Client!Send(x),
             UNCHANGED pendingRealtimeMessages
      PROVE  FlowStep
  <2>1. Client!Accepts
    BY <1>9, ReadsOnOpenSocket, LinkFacts
  <2>2. Passes(x)
    BY <1>9, <2>1, SendAdds DEF Received, countVars, Passes
  <2> QED
    BY <1>9, <2>2 DEF FlowStep
<1>10. ASSUME NEW type, Received(type), NEW x \in Seq(Outgoing), Quiet(x), SendAndFlush(x)
       PROVE  FlowStep
  <2>1. Client!Accepts
    BY <1>10, ReadsOnOpenSocket, LinkFacts
  <2>2. Releases(x)
    BY <1>10, <2>1, SendAdds DEF SendAndFlush, Received, countVars, Releases
  <2> QED
    BY <1>10, <2>2 DEF FlowStep
<1>11. CASE ReceiveSessionCreated
  <2>1. CASE SendAndFlush(<<>>)
    <3>1. <<>> \in Seq(Outgoing) /\ Quiet(<<>>)
      BY NothingIsQuiet
    <3> QED
      BY <1>10, <1>11, <2>1, <3>1 DEF ReceiveSessionCreated
  <2>2. CASE UNCHANGED <<clientVars, pendingRealtimeMessages>>
    BY <1>1, <1>11, <2>2 DEF ReceiveSessionCreated, Received, countVars, clientVars, Rests
  <2> QED
    BY <1>11, <2>1, <2>2 DEF ReceiveSessionCreated, RestoreThrows, sessionVars
<1>12. CASE ReceiveSnapshot
  <2>1. CASE SendAndFlush(<<Msg("board.snapshot.ack", 0)>>)
    BY <1>10, <1>12, <2>1, KindsOfMessages, OneOtherMessage DEF ReceiveSnapshot
  <2>2. CASE UNCHANGED <<clientVars, pendingRealtimeMessages>>
    BY <1>1, <1>12, <2>2 DEF ReceiveSnapshot, Received, countVars, clientVars, Rests
  <2> QED
    BY <1>12, <2>1, <2>2 DEF ReceiveSnapshot
<1>13. CASE ReceiveSnapshotRequest
  <2>1. CASE UNCHANGED clientVars
    BY <1>1, <1>13, <2>1 DEF ReceiveSnapshotRequest, Received, countVars, clientVars, Rests
  <2>2. CASE Client!Send(<<Msg("board.snapshot", Head(replies).id)>>)
    <3>1. Received("board.snapshot.request") /\ replies \in Seq(Incoming)
      BY <1>13 DEF ReceiveSnapshotRequest, TypeOK
    <3>2. Head(replies).id \in Guests
      BY <3>1, ReadsTheFirst, RequestsNameGuests
    <3> QED
      BY <1>9, <1>13, <2>2, <3>1, <3>2, KindsOfMessages, OneOtherMessage DEF ReceiveSnapshotRequest
  <2> QED
    BY <1>13, <2>1, <2>2 DEF ReceiveSnapshotRequest
<1>14. CASE \/ ReceiveSessionJoined \/ ReceiveJoinRejected \/ ReceiveSnapshotAck
            \/ ReceiveBoardAction \/ ReceiveError
  BY <1>1, <1>14 DEF ReceiveSessionJoined, ReceiveJoinRejected, ReceiveSnapshotAck,
     ReceiveBoardAction, ReceiveError, Received, countVars, clientVars, sessionVars, Rests
<1>15. CASE RelayAttaches \/ RelayServes \/ RelayResolvesJoin \/ RelayPushes
  BY <1>1, <1>15 DEF RelayAttaches, RelayServes, RelayResolvesJoin, RelayPushes, RelayReads,
     RelayStep, clientVars, sessionVars, Rests
<1> QED
  BY <1>2, <1>3, <1>4, <1>5, <1>6, <1>7, <1>8, <1>11, <1>12, <1>13, <1>14, <1>15
     DEF Next, ReceiveSteps

\* Every such step keeps the lanes in order.
LEMMA FlowStepKeepsOrder ==
  ASSUME TypeOK, TypeOK', FlowStep,
         InFlow(written, queuedMessages, pendingRealtimeMessages, handed)
  PROVE  InFlow(written', queuedMessages', pendingRealtimeMessages', handed')
<1> DEFINE p == pendingRealtimeMessages
           n == handed
<1>1. /\ written \in [Connections -> Seq(Outgoing)] /\ queuedMessages \in Seq(Outgoing)
      /\ p \in Seq(Outgoing) /\ p' \in Seq(Outgoing)
      /\ n \in Nat /\ n' \in Nat
  <2>1. Client!TypeOK /\ p \in Seq(Outgoing) /\ n \in Nat
    BY PendingAreOutgoing, ControllerAssumption DEF TypeOK
  <2>2. p' \in Seq(Outgoing) /\ n' \in Nat
    BY RealtimeIsOutgoing, TypeInParts, ControllerAssumption DEF HeldBackOK, TypeOK, Realtime
  <2> QED
    BY <2>1, <2>2, SocketsAreConnections
<1>2. CASE Rests
  BY <1>2 DEF Rests
<1>3. CASE Drops
  <2>1. p' = p \/ Quiet(p')
    BY <1>3, NothingIsQuiet DEF Drops
  <2>2. /\ Ordered(p') /\ UpTo(p', n) /\ \A s \in Connections : Before(written[s], p')
    BY <2>1, QuietIsOrdered DEF InFlow
  <2>3. Quiet(queuedMessages') /\ UNCHANGED <<written, handed>>
    BY <1>3 DEF Drops
  <2> QED
    BY <2>2, <2>3, QuietIsOrdered DEF InFlow
<1>4. ASSUME NEW x \in Seq(Outgoing), Passes(x)
      PROVE  InFlow(written', queuedMessages', p', n')
  <2>1. Quiet(x) /\ Added(x) /\ p' = p /\ n' = n
    BY <1>4 DEF Passes
  <2>2. Ordered(x) /\ UpTo(x, n) /\ Before(x, p) /\ Before(queuedMessages, x)
    BY <2>1, QuietIsOrdered
  <2>3. \A t \in Connections : Before(written[t], x)
    BY <2>1, QuietIsOrdered
  <2>4. /\ n <= n /\ Ordered(p) /\ UpTo(p, n) /\ Before(queuedMessages, p) /\ UpTo(queuedMessages, n)
        /\ \A t \in Connections : UpTo(written[t], n) /\ Before(written[t], p)
    BY <1>1 DEF InFlow
  <2>5. InFlow(written', queuedMessages', p, n)
    BY <1>1, <2>1, <2>2, <2>3, <2>4, AddedFlows
  <2> QED
    BY <2>1, <2>5
<1>5. ASSUME NEW x \in Seq(Outgoing), Releases(x)
      PROVE  InFlow(written', queuedMessages', p', n')
  <2>1. Quiet(x) /\ Added(x \o p) /\ p' = <<>> /\ n' = n
    BY <1>5 DEF Releases
  <2>2. Ordered(x) /\ UpTo(x, n) /\ Before(x, p) /\ Before(queuedMessages, x)
    BY <2>1, QuietIsOrdered
  <2>3. \A t \in Connections : Before(written[t], x)
    BY <2>1, QuietIsOrdered
  <2>4. /\ x \o p \in Seq(Outgoing)
        /\ Ordered(x \o p) /\ UpTo(x \o p, n) /\ Before(queuedMessages, x \o p)
        /\ \A t \in Connections : Before(written[t], x \o p)
    BY <1>1, <2>2, <2>3, ConcatFlows, ConcatProperties DEF InFlow
  <2>5. /\ Ordered(p') /\ UpTo(p', n) /\ Before(x \o p, p') /\ Before(queuedMessages, p')
        /\ \A t \in Connections : Before(written[t], p')
    BY <2>1, NothingIsQuiet, QuietIsOrdered
  <2>6. n <= n /\ UpTo(queuedMessages, n) /\ \A t \in Connections : UpTo(written[t], n)
    BY <1>1 DEF InFlow
  <2>7. InFlow(written', queuedMessages', p', n)
    BY <1>1, <2>1, <2>4, <2>5, <2>6, AddedFlows
  <2> QED
    BY <2>1, <2>7
<1>6. ASSUME NEW m \in Realtime, Takes(m)
      PROVE  InFlow(written', queuedMessages', p', n')
  <2>1. m.id = n + 1 /\ n' = n + 1
    BY <1>6 DEF Takes
  <2>2. /\ <<m>> \in Seq(Outgoing) /\ Ordered(<<m>>) /\ UpTo(<<m>>, n + 1)
        /\ \A s \in Seq(Outgoing) : UpTo(s, n) => Before(s, <<m>>) /\ UpTo(s, n + 1)
    <3>1. m \in Outgoing
      BY DEF Realtime
    <3> QED
      BY <1>1, <2>1, <3>1, NextIsLast
  <2>3. /\ Before(queuedMessages, <<m>>) /\ UpTo(queuedMessages, n + 1)
        /\ Before(p, <<m>>) /\ UpTo(p, n + 1)
        /\ \A t \in Connections : Before(written[t], <<m>>) /\ UpTo(written[t], n + 1)
    BY <1>1, <2>2 DEF InFlow
  <2>4. CASE p' = Append(p, m) /\ UNCHANGED <<written, queuedMessages>>
    <3>1. p' = p \o <<m>>
      BY <1>1, <2>2, <2>4, AppendIsConcat DEF Realtime
    <3>2. /\ Ordered(p \o <<m>>) /\ UpTo(p \o <<m>>, n + 1) /\ Before(queuedMessages, p \o <<m>>)
          /\ \A t \in Connections : Before(written[t], p \o <<m>>)
      BY <1>1, <2>2, <2>3, ConcatFlows DEF InFlow
    <3> QED
      BY <2>1, <2>3, <2>4, <3>1, <3>2 DEF InFlow
  <2>5. CASE p = <<>> /\ Added(<<m>>) /\ UNCHANGED pendingRealtimeMessages
    <3>1. Quiet(p) /\ p' = p
      BY <2>5, NothingIsQuiet
    <3>2. Ordered(p) /\ UpTo(p, n + 1) /\ Before(<<m>>, p) /\ Before(queuedMessages, p)
      BY <3>1, QuietIsOrdered
    <3>3. \A t \in Connections : Before(written[t], p)
      BY <3>1, QuietIsOrdered
    <3>4. n <= n + 1 /\ n + 1 \in Nat
      BY <1>1
    <3>5. InFlow(written', queuedMessages', p, n + 1)
      BY <1>1, <2>2, <2>3, <2>5, <3>2, <3>3, <3>4, AddedFlows
    <3> QED
      BY <2>1, <3>1, <3>5
  <2> QED
    BY <1>6, <2>4, <2>5 DEF Takes
<1>7. ASSUME NEW s \in Connections, Flushes(s)
      PROVE  InFlow(written', queuedMessages', p', n')
  <2>1. /\ Newest(s) /\ written' = [written EXCEPT ![s] = @ \o queuedMessages]
        /\ queuedMessages' = <<>> /\ p' = p /\ n' = n
    BY <1>7 DEF Flushes
  <2>2. Quiet(queuedMessages')
    BY <2>1, NothingIsQuiet
  <2>3. /\ Before(queuedMessages, queuedMessages') /\ Ordered(queuedMessages')
        /\ UpTo(queuedMessages', n) /\ Before(queuedMessages', p)
    BY <2>2, QuietIsOrdered
  <2>4. \A t \in Connections : Before(written[t], queuedMessages')
    BY <2>2, QuietIsOrdered
  <2>5. /\ n <= n /\ Ordered(p) /\ UpTo(p, n) /\ Before(queuedMessages, p)
        /\ Ordered(queuedMessages) /\ UpTo(queuedMessages, n)
        /\ \A t \in Connections : /\ UpTo(written[t], n) /\ Before(written[t], p)
                                 /\ Before(written[t], queuedMessages)
    BY <1>1 DEF InFlow
  <2>6. InFlow([written EXCEPT ![s] = @ \o queuedMessages], queuedMessages', p, n)
    BY <1>1, <2>1, <2>3, <2>4, <2>5, ToSocketFlows
  <2> QED
    BY <2>1, <2>6
<1> QED
  BY <1>2, <1>3, <1>4, <1>5, <1>6, <1>7 DEF FlowStep

(* The same said of the lanes by their numbers. *)
LaneOf(w, q, p, l) == IF l \in Connections THEN w[l] ELSE IF l = MaxSockets + 1 THEN q ELSE p

InLanes(w, q, p, n) ==
  /\ \A l \in Lanes : Ordered(LaneOf(w, q, p, l)) /\ UpTo(LaneOf(w, q, p, l), n)
  /\ \A l, m \in Lanes : l < m => Before(LaneOf(w, q, p, l), LaneOf(w, q, p, m))

LEMMA LanesOfFlow ==
  ASSUME NEW w, NEW q, NEW p, NEW n
  PROVE  InFlow(w, q, p, n) <=> InLanes(w, q, p, n)
<1> DEFINE L(l) == LaneOf(w, q, p, l)
<1>1. /\ MaxSockets \in Nat /\ Connections \subseteq Nat /\ Connections \subseteq Lanes
      /\ \A l \in Lanes : l \in Connections \/ l = MaxSockets + 1 \/ l = MaxSockets + 2
      /\ MaxSockets + 1 \in Lanes /\ MaxSockets + 2 \in Lanes
      /\ MaxSockets + 1 \notin Connections /\ MaxSockets + 2 \notin Connections
      /\ MaxSockets + 1 # MaxSockets + 2 /\ MaxSockets + 1 < MaxSockets + 2
      /\ \A s \in Connections : s < MaxSockets + 1 /\ s < MaxSockets + 2
  BY ControllerAssumption DEF Connections, Lanes
<1>2. L(MaxSockets + 1) = q /\ L(MaxSockets + 2) = p /\ \A s \in Connections : L(s) = w[s]
  BY <1>1 DEF LaneOf
<1>3. ASSUME InFlow(w, q, p, n) PROVE InLanes(w, q, p, n)
  <2>1. \A l \in Lanes : Ordered(L(l)) /\ UpTo(L(l), n)
    BY <1>1, <1>2, <1>3 DEF InFlow
  <2>2. ASSUME NEW l \in Lanes, NEW m \in Lanes, l < m PROVE Before(L(l), L(m))
    <3>1. CASE l \in Connections
      BY <1>1, <1>2, <1>3, <2>2, <3>1 DEF InFlow
    <3>2. CASE l \notin Connections
      <4>1. l = MaxSockets + 1 /\ m = MaxSockets + 2
        BY <2>2, <3>2, ControllerAssumption DEF Connections, Lanes
      <4> QED
        BY <1>2, <1>3, <4>1 DEF InFlow
    <3> QED
      BY <3>1, <3>2
  <2> QED
    BY <2>1, <2>2 DEF InLanes
<1>4. ASSUME InLanes(w, q, p, n) PROVE InFlow(w, q, p, n)
  <2>1. \A s \in Connections : /\ Ordered(w[s]) /\ UpTo(w[s], n)
                               /\ Before(w[s], q) /\ Before(w[s], p)
    BY <1>1, <1>2, <1>4 DEF InLanes
  <2>2. \A s, t \in Connections : s < t => Before(w[s], w[t])
    BY <1>1, <1>2, <1>4 DEF InLanes
  <2>3. Ordered(q) /\ UpTo(q, n) /\ Before(q, p) /\ Ordered(p) /\ UpTo(p, n)
    BY <1>1, <1>2, <1>4 DEF InLanes
  <2> QED
    BY <2>1, <2>2, <2>3 DEF InFlow
<1> QED
  BY <1>3, <1>4

LEMMA FlowIsOrder ==
  RealtimeInOrder /\ NumbersAreUsed
    <=> InFlow(written, queuedMessages, pendingRealtimeMessages, handed)
<1>1. RealtimeInOrder /\ NumbersAreUsed
        <=> InLanes(written, queuedMessages, pendingRealtimeMessages, handed)
  BY ControllerAssumption
     DEF RealtimeInOrder, NumbersAreUsed, InLanes, Lane, LaneOf, Ordered, UpTo, Before, Lanes
<1> QED
  BY <1>1, LanesOfFlow

LEMMA FlowIsOrderNext ==
  (RealtimeInOrder /\ NumbersAreUsed)'
    <=> InFlow(written', queuedMessages', pendingRealtimeMessages', handed')
<1>1. (RealtimeInOrder /\ NumbersAreUsed)'
        <=> InLanes(written', queuedMessages', pendingRealtimeMessages', handed')
  BY ControllerAssumption
     DEF RealtimeInOrder, NumbersAreUsed, InLanes, Lane, LaneOf, Ordered, UpTo, Before, Lanes
<1> QED
  BY <1>1, LanesOfFlow

(***************************************************************************)
(* The theorems.                                                           *)
(***************************************************************************)
LEMMA LinkInvNext == TypeOK /\ Client!LinkInv /\ [Next]_vars => Client!LinkInv'
<1> SUFFICES ASSUME TypeOK, Client!LinkInv, [Next]_vars PROVE Client!LinkInv'
  OBVIOUS
<1>1. ClientMove
  BY ControllerMovesClient DEF vars, ClientMove, ClientOperation, ClientThrows
<1> QED
  BY <1>1, ClientKeepsLink

LEMMA TypeOKNext == TypeOK /\ Client!LinkInv /\ [Next]_vars => TypeOK'
<1> SUFFICES ASSUME TypeOK, Client!LinkInv, [Next]_vars PROVE TypeOK'
  OBVIOUS
<1>1. Client!TypeOK'
  BY LinkInvNext DEF Client!LinkInv
<1>2. SessionOK' /\ HeldBackOK' /\ BoardOK' /\ RelayOK'
  BY SessionOKNext, HeldBackOKNext, BoardOKNext, RelayOKNext
<1> QED
  BY <1>1, <1>2 DEF TypeOK, SessionOK, HeldBackOK, BoardOK, RelayOK, Realtime

LEMMA SyncInvInit == Init => SyncInv /\ RealtimeInOrder
<1> SUFFICES ASSUME Init PROVE SyncInv /\ RealtimeInOrder
  OBVIOUS
<1> USE DEF Client!NoSocket, Client!Sockets, Connections, NoSession
<1>1. /\ socketUrl = NoUrl /\ socket = 0 /\ reconnectTimer = FALSE /\ queuedMessages = <<>>
      /\ manualDisconnect = FALSE /\ status = "idle"
      /\ readyState = [s \in Connections |-> "none"] /\ written = [s \in Connections |-> <<>>]
  BY DEF Init, Client!Init
<1>2. Connections \subseteq Int /\ 0 \notin Connections
  BY ControllerAssumption
<1>3. Client!TypeOK
  BY <1>1, <1>2, EmptySeq DEF Client!TypeOK, Client!Statuses, Client!ReadyStates
<1>4. Client!LinkInv
  BY <1>1, <1>2, <1>3 DEF Client!LinkInv, Client!CurrentIsWanted, Client!OneLiveSocket,
     Client!TimerIsNeeded, Client!NothingWaitsWhileOpen, Client!StatusIsTrue, Client!IsOpen,
     Client!Accepts
<1>5. TypeOK
  <2>1. SessionOK
    BY DEF Init, SessionOK, Phases
  <2>2. HeldBackOK
    BY EmptySeq, ControllerAssumption DEF Init, HeldBackOK
  <2>3. BoardOK
    <3>1. DOMAIN stored = {}
      BY DEF Init
    <3> QED
      BY <3>1 DEF Init, BoardOK
  <2>4. RelayOK
    BY EmptySeq DEF Init, RelayOK
  <2> QED
    BY <1>3, <2>1, <2>2, <2>3, <2>4, TypeInParts
<1>6. SocketsInOrder
  BY <1>1, <1>2 DEF Init, SocketsInOrder
<1>7. RepliesAreTrue
  BY DEF Init, RepliesAreTrue
<1>8. ReadyIsWhole /\ HandshakeIsAnswered /\ OpenGuestHasSession
  BY <1>1 DEF Init, ReadyIsWhole, HandshakeIsAnswered, OpenGuestHasSession
<1>9. RealtimeInOrder /\ NumbersAreUsed
  <2>1. Quiet(queuedMessages) /\ Quiet(pendingRealtimeMessages)
        /\ \A s \in Connections : Quiet(written[s])
    BY <1>1, NothingIsQuiet DEF Init
  <2>2. InFlow(written, queuedMessages, pendingRealtimeMessages, handed)
    BY <2>1, QuietIsOrdered DEF InFlow
  <2> QED
    BY <2>2, FlowIsOrder
<1> QED
  BY <1>4, <1>5, <1>6, <1>7, <1>8, <1>9 DEF SyncInv

LEMMA SyncInvNext == SyncInv /\ RealtimeInOrder /\ [Next]_vars => SyncInv' /\ RealtimeInOrder'
<1> SUFFICES ASSUME SyncInv, RealtimeInOrder, [Next]_vars PROVE SyncInv' /\ RealtimeInOrder'
  OBVIOUS
<1>1. /\ TypeOK /\ Client!LinkInv /\ SocketsInOrder /\ RepliesAreTrue /\ ReadyIsWhole
      /\ HandshakeIsAnswered /\ OpenGuestHasSession /\ NumbersAreUsed
  BY DEF SyncInv
<1>2. TypeOK' /\ Client!LinkInv'
  BY <1>1, TypeOKNext, LinkInvNext
<1>3. SocketsInOrder' /\ RepliesAreTrue' /\ ReadyIsWhole'
  BY <1>1, SocketsInOrderNext, RepliesAreTrueNext, ReadyIsWholeNext
<1>4. HandshakeIsAnswered' /\ OpenGuestHasSession'
  BY <1>1, HandshakeIsAnsweredNext, OpenGuestHasSessionNext
<1>5. RealtimeInOrder' /\ NumbersAreUsed'
  <2>1. FlowStep /\ InFlow(written, queuedMessages, pendingRealtimeMessages, handed)
    BY <1>1, Flows, FlowIsOrder
  <2>2. InFlow(written', queuedMessages', pendingRealtimeMessages', handed')
    BY <1>1, <1>2, <2>1, FlowStepKeepsOrder
  <2> QED
    BY <2>2, FlowIsOrderNext
<1> QED
  BY <1>2, <1>3, <1>4, <1>5 DEF SyncInv

LEMMA SyncInvAlways == Spec => [](SyncInv /\ RealtimeInOrder)
<1>1. Init => SyncInv /\ RealtimeInOrder
  BY SyncInvInit
<1>2. (SyncInv /\ RealtimeInOrder) /\ [Next]_vars => (SyncInv /\ RealtimeInOrder)'
  BY SyncInvNext
<1> QED
  BY <1>1, <1>2, PTL DEF Spec

\* The session the controller believes in is the one of its connection: when it is
\* ready the relay has attached this connection in this role and nothing is held
\* back; a handshake that got through is answered; what the relay says is true.
THEOREM SessionIsTrue == Spec => []SyncInv
BY SyncInvAlways, PTL

\* A guest whose editing is open has on its board the snapshot the relay sent on
\* this connection (editingLocked, against reconnections, errors and sessions that
\* follow each other).
THEOREM GuestsEditTheSnapshot == Spec => []GuestEditsOnSnapshot
<1>1. SyncInv => GuestEditsOnSnapshot
  <2> SUFFICES ASSUME SyncInv, sessionIntent = "guest" /\ role = "guest" /\ Connected /\ ~editingLocked
               PROVE  attached = "guest" /\ SnapshotEdit \in shownBoard
    BY DEF GuestEditsOnSnapshot
  <2>1. Client!Accepts
    BY LinkFacts DEF SyncInv, Connected
  <2> QED
    BY <2>1 DEF SyncInv, OpenGuestHasSession
<1> QED
  BY <1>1, SyncInvAlways, PTL

\* Edits and presence updates reach the network in the order in which the user made
\* them and none twice, through pendingRealtimeMessages, the client's queue and
\* direct sends, on every connection.
THEOREM EditsLeaveInOrder == Spec => []RealtimeInOrder
BY SyncInvAlways, PTL

(* A message under way is in one of the lanes; what a client is given stays in
   them. *)
Has(w, q, p, m) == (\E s \in Connections : m \in ToSet(w[s])) \/ m \in ToSet(q) \/ m \in ToSet(p)

LEMMA LaneHas ==
  /\ \A m : m \in UnderWay
            <=> m \in Realtime /\ Has(written, queuedMessages, pendingRealtimeMessages, m)
  /\ \A m : m \in UnderWay'
            <=> m \in Realtime /\ Has(written', queuedMessages', pendingRealtimeMessages', m)
<1>1. /\ Connections \subseteq Lanes /\ \A l \in Lanes : l \in Connections \/ l = MaxSockets + 1 \/ l = MaxSockets + 2
      /\ MaxSockets + 1 \in Lanes /\ MaxSockets + 2 \in Lanes
      /\ MaxSockets + 1 \notin Connections /\ MaxSockets + 2 \notin Connections
      /\ MaxSockets + 1 # MaxSockets + 2
  BY ControllerAssumption DEF Connections, Lanes
<1>2. ASSUME NEW m
      PROVE  (\E l \in Lanes : m \in ToSet(Lane(l)))
               <=> Has(written, queuedMessages, pendingRealtimeMessages, m)
  BY <1>1 DEF Has, Lane
<1>3. ASSUME NEW m
      PROVE  (\E l \in Lanes : m \in ToSet(Lane(l)))'
               <=> Has(written', queuedMessages', pendingRealtimeMessages', m)
  BY <1>1 DEF Has, Lane
<1> QED
  BY <1>2, <1>3 DEF UnderWay, Realtime

LEMMA ToSetOfConcat ==
  ASSUME NEW s \in Seq(Outgoing), NEW t \in Seq(Outgoing)
  PROVE  ToSet(s) \subseteq ToSet(s \o t) /\ ToSet(t) \subseteq ToSet(s \o t)
<1>1. /\ Len(s) \in Nat /\ Len(t) \in Nat /\ Len(s \o t) = Len(s) + Len(t)
      /\ DOMAIN s = 1..Len(s) /\ DOMAIN t = 1..Len(t) /\ DOMAIN (s \o t) = 1..Len(s \o t)
  BY ConcatProperties, LenProperties
<1>2. ASSUME NEW i \in 1..Len(s) PROVE i \in 1..Len(s \o t) /\ (s \o t)[i] = s[i]
  BY <1>1, ConcatProperties
<1>3. ASSUME NEW i \in 1..Len(t)
      PROVE  i + Len(s) \in 1..Len(s \o t) /\ (s \o t)[i + Len(s)] = t[i]
  BY <1>1, ConcatProperties
<1> QED
  BY <1>1, <1>2, <1>3 DEF ToSet

LEMMA AddedStays ==
  ASSUME written \in [Connections -> Seq(Outgoing)], queuedMessages \in Seq(Outgoing),
         NEW x \in Seq(Outgoing), Added(x), NEW p, NEW m,
         Has(written, queuedMessages, <<>>, m) \/ m \in ToSet(x)
  PROVE  Has(written', queuedMessages', p, m)
<1>1. CASE /\ Newest(socket) /\ queuedMessages = <<>>
           /\ written' = [written EXCEPT ![socket] = @ \o x]
           /\ UNCHANGED queuedMessages
  <2>1. socket \in Connections /\ written[socket] \in Seq(Outgoing)
    BY <1>1 DEF Newest
  <2>2. /\ written'[socket] = written[socket] \o x
        /\ \A t \in Connections \ {socket} : written'[t] = written[t]
    BY <1>1, <2>1
  <2>3. ToSet(<<>>) = {}
    BY DEF ToSet
  <2> QED
    BY <1>1, <2>1, <2>2, <2>3, ToSetOfConcat DEF Has
<1>2. CASE UNCHANGED written /\ queuedMessages' = queuedMessages \o x
  <2>1. ToSet(<<>>) = {}
    BY DEF ToSet
  <2> QED
    BY <1>2, <2>1, ToSetOfConcat DEF Has
<1> QED
  BY <1>1, <1>2 DEF Added

LEMMA FlowStepKeepsAll ==
  ASSUME TypeOK, FlowStep, calls' = calls, NEW m,
         Has(written, queuedMessages, pendingRealtimeMessages, m)
  PROVE  Has(written', queuedMessages', pendingRealtimeMessages', m)
<1> DEFINE p == pendingRealtimeMessages
<1>1. /\ written \in [Connections -> Seq(Outgoing)] /\ queuedMessages \in Seq(Outgoing)
      /\ p \in Seq(Outgoing)
  <2>1. Client!TypeOK /\ p \in Seq(Outgoing)
    BY PendingAreOutgoing DEF TypeOK
  <2> QED
    BY <2>1, SocketsAreConnections
<1>2. Has(written, queuedMessages, <<>>, m) \/ m \in ToSet(p)
  BY DEF Has
<1>3. CASE Rests
  BY <1>3 DEF Rests
<1>4. ASSUME NEW x \in Seq(Outgoing), Passes(x)
      PROVE  Has(written', queuedMessages', p', m)
  <2>1. Added(x) /\ p' = p
    BY <1>4 DEF Passes
  <2>2. CASE m \in ToSet(p)
    BY <2>1, <2>2 DEF Has
  <2> QED
    BY <1>1, <1>2, <2>1, <2>2, AddedStays
<1>5. ASSUME NEW x \in Seq(Outgoing), Releases(x)
      PROVE  Has(written', queuedMessages', p', m)
  <2>1. Added(x \o p)
    BY <1>5 DEF Releases
  <2>2. x \o p \in Seq(Outgoing) /\ ToSet(p) \subseteq ToSet(x \o p)
    BY <1>1, ConcatProperties, ToSetOfConcat
  <2> QED
    BY <1>1, <1>2, <2>1, <2>2, AddedStays
<1>6. ASSUME NEW n \in Realtime, Takes(n)
      PROVE  Has(written', queuedMessages', p', m)
  <2>1. n \in Outgoing /\ <<n>> \in Seq(Outgoing)
    BY DEF Realtime
  <2>2. CASE p' = Append(p, n) /\ UNCHANGED <<written, queuedMessages>>
    <3>1. p' = p \o <<n>>
      BY <1>1, <2>1, <2>2, AppendIsConcat
    <3> QED
      BY <1>1, <2>1, <2>2, <3>1, ToSetOfConcat DEF Has
  <2>3. CASE p = <<>> /\ Added(<<n>>)
    BY <1>1, <2>1, <2>3, AddedStays
  <2> QED
    BY <1>6, <2>2, <2>3 DEF Takes
<1>7. ASSUME NEW s \in Connections, Flushes(s)
      PROVE  Has(written', queuedMessages', p', m)
  <2>1. written' = [written EXCEPT ![s] = @ \o queuedMessages] /\ p' = p
    BY <1>7 DEF Flushes
  <2>2. /\ written[s] \in Seq(Outgoing) /\ written'[s] = written[s] \o queuedMessages
        /\ \A t \in Connections \ {s} : written'[t] = written[t]
    BY <1>1, <2>1
  <2> QED
    BY <1>1, <2>1, <2>2, ToSetOfConcat DEF Has
<1> QED
  BY <1>3, <1>4, <1>5, <1>6, <1>7 DEF FlowStep, Drops

\* An edit or a presence update that was accepted stays with the controller, its
\* client or a socket, unless the user disconnects or connects again: held back,
\* flushed, queued, over any number of lost connections and writes that throw.
THEOREM AcceptedEditsAreKept == Spec => AcceptedIsKept
<1>1. SyncInv /\ [Next]_vars => [calls' = calls => UnderWay \subseteq UnderWay']_vars
  <2> SUFFICES ASSUME SyncInv, [Next]_vars, calls' = calls, NEW m, m \in UnderWay
               PROVE  m \in UnderWay'
    OBVIOUS
  <2>1. TypeOK /\ FlowStep
    BY Flows DEF SyncInv
  <2>2. m \in Realtime /\ Has(written, queuedMessages, pendingRealtimeMessages, m)
    BY LaneHas
  <2>3. Has(written', queuedMessages', pendingRealtimeMessages', m)
    BY <2>1, <2>2, FlowStepKeepsAll
  <2> QED
    BY <2>2, <2>3, LaneHas
<1> QED
  BY <1>1, SyncInvAlways, PTL DEF Spec, AcceptedIsKept

(***************************************************************************)
(* The owner's board.  It is read back from storage when a session is      *)
(* created again, so until then it must be in storage as it is shown, under *)
(* the board of the session before.                                        *)
(***************************************************************************)
IsAnswer(reply) == reply.type \in {"session.created", "session.joined"}

RoleHasSession == role # "none" => session # NoSession

LinkedIsConnected == Linked => Connected

\* The relay attaches an owner's connection once.
OneCreation ==
  \A i, j \in 1..Len(replies) :
    replies[i].type = "session.created" /\ replies[j].type = "session.created" => i = j

\* The owner's session is the one that the relay attached to its connection.
OwnerIsAttached ==
  role = "owner" /\ socket # 0 /\ session = socket
    => attached = "owner" /\ \A i \in 1..Len(replies) : replies[i].type # "session.created"

\* An owner that is coming back.
OwnerReturns ==
  /\ sessionIntent = "owner" /\ role = "owner" /\ ownerBoardIdBeforeReconnect # NoSession
  /\ Client!Accepts /\ session # socket

\* It hears of its new session before it hears of any edit.
AnswerComesFirst ==
  OwnerReturns =>
    /\ attached # "none" => \E j \in 1..Len(replies) : IsAnswer(replies[j])
    /\ \A i \in 1..Len(replies) :
         replies[i].type = "board.action" => \E j \in 1..Len(replies) : j < i /\ IsAnswer(replies[j])

BoardIsStored ==
  OwnerReturns =>
    /\ ownerBoardIdBeforeReconnect = session
    /\ session \in DOMAIN stored /\ shownBoard \subseteq stored[session]

OwnerInv ==
  /\ RoleHasSession /\ LinkedIsConnected /\ OneCreation /\ OwnerIsAttached
  /\ AnswerComesFirst /\ BoardIsStored

LEMMA SessionSteps ==
  [Next]_vars => \/ UNCHANGED <<role, session>>
                 \/ ReceiveSessionCreated /\ role' = "owner" /\ session' = socket
                 \/ ReceiveSessionJoined /\ role' = "guest" /\ session' = socket
<1> SUFFICES ASSUME [Next]_vars
             PROVE  \/ UNCHANGED <<role, session>>
                    \/ ReceiveSessionCreated /\ role' = "owner" /\ session' = socket
                    \/ ReceiveSessionJoined /\ role' = "guest" /\ session' = socket
  OBVIOUS
<1>1. CASE ReceiveSteps
  BY <1>1 DEF ReceiveSteps, ReceiveSessionCreated, ReceiveSessionJoined, ReceiveJoinRejected,
     ReceiveSnapshotRequest, ReceiveSnapshot, ReceiveSnapshotAck, ReceiveBoardAction, ReceiveError,
     sessionVars
<1>2. CASE \/ UNCHANGED vars \/ ConnectOwnerSession \/ ConnectGuestSession \/ Disconnect
           \/ SendBoardAction \/ SendPresenceUpdate \/ SocketOpens \/ SocketCloses
           \/ StorageThrows \/ TimerFires \/ SocketCloseBegins \/ StaleCloses
           \/ RelayAttaches \/ RelayServes \/ RelayResolvesJoin \/ RelayPushes
  BY <1>2 DEF vars, sessionVars, ConnectOwnerSession, ConnectGuestSession, Dial, Disconnect,
     SendBoardAction, SendPresenceUpdate, HandOver, SocketOpens, SocketCloses, StorageThrows,
     TimerFires, SocketCloseBegins, StaleCloses, RelayAttaches, RelayServes, RelayResolvesJoin,
     RelayPushes, RelayReads, RelayStep
<1> QED
  BY <1>1, <1>2 DEF Next

(* What a step does to the relay's side of the connection. *)
Hears ==
  /\ UNCHANGED <<attached, socket>>
  /\ \E type : /\ Received(type)
               /\ type = "session.joined" => session' = socket
               /\ type = "session.created" /\ sessionIntent = "owner" => session' = socket

IsTold(m) ==
  /\ RelayStep /\ Reply(m)
  /\ m.type = "session.created" => attached = "none" /\ attached' = "owner"
  /\ attached = "owner" => attached' = "owner"
  /\ attached = "none" /\ attached' # "none" => IsAnswer(m)
  /\ m.type = "board.action" => attached # "none"

RelayMoves ==
  \/ NewConnection /\ (socket' = 0 \/ readyState[socket'] = "none")
  \/ UNCHANGED <<attached, replies>>
  \/ Hears
  \/ \E m \in Incoming : IsTold(m)

LEMMA RelayMovesNext == TypeOK /\ [Next]_vars => RelayMoves
<1> SUFFICES ASSUME TypeOK, [Next]_vars PROVE RelayMoves
  OBVIOUS
<1> USE DEF RelayMoves, Client!NoSocket
<1>1. CASE ConnectOwnerSession \/ ConnectGuestSession
  <2>1. CASE NewConnection /\ ~Client!AlreadyConnecting(RelayUrl)
    <3>1. PICK m \in {Create, Join} : Client!Connect(RelayUrl, <<m>>)
      BY <1>1 DEF ConnectOwnerSession, ConnectGuestSession, Dial
    <3>2. \E s \in Client!Sockets : Client!IsNew(s) /\ socket' = s
      BY <2>1, <3>1 DEF Client!Connect, Client!OpenAnew
    <3> QED
      BY <2>1, <3>2 DEF Client!IsNew
  <2> QED
    BY <1>1, <2>1 DEF ConnectOwnerSession, ConnectGuestSession, Dial, relayVars
<1>2. CASE Disconnect \/ SocketCloses \/ StorageThrows
  BY <1>2 DEF Disconnect, Client!Disconnect, Client!LetGo, SocketCloses, Client!CurrentCloses,
     StorageThrows, Client!CallbackThrows
<1>3. CASE \/ UNCHANGED vars \/ SendBoardAction \/ SendPresenceUpdate \/ SocketOpens
           \/ TimerFires \/ SocketCloseBegins \/ StaleCloses
  BY <1>3 DEF vars, relayVars, SendBoardAction, SendPresenceUpdate, HandOver, SocketOpens,
     TimerFires, SocketCloseBegins, StaleCloses
<1>4. CASE ReceiveSteps
  <2>1. UNCHANGED <<attached, socket>>
    BY <1>4 DEF ReceiveSteps, ReceiveSessionCreated, ReceiveSessionJoined, ReceiveJoinRejected,
       ReceiveSnapshotRequest, ReceiveSnapshot, ReceiveSnapshotAck, ReceiveBoardAction, ReceiveError,
       Received, SendAndFlush, RestoreThrows, Client!Send, clientVars
  <2>2. CASE ReceiveSessionCreated
    BY <2>1, <2>2 DEF ReceiveSessionCreated, Hears
  <2>3. CASE ReceiveSessionJoined
    BY <2>1, <2>3 DEF ReceiveSessionJoined, Hears
  <2>4. CASE \/ ReceiveJoinRejected \/ ReceiveSnapshotRequest \/ ReceiveSnapshot
             \/ ReceiveSnapshotAck \/ ReceiveBoardAction \/ ReceiveError
    <3>1. \E type \in {"session.join_rejected", "board.snapshot.request", "board.snapshot",
                       "board.snapshot.ack", "board.action", "error", "snapshot_timeout"} :
            Received(type)
      BY <2>4 DEF ReceiveJoinRejected, ReceiveSnapshotRequest, ReceiveSnapshot,
         ReceiveSnapshotAck, ReceiveBoardAction, ReceiveError
    <3> QED
      BY <2>1, <3>1 DEF Hears
  <2> QED
    BY <1>4, <2>2, <2>3, <2>4 DEF ReceiveSteps
<1> USE DEF IsTold, IsAnswer, Msg
<1>5. CASE RelayAttaches
  <2>1. RelayStep
    BY <1>5 DEF RelayAttaches, RelayReads
  <2>2. PICK type \in {"session.created", "session.joined", "error", "session.join_rejected"} :
          /\ Reply(Msg(type, 0)) /\ attached = "none"
          /\ type = "session.created" => attached' = "owner"
          /\ attached' # "none" => type \in {"session.created", "session.joined"}
    BY <1>5 DEF RelayAttaches, Create, Join
  <2>3. Msg(type, 0) \in Incoming
    BY KindsOfReplies
  <2>4. IsTold(Msg(type, 0))
    BY <2>1, <2>2
  <2> QED
    BY <2>3, <2>4
<1>6. CASE RelayServes
  <2>1. RelayStep /\ UNCHANGED attached
    BY <1>6 DEF RelayServes, RelayReads
  <2>2. CASE UNCHANGED replies
    BY <2>1, <2>2
  <2>3. CASE Reply(Msg("error", 0))
    <3>1. IsTold(Msg("error", 0))
      BY <2>1, <2>3
    <3> QED
      BY <3>1, KindsOfReplies
  <2> QED
    BY <1>6, <2>2, <2>3 DEF RelayServes
<1>7. CASE RelayResolvesJoin
  <2>1. PICK type \in {"board.snapshot", "snapshot_timeout"} :
          RelayStep /\ attached = "waiting" /\ Reply(Msg(type, 0))
    BY <1>7 DEF RelayResolvesJoin
  <2>2. IsTold(Msg(type, 0))
    BY <2>1
  <2> QED
    BY <2>2, KindsOfReplies
<1>8. CASE RelayPushes
  <2>1. RelayStep /\ UNCHANGED attached /\ attached # "none"
    BY <1>8 DEF RelayPushes
  <2>2. CASE \E g \in Guests : \/ Reply(Msg("board.snapshot.ack", g))
                               \/ Reply(Msg("board.snapshot.request", g))
    <3>1. PICK g \in Guests, type \in {"board.snapshot.ack", "board.snapshot.request"} :
            Reply(Msg(type, g))
      BY <2>2
    <3>2. IsTold(Msg(type, g))
      BY <2>1, <3>1
    <3> QED
      BY <3>2, KindsOfReplies
  <2>3. CASE Reply(Msg("board.action", RemoteEdit))
    <3>1. IsTold(Msg("board.action", RemoteEdit))
      BY <2>1, <2>3
    <3> QED
      BY <3>1, KindsOfReplies
  <2> QED
    BY <1>8, <2>2, <2>3 DEF RelayPushes
<1> QED
  BY <1>1, <1>2, <1>3, <1>4, <1>5, <1>6, <1>7, <1>8 DEF Next

\* Shifting what is left when the first has been read; adding one at the end.
LEMMA HeardOrTold ==
  ASSUME TypeOK
  PROVE  /\ Hears => /\ Len(replies) \in Nat /\ 1 \in 1..Len(replies)
                     /\ Len(replies') = Len(replies) - 1
                     /\ \A i \in 1..Len(replies') : i + 1 \in 1..Len(replies) /\ replies'[i] = replies[i + 1]
         /\ \A m \in Incoming : IsTold(m) =>
              /\ Len(replies) \in Nat /\ Len(replies') = Len(replies) + 1
              /\ replies'[Len(replies) + 1] = m
              /\ \A i \in 1..Len(replies) : replies'[i] = replies[i]
<1>1. replies \in Seq(Incoming)
  BY DEF TypeOK
<1>2. ASSUME Hears
      PROVE  /\ Len(replies) \in Nat /\ 1 \in 1..Len(replies) /\ Len(replies') = Len(replies) - 1
             /\ \A i \in 1..Len(replies') : i + 1 \in 1..Len(replies) /\ replies'[i] = replies[i + 1]
  BY <1>1, <1>2, ReadsTheFirst DEF Hears
<1>3. ASSUME NEW m \in Incoming, IsTold(m)
      PROVE  /\ Len(replies) \in Nat /\ Len(replies') = Len(replies) + 1
             /\ replies'[Len(replies) + 1] = m
             /\ \A i \in 1..Len(replies) : replies'[i] = replies[i]
  <2>1. replies' = Append(replies, m)
    BY <1>3 DEF IsTold, Reply
  <2> QED
    BY <1>1, <2>1, AppendProperties, LenProperties
<1> QED
  BY <1>2, <1>3

LEMMA RoleHasSessionNext == TypeOK /\ RoleHasSession /\ [Next]_vars => RoleHasSession'
BY SessionSteps DEF RoleHasSession, ReceiveSessionCreated, ReceiveSessionJoined, Received,
   Client!NoSocket, NoSession

LEMMA LinkedIsConnectedNext ==
  TypeOK /\ Client!LinkInv /\ LinkedIsConnected /\ [Next]_vars => LinkedIsConnected'
<1> SUFFICES ASSUME TypeOK, Client!LinkInv, LinkedIsConnected, [Next]_vars, Linked'
             PROVE  Connected'
  BY DEF LinkedIsConnected
<1> USE DEF Client!NoSocket, Client!Sockets, Connections, Linked, Connected
<1>1. ClientMove
  BY ControllerMovesClient DEF vars, ClientMove, ClientOperation, ClientThrows
<1>2. /\ socket \in Connections \cup {0} /\ readyState \in [Connections -> Client!ReadyStates]
      /\ socket # 0 => Client!Accepts
      /\ socket # 0 /\ readyState[socket] = "open" => status = "connected"
  BY LinkFacts
<1>3. CASE UNCHANGED <<socket, readyState, status>>
  BY <1>3 DEF LinkedIsConnected
<1>4. CASE socket' = 0
  BY <1>4
<1>5. CASE \E messages \in Seq(Outgoing) : Client!OpenAnew(RelayUrl, messages)
  <2>1. PICK n \in Connections : socket' = n /\ readyState' = [Client!Abandoned EXCEPT ![n] = "connecting"]
    BY <1>5 DEF Client!OpenAnew
  <2>2. readyState'[n] = "connecting"
    BY <1>2, <2>1 DEF Client!Abandoned
  <2> QED
    BY <2>1, <2>2
<1>6. CASE Client!TimerFires
  <2>1. PICK n \in Connections : socket' = n /\ readyState' = [readyState EXCEPT ![n] = "connecting"]
    BY <1>6 DEF Client!TimerFires
  <2> QED
    BY <1>2, <2>1
<1>7. ASSUME NEW s \in Connections, Client!SocketOpens(s) PROVE Connected'
  <2>1. CASE socket = s
    <3>1. ~manualDisconnect
      BY <1>2, <2>1, ControllerAssumption DEF Client!Accepts
    <3> QED
      BY <1>7, <2>1, <3>1 DEF Client!SocketOpens
  <2>2. CASE socket # s
    BY <1>2, <1>7, <2>2 DEF Client!SocketOpens, LinkedIsConnected
  <2> QED
    BY <2>1, <2>2
<1>8. ASSUME NEW s \in Connections, Client!SocketCloseBegins(s) PROVE Connected'
  BY <1>2, <1>8 DEF Client!SocketCloseBegins, LinkedIsConnected
<1>9. ASSUME NEW s \in Connections, Client!StaleCloses(s) PROVE Connected'
  BY <1>2, <1>9 DEF Client!StaleCloses, LinkedIsConnected
<1> QED
  BY <1>1, <1>3, <1>4, <1>5, <1>6, <1>7, <1>8, <1>9 DEF ClientMove, ClientOperation, ClientThrows, clientVars, Client!Send,
     Client!Connect, Client!Disconnect, Client!LetGo, Client!CallbackThrows, Client!CurrentCloses

LEMMA OneCreationNext ==
  TypeOK /\ RepliesAreTrue /\ OneCreation /\ [Next]_vars => OneCreation'
<1> SUFFICES ASSUME TypeOK, RepliesAreTrue, OneCreation, [Next]_vars PROVE OneCreation'
  OBVIOUS
<1>1. CASE NewConnection
  <2>1. Len(replies') = 0
    BY <1>1 DEF NewConnection
  <2> QED
    BY <2>1 DEF OneCreation
<1>2. CASE UNCHANGED <<attached, replies>>
  BY <1>2 DEF OneCreation
<1>3. CASE Hears
  <2> SUFFICES ASSUME NEW i \in 1..Len(replies'), NEW j \in 1..Len(replies'),
                      replies'[i].type = "session.created", replies'[j].type = "session.created"
               PROVE  i = j
    BY DEF OneCreation
  <2>1. i + 1 = j + 1
    BY <1>3, HeardOrTold DEF OneCreation
  <2> QED
    BY <2>1
<1>4. ASSUME NEW m \in Incoming, IsTold(m) PROVE OneCreation'
  <2> SUFFICES ASSUME NEW i \in 1..Len(replies'), NEW j \in 1..Len(replies'),
                      replies'[i].type = "session.created", replies'[j].type = "session.created"
               PROVE  i = j
    BY DEF OneCreation
  <2>1. /\ Len(replies) \in Nat /\ Len(replies') = Len(replies) + 1
        /\ replies'[Len(replies) + 1] = m
        /\ \A k \in 1..Len(replies) : replies'[k] = replies[k]
    BY <1>4, HeardOrTold
  <2>2. CASE i \in 1..Len(replies) /\ j \in 1..Len(replies)
    BY <2>1, <2>2 DEF OneCreation
  <2>3. CASE i = Len(replies) + 1 /\ j = Len(replies) + 1
    BY <2>3
  <2>4. ASSUME NEW k \in 1..Len(replies), replies[k].type = "session.created",
               m.type = "session.created"
        PROVE  FALSE
    BY <1>4, <2>4 DEF IsTold, RepliesAreTrue
  <2> QED
    BY <2>1, <2>2, <2>3, <2>4
<1> QED
  BY <1>1, <1>2, <1>3, <1>4, RelayMovesNext DEF RelayMoves

LEMMA OwnerIsAttachedNext ==
  /\ TypeOK /\ Client!LinkInv /\ SocketsInOrder /\ RepliesAreTrue /\ OneCreation /\ OwnerIsAttached
  /\ [Next]_vars
  => OwnerIsAttached'
<1> SUFFICES ASSUME TypeOK, Client!LinkInv, SocketsInOrder, RepliesAreTrue, OneCreation,
                    OwnerIsAttached, [Next]_vars,
                    role' = "owner", socket' # 0, session' = socket'
             PROVE  /\ attached' = "owner"
                    /\ \A i \in 1..Len(replies') : replies'[i].type # "session.created"
  BY DEF OwnerIsAttached
<1>1. ClientMove
  BY ControllerMovesClient DEF vars, ClientMove, ClientOperation, ClientThrows
<1>2. socket # 0 => socket \in Connections /\ readyState[socket] # "none"
  BY LinkFacts
<1>3. ASSUME NEW n \in Connections, NewSocket(n) PROVE FALSE
  <2>1. readyState[n] = "none" /\ socket' = n
    BY <1>3 DEF NewSocket
  <2>2. session # n /\ socket # n
    BY <1>2, <1>3, <2>1 DEF SocketsInOrder
  <2> QED
    BY <2>1, <2>2, SessionMoves
<1>4. socket' = socket /\ readyState[socket'] # "none"
  BY <1>1, <1>2, <1>3, SocketsMove DEF SameSockets
<1>5. CASE UNCHANGED <<role, session>>
  <2>1. attached = "owner" /\ \A i \in 1..Len(replies) : replies[i].type # "session.created"
    BY <1>4, <1>5 DEF OwnerIsAttached
  <2>2. CASE UNCHANGED <<attached, replies>>
    BY <2>1, <2>2
  <2>3. CASE Hears
    BY <2>1, <2>3, HeardOrTold DEF Hears
  <2>4. ASSUME NEW m \in Incoming, IsTold(m)
        PROVE  /\ attached' = "owner"
               /\ \A i \in 1..Len(replies') : replies'[i].type # "session.created"
    <3>1. attached' = "owner" /\ m.type # "session.created"
      BY <2>1, <2>4 DEF IsTold
    <3>2. /\ Len(replies) \in Nat /\ Len(replies') = Len(replies) + 1
          /\ replies'[Len(replies) + 1] = m
          /\ \A k \in 1..Len(replies) : replies'[k] = replies[k]
      BY <2>4, HeardOrTold
    <3> QED
      BY <2>1, <3>1, <3>2
  <2> QED
    BY <1>4, <2>2, <2>3, <2>4, RelayMovesNext DEF RelayMoves
<1>6. CASE ReceiveSessionCreated
  <2>1. Received("session.created") /\ replies \in Seq(Incoming)
    BY <1>6 DEF ReceiveSessionCreated, TypeOK
  <2>2. attached = "owner" /\ UNCHANGED attached
    BY <2>1, AnswersAreTrue DEF Received
  <2>3. /\ Len(replies) \in Nat /\ 1 \in 1..Len(replies) /\ replies[1].type = "session.created"
        /\ \A i \in 1..Len(replies') : i + 1 \in 1..Len(replies) /\ replies'[i] = replies[i + 1]
        /\ Len(replies') = Len(replies) - 1
    BY <2>1, ReadsTheFirst
  <2>4. ASSUME NEW i \in 1..Len(replies'), replies'[i].type = "session.created" PROVE FALSE
    <3>1. i + 1 = 1
      BY <2>3, <2>4 DEF OneCreation
    <3> QED
      BY <2>3, <3>1
  <2> QED
    BY <2>2, <2>4
<1> QED
  BY <1>5, <1>6, SessionSteps

(* An owner that is coming back was coming back before, for the same board, or
   it has just lost its connection and stored the board. *)
StillReturns == OwnerReturns /\ UNCHANGED <<ownerBoardIdBeforeReconnect, session>>

HasStored ==
  /\ NewConnection /\ UNCHANGED shownBoard
  /\ ownerBoardIdBeforeReconnect' = session /\ session' = session
  /\ stored' = Stored(session, shownBoard)

LEMMA OwnerReturnsMoves ==
  /\ ~StorageFails
  /\ TypeOK /\ Client!LinkInv /\ RepliesAreTrue /\ HandshakeIsAnswered
  /\ RoleHasSession /\ LinkedIsConnected /\ OwnerIsAttached /\ [Next]_vars
  => (OwnerReturns' => StillReturns \/ HasStored)
<1> SUFFICES ASSUME ~StorageFails, TypeOK, Client!LinkInv, RepliesAreTrue, HandshakeIsAnswered,
                    RoleHasSession, LinkedIsConnected, OwnerIsAttached, [Next]_vars, OwnerReturns'
             PROVE  StillReturns \/ HasStored
  OBVIOUS
<1> USE DEF Client!NoSocket, Client!Accepts
<1>1. /\ sessionIntent' = "owner" /\ role' = "owner" /\ ownerBoardIdBeforeReconnect' # NoSession
      /\ ~manualDisconnect' /\ socketUrl' # NoUrl /\ session' # socket'
  BY DEF OwnerReturns
<1>2. ASSUME UNCHANGED <<sessionIntent, role, session, ownerBoardIdBeforeReconnect,
                         socketUrl, socket, manualDisconnect>>
      PROVE  StillReturns
  BY <1>1, <1>2 DEF StillReturns, OwnerReturns
<1>3. CASE ConnectOwnerSession \/ ConnectGuestSession \/ Disconnect
  BY <1>1, <1>3 DEF ConnectOwnerSession, ConnectGuestSession, Dial, Disconnect, Client!Disconnect
<1>4. CASE SendBoardAction \/ SendPresenceUpdate
  BY <1>2, <1>4 DEF SendBoardAction, SendPresenceUpdate, HandOver, Client!Send, clientVars
<1>5. CASE SocketOpens \/ SocketCloseBegins \/ StaleCloses \/ UNCHANGED vars
  BY <1>2, <1>5 DEF SocketOpens, SocketCloseBegins, StaleCloses, Client!SocketOpens,
     Client!SocketCloseBegins, Client!StaleCloses, vars, clientVars, sessionVars
<1>6. CASE TimerFires
  <2>1. UNCHANGED <<sessionVars, socketUrl, manualDisconnect>> /\ socket = 0
    BY <1>6, LinkFacts DEF TimerFires, Client!TimerFires
  <2>2. session # 0
    BY <1>1, <2>1 DEF RoleHasSession, NoSession, sessionVars
  <2> QED
    BY <1>1, <2>1, <2>2 DEF StillReturns, OwnerReturns, sessionVars
<1>7. CASE SocketCloses
  <2>1. PICK s \in Connections, messages \in {<<>>, <<Create>>, <<Join>>} :
          /\ Client!CurrentCloses(s, messages) /\ NewConnection
          /\ UNCHANGED <<sessionIntent, role, session>>
    BY <1>7 DEF SocketCloses, sessionVars
  <2>2. socket # 0 /\ UNCHANGED <<socketUrl, manualDisconnect>>
    BY <2>1, ControllerAssumption DEF Client!CurrentCloses, Connections
  <2>3. sessionIntent = "owner" /\ role = "owner" /\ ~manualDisconnect /\ socketUrl # NoUrl
    BY <1>1, <2>1, <2>2
  <2>4. ASSUME session # socket, UNCHANGED ownerBoardIdBeforeReconnect PROVE StillReturns
    BY <1>1, <2>1, <2>3, <2>4 DEF StillReturns, OwnerReturns
  <2>5. CASE status = "reconnecting" /\ UNCHANGED sessionVars
    <3>1. session # socket
      BY <2>2, <2>3, <2>5 DEF OwnerIsAttached, RepliesAreTrue, LinkedIsConnected, Connected
    <3> QED
      BY <2>4, <2>5, <3>1 DEF sessionVars
  <2>6. CASE ~RepeatsHandshake /\ UNCHANGED ownerBoardIdBeforeReconnect
    <3>1. session # socket
      BY <2>2, <2>3, <2>6 DEF HandshakeIsAnswered, RepeatsHandshake
    <3> QED
      BY <2>4, <2>6, <3>1
  <2>7. CASE HandleReconnectStart /\ UNCHANGED shownBoard
    <3>1. OwnsBoard
      BY <2>3 DEF OwnsBoard, RoleHasSession
    <3> QED
      BY <2>1, <2>7, <3>1 DEF HandleReconnectStart, KeepOwnerBoard, Persisted, HasStored
  <2> QED
    BY <1>7, <2>5, <2>6, <2>7 DEF SocketCloses
<1>8. CASE StorageThrows
  BY <1>8 DEF StorageThrows
<1>9. CASE ReceiveSteps
  BY <1>1, <1>2, <1>9 DEF ReceiveSteps, ReceiveSessionCreated, ReceiveSessionJoined,
     ReceiveJoinRejected, ReceiveSnapshotRequest, ReceiveSnapshot, ReceiveSnapshotAck,
     ReceiveBoardAction, ReceiveError, SendAndFlush, RestoreThrows, Client!Send, clientVars, sessionVars
<1>10. CASE RelayAttaches \/ RelayServes \/ RelayResolvesJoin \/ RelayPushes
  BY <1>2, <1>10 DEF RelayAttaches, RelayServes, RelayResolvesJoin, RelayPushes, RelayReads,
     RelayStep, clientVars, sessionVars
<1> QED
  BY <1>3, <1>4, <1>5, <1>6, <1>7, <1>8, <1>9, <1>10 DEF Next

LEMMA AnswerComesFirstNext ==
  /\ ~StorageFails
  /\ TypeOK /\ Client!LinkInv /\ RepliesAreTrue /\ HandshakeIsAnswered
  /\ RoleHasSession /\ LinkedIsConnected /\ OwnerIsAttached /\ AnswerComesFirst /\ [Next]_vars
  => AnswerComesFirst'
<1> SUFFICES ASSUME ~StorageFails, TypeOK, Client!LinkInv, RepliesAreTrue, HandshakeIsAnswered,
                    RoleHasSession, LinkedIsConnected, OwnerIsAttached, AnswerComesFirst,
                    [Next]_vars, OwnerReturns'
             PROVE  /\ attached' # "none" => \E j \in 1..Len(replies') : IsAnswer(replies'[j])
                    /\ \A i \in 1..Len(replies') : replies'[i].type = "board.action"
                         => \E j \in 1..Len(replies') : j < i /\ IsAnswer(replies'[j])
  BY DEF AnswerComesFirst, IsAnswer
<1>1. StillReturns \/ HasStored
  BY OwnerReturnsMoves
<1>2. CASE NewConnection
  <2>1. Len(replies') = 0 /\ attached' = "none"
    BY <1>2 DEF NewConnection
  <2> QED
    BY <2>1
<1>3. CASE StillReturns
  <2>1. /\ attached # "none" => \E j \in 1..Len(replies) : IsAnswer(replies[j])
        /\ \A i \in 1..Len(replies) : replies[i].type = "board.action"
             => \E j \in 1..Len(replies) : j < i /\ IsAnswer(replies[j])
    BY <1>3 DEF StillReturns, AnswerComesFirst
  <2>2. CASE UNCHANGED <<attached, replies>>
    BY <2>1, <2>2
  <2>3. CASE Hears
    <3>1. /\ Len(replies) \in Nat /\ 1 \in 1..Len(replies) /\ Len(replies') = Len(replies) - 1
          /\ \A i \in 1..Len(replies') : i + 1 \in 1..Len(replies) /\ replies'[i] = replies[i + 1]
      BY <2>3, HeardOrTold
    <3>2. ~IsAnswer(replies[1])
      <4>1. PICK type : /\ Received(type)
                        /\ type = "session.joined" => session' = socket
                        /\ type = "session.created" /\ sessionIntent = "owner" => session' = socket
        BY <2>3 DEF Hears
      <4>2. replies[1].type = type
        BY <4>1, ReadsTheFirst DEF TypeOK
      <4>3. session' # socket /\ sessionIntent = "owner"
        BY <1>3, <2>3 DEF StillReturns, OwnerReturns, Hears
      <4> QED
        BY <4>1, <4>2, <4>3 DEF IsAnswer
    <3>3. ASSUME NEW j \in 1..Len(replies), IsAnswer(replies[j])
          PROVE  j - 1 \in 1..Len(replies') /\ replies'[j - 1] = replies[j]
      BY <3>1, <3>2, <3>3
    <3>4. attached' # "none" => \E j \in 1..Len(replies') : IsAnswer(replies'[j])
      <4> SUFFICES ASSUME attached' # "none"
                   PROVE  \E j \in 1..Len(replies') : IsAnswer(replies'[j])
        OBVIOUS
      <4>1. PICK j \in 1..Len(replies) : IsAnswer(replies[j])
        BY <2>1, <2>3 DEF Hears
      <4> QED
        BY <3>3, <4>1
    <3>5. ASSUME NEW i \in 1..Len(replies'), replies'[i].type = "board.action"
          PROVE  \E j \in 1..Len(replies') : j < i /\ IsAnswer(replies'[j])
      <4>1. PICK j \in 1..Len(replies) : j < i + 1 /\ IsAnswer(replies[j])
        BY <2>1, <3>1, <3>5
      <4>2. j - 1 < i
        BY <3>1, <4>1
      <4> QED
        BY <3>3, <4>1, <4>2
    <3> QED
      BY <3>4, <3>5
  <2>4. ASSUME NEW m \in Incoming, IsTold(m)
        PROVE  /\ attached' # "none" => \E j \in 1..Len(replies') : IsAnswer(replies'[j])
               /\ \A i \in 1..Len(replies') : replies'[i].type = "board.action"
                    => \E j \in 1..Len(replies') : j < i /\ IsAnswer(replies'[j])
    <3>1. /\ Len(replies) \in Nat /\ Len(replies') = Len(replies) + 1
          /\ replies'[Len(replies) + 1] = m
          /\ \A i \in 1..Len(replies) : i \in 1..Len(replies') /\ replies'[i] = replies[i]
      BY <2>4, HeardOrTold
    <3>2. attached' # "none" => \E j \in 1..Len(replies') : IsAnswer(replies'[j])
      <4>1. CASE attached = "none"
        BY <2>4, <3>1, <4>1 DEF IsTold
      <4>2. CASE attached # "none"
        BY <2>1, <3>1, <4>2
      <4> QED
        BY <4>1, <4>2
    <3>3. ASSUME NEW i \in 1..Len(replies'), replies'[i].type = "board.action"
          PROVE  \E j \in 1..Len(replies') : j < i /\ IsAnswer(replies'[j])
      <4>1. CASE i \in 1..Len(replies)
        BY <2>1, <3>1, <3>3, <4>1
      <4>2. CASE i = Len(replies) + 1
        <5>1. attached # "none"
          BY <2>4, <3>1, <3>3, <4>2 DEF IsTold
        <5> QED
          BY <2>1, <3>1, <4>2, <5>1
      <4> QED
        BY <3>1, <4>1, <4>2
    <3> QED
      BY <3>2, <3>3
  <2> QED
    BY <1>2, <2>2, <2>3, <2>4, RelayMovesNext DEF RelayMoves
<1> QED
  BY <1>1, <1>2, <1>3 DEF HasStored

LEMMA BoardIsStoredNext ==
  /\ ~StorageFails
  /\ TypeOK /\ Client!LinkInv /\ RepliesAreTrue /\ HandshakeIsAnswered
  /\ RoleHasSession /\ LinkedIsConnected /\ OwnerIsAttached /\ AnswerComesFirst /\ BoardIsStored
  /\ [Next]_vars
  => BoardIsStored'
<1> SUFFICES ASSUME ~StorageFails, TypeOK, Client!LinkInv, RepliesAreTrue, HandshakeIsAnswered,
                    RoleHasSession, LinkedIsConnected, OwnerIsAttached, AnswerComesFirst,
                    BoardIsStored, [Next]_vars, OwnerReturns'
             PROVE  /\ ownerBoardIdBeforeReconnect' = session' /\ session' \in DOMAIN stored'
                    /\ shownBoard' \subseteq stored'[session']
  BY DEF BoardIsStored
<1> DEFINE IsKept == session \in DOMAIN stored' /\ shownBoard' \subseteq stored'[session]
<1>1. StillReturns \/ HasStored
  BY OwnerReturnsMoves
<1>2. ASSUME NEW b, stored' = Stored(session, b), shownBoard' \subseteq b PROVE IsKept
  BY <1>2 DEF Stored
<1>3. CASE HasStored
  BY <1>2, <1>3 DEF HasStored
<1>4. CASE StillReturns
  <2>1. /\ ownerBoardIdBeforeReconnect' = session' /\ session' = session
        /\ ownerBoardIdBeforeReconnect = session /\ sessionIntent = "owner" /\ role = "owner"
        /\ session # 0 /\ session # socket
        /\ session \in DOMAIN stored /\ shownBoard \subseteq stored[session]
    BY <1>4 DEF StillReturns, BoardIsStored, OwnerReturns, NoSession
  <2>2. OwnsBoard
    BY <2>1 DEF OwnsBoard, NoSession
  <2>3. CASE UNCHANGED boardVars
    BY <2>1, <2>3 DEF boardVars
  <2>4. CASE SendBoardAction
    <3>1. stored' = Stored(session, shownBoard')
      BY <2>2, <2>4 DEF SendBoardAction, Persisted
    <3> QED
      BY <1>2, <2>1, <3>1
  <2>5. CASE SocketCloses
    <3>1. CASE stored' = Persisted(shownBoard) /\ UNCHANGED shownBoard
      <4>1. stored' = Stored(session, shownBoard) /\ shownBoard' \subseteq shownBoard
        BY <2>2, <3>1 DEF Persisted
      <4> QED
        BY <1>2, <2>1, <4>1
    <3> QED
      BY <2>3, <2>5, <3>1 DEF SocketCloses, HandleReconnectStart, KeepOwnerBoard
  <2>6. CASE ReceiveSessionCreated
    <3>1. session' = socket
      BY <2>1, <2>6 DEF ReceiveSessionCreated
    <3> QED
      BY <2>1, <3>1
  <2>7. CASE ReceiveBoardAction
    <3>1. Received("board.action") /\ replies \in Seq(Incoming)
      BY <2>7 DEF ReceiveBoardAction, TypeOK
    <3>2. /\ Len(replies) \in Nat /\ 1 \in 1..Len(replies) /\ replies[1].type = "board.action"
      BY <3>1, ReadsTheFirst
    <3>3. \E j \in 1..Len(replies) : j < 1
      BY <1>4, <3>2 DEF StillReturns, AnswerComesFirst
    <3> QED
      BY <3>2, <3>3
  <2>8. CASE ReceiveSnapshot
    BY <2>1, <2>3, <2>8 DEF ReceiveSnapshot, boardVars
  <2>9. CASE \/ ReceiveSessionJoined \/ ReceiveJoinRejected \/ ReceiveSnapshotRequest
             \/ ReceiveSnapshotAck \/ ReceiveError
    BY <2>3, <2>9 DEF ReceiveSessionJoined, ReceiveJoinRejected, ReceiveSnapshotRequest,
       ReceiveSnapshotAck, ReceiveError
  <2>10. CASE \/ ConnectOwnerSession \/ ConnectGuestSession \/ Disconnect \/ SendPresenceUpdate
              \/ SocketOpens \/ StorageThrows \/ TimerFires \/ SocketCloseBegins \/ StaleCloses
              \/ UNCHANGED vars
    BY <2>3, <2>10 DEF ConnectOwnerSession, ConnectGuestSession, Dial, Disconnect,
       SendPresenceUpdate, SocketOpens, StorageThrows, TimerFires, SocketCloseBegins, StaleCloses,
       vars, boardVars
  <2>11. CASE RelayAttaches \/ RelayServes \/ RelayResolvesJoin \/ RelayPushes
    BY <2>3, <2>11 DEF RelayAttaches, RelayServes, RelayResolvesJoin, RelayPushes, RelayReads,
       RelayStep
  <2> QED
    BY <2>4, <2>5, <2>6, <2>7, <2>8, <2>9, <2>10, <2>11 DEF Next, ReceiveSteps
<1> QED
  BY <1>1, <1>3, <1>4 DEF HasStored

LEMMA OwnerInvInit == Init => OwnerInv
<1> SUFFICES ASSUME Init PROVE OwnerInv
  OBVIOUS
<1>1. role = "none" /\ replies = <<>> /\ Len(replies) = 0 /\ socket = 0
  BY DEF Init, Client!Init, Client!NoSocket
<1> QED
  BY <1>1 DEF OwnerInv, RoleHasSession, LinkedIsConnected, Linked, Client!NoSocket, OneCreation,
     OwnerIsAttached, AnswerComesFirst, BoardIsStored, OwnerReturns

LEMMA OwnerInvNext == ~StorageFails /\ SyncInv /\ OwnerInv /\ [Next]_vars => OwnerInv'
BY RoleHasSessionNext, LinkedIsConnectedNext, OneCreationNext, OwnerIsAttachedNext,
   AnswerComesFirstNext, BoardIsStoredNext DEF OwnerInv, SyncInv

\* The board of an owner loses nothing by a step that leaves it an owner.
LEMMA OwnerLosesNothing ==
  ~StorageFails /\ SyncInv /\ OwnerInv /\ [Next]_vars
    => [role = "owner" /\ role' = "owner" => shownBoard \subseteq shownBoard']_vars
<1> SUFFICES ASSUME ~StorageFails, SyncInv, OwnerInv, [Next]_vars, role = "owner", role' = "owner"
             PROVE  shownBoard \subseteq shownBoard'
  OBVIOUS
<1>1. CASE UNCHANGED shownBoard
  BY <1>1
<1>2. CASE ReceiveSessionCreated
  <2>1. Received("session.created") /\ replies \in Seq(Incoming)
    BY <1>2 DEF ReceiveSessionCreated, SyncInv, TypeOK
  <2>2. /\ 1 \in 1..Len(replies) /\ replies[1].type = "session.created"
        /\ socket # 0 /\ Client!Accepts
    BY <2>1, ReadsTheFirst, ReadsOnOpenSocket, LinkFacts DEF SyncInv
  <2>3. session # socket
    BY <2>2 DEF OwnerInv, OwnerIsAttached
  <2>4. CASE sessionIntent = "owner" /\ ownerBoardIdBeforeReconnect # NoSession
    <3>1. OwnerReturns
      BY <2>2, <2>3, <2>4 DEF OwnerReturns
    <3>2. /\ ownerBoardIdBeforeReconnect \in DOMAIN stored
          /\ shownBoard \subseteq stored[ownerBoardIdBeforeReconnect]
      BY <3>1 DEF OwnerInv, BoardIsStored
    <3> QED
      BY <1>1, <1>2, <2>4, <3>2 DEF ReceiveSessionCreated, RestoreThrows, RestoreOwnerBoard, Restored,
         IsStored, boardVars
  <2>5. CASE sessionIntent # "owner" \/ ownerBoardIdBeforeReconnect = NoSession
    BY <1>1, <1>2, <2>5 DEF ReceiveSessionCreated, RestoreThrows, RestoreOwnerBoard, boardVars
  <2> QED
    BY <2>4, <2>5
<1>3. CASE SendBoardAction \/ ReceiveBoardAction \/ ReceiveSnapshot
  BY <1>1, <1>3 DEF SendBoardAction, ReceiveBoardAction, ReceiveSnapshot
<1>4. CASE \/ ReceiveSessionJoined \/ ReceiveJoinRejected \/ ReceiveSnapshotRequest
           \/ ReceiveSnapshotAck \/ ReceiveError
  BY <1>1, <1>4 DEF ReceiveSessionJoined, ReceiveJoinRejected, ReceiveSnapshotRequest,
     ReceiveSnapshotAck, ReceiveError, boardVars
<1>5. CASE \/ ConnectOwnerSession \/ ConnectGuestSession \/ Disconnect \/ SendPresenceUpdate
           \/ SocketOpens \/ SocketCloses \/ StorageThrows \/ TimerFires \/ SocketCloseBegins
           \/ StaleCloses \/ UNCHANGED vars
  BY <1>1, <1>5 DEF ConnectOwnerSession, ConnectGuestSession, Dial, Disconnect,
     SendPresenceUpdate, SocketOpens, SocketCloses, StorageThrows, TimerFires, SocketCloseBegins,
     StaleCloses, vars, boardVars
<1>6. CASE RelayAttaches \/ RelayServes \/ RelayResolvesJoin \/ RelayPushes
  BY <1>1, <1>6 DEF RelayAttaches, RelayServes, RelayResolvesJoin, RelayPushes, RelayReads,
     RelayStep, boardVars
<1> QED
  BY <1>2, <1>3, <1>4, <1>5, <1>6 DEF Next, ReceiveSteps

\* If storage takes every write, the board of an owner loses no edit, own or remote,
\* by a reconnection (handleReconnectStart stores it, session.created reads it back),
\* nor by anything else that happens to it while it is an owner.
THEOREM OwnersKeepTheirBoard ==
  ASSUME ~StorageFails
  PROVE  Spec => OwnerKeepsBoard
<1>1. Init => OwnerInv
  BY OwnerInvInit
<1>2. SyncInv /\ OwnerInv /\ [Next]_vars => OwnerInv'
  BY OwnerInvNext
<1>3. SyncInv /\ OwnerInv /\ [Next]_vars
        => [role = "owner" /\ role' = "owner" => shownBoard \subseteq shownBoard']_vars
  BY OwnerLosesNothing
<1> QED
  BY <1>1, <1>2, <1>3, SyncInvAlways, PTL DEF Spec, OwnerKeepsBoard

(***************************************************************************)
(* The controller keeps to what the socket client expects of its user.     *)
(***************************************************************************)
LEMMA OperationIsStep == ClientOperation => [Client!Next]_(Client!vars)
<1> SUFFICES ASSUME ClientOperation PROVE Client!Next \/ UNCHANGED Client!vars
  OBVIOUS
<1>1. CASE UNCHANGED clientVars
  BY <1>1 DEF clientVars, Client!vars
<1>2. CASE ~UNCHANGED clientVars
  BY <1>2 DEF ClientOperation, Client!Next, Client!Sockets, Connections
<1> QED BY <1>1, <1>2

\* While storage takes every write, so that no callback throws, every behaviour of
\* the controller is one of the socket client's specification (openSocket and its
\* handlers under connectOwnerSession, connectGuestSession, disconnect and the
\* handlers of messages), so that what is proved of the client under any user holds
\* under the controller.
THEOREM ControllerKeepsToClient ==
  ASSUME ~StorageFails
  PROVE  Spec => Client!Spec
<1>1. Init => Client!Init
  BY DEF Init
<1>2. SyncInv /\ [Next]_vars => [Client!Next]_(Client!vars)
  <2> SUFFICES ASSUME TypeOK, [Next]_vars PROVE [Client!Next]_(Client!vars)
    BY DEF SyncInv
  <2>1. CASE Next
    BY <2>1, ControllerOperatesClient, OperationIsStep DEF StorageThrows
  <2>2. CASE UNCHANGED vars
    BY <2>2, OperationIsStep DEF vars, ClientOperation
  <2> QED BY <2>1, <2>2
<1> QED
  BY <1>1, <1>2, SyncInvAlways, PTL DEF Spec, Client!Spec

\* Under the controller, too, there is one connection, told of as it is and never
\* given up, while storage takes every write (openSocket, scheduleReconnect).
THEOREM ControllerNeverGivesUp ==
  ASSUME ~StorageFails
  PROVE  Spec => []Client!SocketInv
<1>1. Init => Client!KeepsTrying
  BY DEF Init, Client!Init, Client!KeepsTrying, Client!Accepts
<1>2. SyncInv /\ Client!KeepsTrying /\ [Next]_vars => Client!KeepsTrying'
  <2> SUFFICES ASSUME SyncInv, Client!KeepsTrying, [Next]_vars PROVE Client!KeepsTrying'
    OBVIOUS
  <2>1. Next => ClientOperation
    BY ControllerOperatesClient DEF StorageThrows, SyncInv
  <2>2. ClientOperation
    BY <2>1 DEF vars, ClientOperation
  <2> QED BY <2>2, OperationKeepsClient DEF SyncInv
<1>3. SyncInv /\ Client!KeepsTrying => Client!SocketInv
  BY DEF SyncInv, Client!SocketInv
<1> QED
  BY <1>1, <1>2, <1>3, SyncInvAlways, PTL DEF Spec
=============================================================================
