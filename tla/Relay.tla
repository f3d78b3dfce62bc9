-------------------------------- MODULE Relay --------------------------------
(***************************************************************************)
(* The WebSocket router of the relay (apps/relay/internal/httpapi) above   *)
(* the room store: sessions, the snapshot handshake, broadcasts, kick,     *)
(* revocation and disconnection.                                           *)
(*                                                                         *)
(* The relay runs one goroutine per connection.  It reads a message, runs  *)
(* its handler to the end and reads the next; when a read fails it runs    *)
(* handleSocketDisconnect and ends.  A handler takes connectionMu and      *)
(* store.mu many times, each time for one short section, and writes to     *)
(* sockets with neither held, so handlers of different connections         *)
(* interleave between any two sections: an action below is one section, or *)
(* one write, and pc says where the goroutine of each connection is.       *)
(*                                                                         *)
(* A connection attaches to at most one session in its life               *)
(* (hasActiveSession), and actor ids are random: the actor a connection    *)
(* becomes is the connection itself.                                       *)
(*                                                                         *)
(* Left out: a message whose handler changes nothing (malformed payloads,  *)
(* a first check that fails, a board for which no code is free) is the     *)
(* absence of a step.  The rate limits are in RateLimits.                  *)
(***************************************************************************)
EXTENDS Integers, Sequences, FiniteSets

CONSTANTS
  Conns,             \* the connections; also the actors they become
  BoardIDs,          \* the board ids idGenerator hands out, each one once
  JoinCodes,
  NoConn, NoCode, NoBoard,
  Requests,          \* the message types clients send in this instance
  MaxParticipants, CodeTTL, MaxLag, MaxClock

VARIABLES
  \* roomstore.Store
  boardsByID, boardIDsByJoinCode, clock,
  \* Router, guarded by connectionMu; actors are connections
  connectionsByBoard,       \* board -> the connections registered with it
  boardOwnerByBoard,        \* board -> its owner, or NoConn
  pendingSnapshotRequests,  \* board -> the guests whose snapshot is awaited
  sessionByConn,            \* connection -> its board, or NoBoard
  disconnectReasonByConn,   \* connection -> why it is being closed
  \* the goroutine of each connection, and the snapshot timers
  pc,
  board,                    \* the board its handler works on
  code,                     \* session.join: the code of the message
  listing,                  \* session.join: session.Participants
  peer,                     \* participant.kick, board.snapshot: the target
  todo,                     \* the clients its loop has still to serve
  timedOut,                 \* guests a timer took off the pending requests
  \* the other end of the sockets
  open,                     \* neither side has closed the connection
  roster,                   \* the participants this client knows of
  synced,                   \* the guests a snapshot was written to
  \* OwnerActorID of every board ever created; NoConn: id not generated yet
  creator

storeVars  == <<boardsByID, boardIDsByJoinCode, clock>>
routerVars == <<connectionsByBoard, boardOwnerByBoard, pendingSnapshotRequests,
                sessionByConn, disconnectReasonByConn>>
taskVars   == <<pc, board, code, listing, peer, todo, timedOut>>
clientVars == <<open, roster, synced>>
vars == <<storeVars, routerVars, taskVars, clientVars, creator>>

Store == INSTANCE RoomStore WITH Actors <- Conns

StoreErrors == Store!Errors \ {"ok"}

ASSUME RelayNumbersAssumption ==
  /\ MaxParticipants \in Nat \ {0}
  /\ CodeTTL \in Nat \ {0}
  /\ MaxLag \in Nat
  /\ MaxClock \in Nat

ASSUME RelayNoneAssumption ==
  /\ NoConn \notin Conns
  /\ NoCode \notin JoinCodes
  /\ NoBoard \notin BoardIDs
  /\ NoBoard \notin Store!BoardRecord

(***************************************************************************)
(* Type definitions.                                                       *)
(***************************************************************************)
JoinSteps == {"joinFound", "joinOwnerSeen", "joinAdded", "joinRegistered",
              "joinOwnerSet", "joinPending", "joinReplied", "announcing",
              "announced", "joinRefused", "joinFailed"}
CreateSteps == {"created", "ownerRegistered"}
SnapshotSteps == {"snapshotTaken", "snapshotFound", "snapshotTouched"}
OwnerSteps == SnapshotSteps \cup
              {"kickFound", "kickTouched", "revokeTouched", "codeRevoked",
               "revoking", "revokeSent", "closing"}
EventSteps == {"eventTouched", "relaying", "ackChecked"}
LeaveSteps == {"unregistered", "reasonTaken", "participantRemoved",
               "pendingCleared", "leaving", "left", "ownerLeft", "failing"}
Steps == {"serving", "done"} \cup JoinSteps \cup CreateSteps \cup OwnerSteps
           \cup EventSteps \cup LeaveSteps

Reasons == {"none", "kick", "code_revoked"}

TypeOK ==
  /\ Store!TypeOK
  /\ connectionsByBoard \in [BoardIDs -> SUBSET Conns]
  /\ boardOwnerByBoard \in [BoardIDs -> Conns \cup {NoConn}]
  /\ pendingSnapshotRequests \in [BoardIDs -> SUBSET Conns]
  /\ sessionByConn \in [Conns -> BoardIDs \cup {NoBoard}]
  /\ disconnectReasonByConn \in [Conns -> Reasons]
  /\ pc \in [Conns -> Steps]
  /\ board \in [Conns -> BoardIDs \cup {NoBoard}]
  /\ code \in [Conns -> JoinCodes \cup {NoCode}]
  /\ listing \in [Conns -> SUBSET Conns]
  /\ peer \in [Conns -> Conns \cup {NoConn}]
  /\ todo \in [Conns -> SUBSET Conns]
  /\ timedOut \in SUBSET Conns
  /\ open \in [Conns -> BOOLEAN]
  /\ roster \in [Conns -> SUBSET Conns]
  /\ synced \in SUBSET Conns
  /\ creator \in [BoardIDs -> Conns \cup {NoConn}]

Init ==
  /\ Store!Init
  /\ connectionsByBoard = [b \in BoardIDs |-> {}]
  /\ boardOwnerByBoard = [b \in BoardIDs |-> NoConn]
  /\ pendingSnapshotRequests = [b \in BoardIDs |-> {}]
  /\ sessionByConn = [c \in Conns |-> NoBoard]
  /\ disconnectReasonByConn = [c \in Conns |-> "none"]
  /\ pc = [c \in Conns |-> "serving"]
  /\ board = [c \in Conns |-> NoBoard]
  /\ code = [c \in Conns |-> NoCode]
  /\ listing = [c \in Conns |-> {}]
  /\ peer = [c \in Conns |-> NoConn]
  /\ todo = [c \in Conns |-> {}]
  /\ timedOut = {}
  /\ open = [c \in Conns |-> TRUE]
  /\ roster = [c \in Conns |-> {}]
  /\ synced = {}
  /\ creator = [b \in BoardIDs |-> NoConn]

(***************************************************************************)
(* Helpers.  As in RoomStore, a definition named after another one with a  *)
(* suffix (RequestsWithoutNone, TimeoutLeftOpen, ...) is a faulty variant  *)
(* that nothing uses.                                                      *)
(***************************************************************************)
At(c, step) == pc[c] = step
Goto(c, step) == pc' = [pc EXCEPT ![c] = step]

\* hasActiveSession, sessionForClient
Attached(c) == sessionByConn[c] # NoBoard

\* connectionForActor
Connected(b, c) == c \in connectionsByBoard[b]

\* connectionsForBoard, without the sender
OthersAndSelf(c) == connectionsByBoard[board[c]]
Others(c) == connectionsByBoard[board[c]] \ {c}

\* Start a loop over clients at step inLoop that ends at step after.
Loop(c, recipients, inLoop, after) ==
  /\ todo' = [todo EXCEPT ![c] = recipients]
  /\ Goto(c, IF recipients = {} THEN after ELSE inLoop)

\* The loop of c has served r.
Served(c, r, after) ==
  /\ r \in todo[c]
  /\ todo' = [todo EXCEPT ![c] = @ \ {r}]
  /\ Goto(c, IF todo[c] = {r} THEN after ELSE pc[c])

\* A write fails only on a socket that one side has closed, and even then
\* it may only have reached a buffer.
WriteMayFail(c) == ~open[c]

\* c is in ReadMessage and a message of this type is read.  Reading is one
\* action with the first section of the handler: nothing that section reads
\* or writes tells whether the connection was closed in between.
Reads(c, request) ==
  /\ request \in Requests
  /\ At(c, "serving")
  /\ open[c]

\* ... on a connection attached to a session, whose handler starts.
ReadsAttached(c, request) == Reads(c, request) /\ Attached(c)

\* ... and only the owner may send it.
ReadsFromOwner(c, request) ==
  /\ ReadsAttached(c, request)
  /\ boardOwnerByBoard[board[c]] = c

\* touchBoardActivity: on failure the sender gets an error and the handler
\* returns.
TouchOr(c, after) ==
  /\ \E now \in Store!CallerNow :
       \/ Store!TouchBoard(board[c], now, "ok") /\ Goto(c, after)
       \/ Store!TouchBoard(board[c], now, "ErrBoardNotFound") /\ Goto(c, "serving")
  /\ UNCHANGED clock

\* The pending requests without the one of guest t of board b
\* (clearPendingSnapshotRequest and the first half of
\* failPendingSnapshotRequest).
RequestsWithoutNone(b, t) == pendingSnapshotRequests
RequestsWithoutBoard(b, t) == [pendingSnapshotRequests EXCEPT ![b] = {}]
RequestsWithout(b, t) == [pendingSnapshotRequests EXCEPT ![b] = @ \ {t}]

Register(c, step) ==
  /\ connectionsByBoard' = [connectionsByBoard EXCEPT ![board[c]] = @ \cup {c}]
  /\ sessionByConn' = [sessionByConn EXCEPT ![c] = board[c]]
  /\ Goto(c, step)

(***************************************************************************)
(* session.create.                                                         *)
(***************************************************************************)
SessionCreate(c) ==
  /\ Reads(c, "session.create")
  /\ ~Attached(c)
  /\ \E b \in BoardIDs, now \in Store!CallerNow :
       /\ creator[b] = NoConn
       /\ Store!CreateBoard(b, NoCode, c, now, "ok")
       /\ creator' = [creator EXCEPT ![b] = c]
       /\ board' = [board EXCEPT ![c] = b]
  /\ Goto(c, "created")
  /\ UNCHANGED <<clock, routerVars, code, listing, peer, todo, timedOut, clientVars>>

RegisterOwner(c) ==
  /\ At(c, "created")
  /\ Register(c, "ownerRegistered")
  /\ UNCHANGED <<storeVars, boardOwnerByBoard, pendingSnapshotRequests,
                 disconnectReasonByConn, board, code, listing, peer, todo,
                 timedOut, clientVars, creator>>

\* setBoardOwner and the reply session.created.
FinishCreate(c) ==
  /\ At(c, "ownerRegistered")
  /\ boardOwnerByBoard' = [boardOwnerByBoard EXCEPT ![board[c]] = c]
  /\ roster' = [roster EXCEPT ![c] = {c}]
  /\ Goto(c, "serving")
  /\ UNCHANGED <<storeVars, connectionsByBoard, pendingSnapshotRequests,
                 sessionByConn, disconnectReasonByConn, board, code, listing,
                 peer, todo, timedOut, open, synced, creator>>

(***************************************************************************)
(* session.join.                                                           *)
(***************************************************************************)

\* A join code is random: a client has it only once the owner was told.
Published(k) ==
  \E b \in BoardIDs :
    /\ boardIDsByJoinCode[k] = b
    /\ roster[creator[b]] # {}

\* GetBoardByJoinCode, and the capacity check on what it returned.
JoinLookup(c) ==
  /\ Reads(c, "session.join")
  /\ ~Attached(c)
  /\ \E k \in JoinCodes :
       /\ Published(k)
       /\ \/ /\ Store!GetBoardByJoinCode(k, "ErrJoinCodeNotFound")
             /\ UNCHANGED <<pc, board, code>>
          \/ /\ Store!GetBoardByJoinCode(k, "ok")
             /\ ~Store!IsFull(boardIDsByJoinCode[k])
             /\ board' = [board EXCEPT ![c] = boardIDsByJoinCode[k]]
             /\ code' = [code EXCEPT ![c] = k]
             /\ Goto(c, "joinFound")
  /\ UNCHANGED <<clock, routerVars, listing, peer, todo, timedOut, clientVars, creator>>

\* session.join_rejected
Reject(c) ==
  /\ board' = [board EXCEPT ![c] = NoBoard]
  /\ code' = [code EXCEPT ![c] = NoCode]
  /\ Goto(c, "serving")

\* A join may also be rejected because its code was tried too often.
JoinCheckOwner(c) ==
  /\ At(c, "joinFound")
  /\ \/ /\ Connected(board[c], creator[board[c]])
        /\ Goto(c, "joinOwnerSeen")
        /\ UNCHANGED <<board, code>>
     \/ Reject(c)
  /\ UNCHANGED <<storeVars, routerVars, listing, peer, todo, timedOut, clientVars, creator>>

\* createGuestSession: what was read before may have changed by now.
JoinStore(c) ==
  /\ At(c, "joinOwnerSeen")
  /\ \E now \in Store!CallerNow :
       \/ /\ Store!JoinBoard(code[c], c, now, "ok")
          /\ LET b == boardIDsByJoinCode[code[c]]
             IN  /\ board' = [board EXCEPT ![c] = b]
                 /\ listing' = [listing EXCEPT ![c] = boardsByID'[b].participants]
          /\ code' = [code EXCEPT ![c] = NoCode]
          /\ Goto(c, "joinAdded")
       \/ /\ \E err \in StoreErrors : Store!JoinBoard(code[c], c, now, err)
          /\ Reject(c)
          /\ UNCHANGED listing
  /\ UNCHANGED <<clock, routerVars, peer, todo, timedOut, clientVars, creator>>

JoinRegister(c) ==
  /\ At(c, "joinAdded")
  /\ Register(c, "joinRegistered")
  /\ UNCHANGED <<storeVars, boardOwnerByBoard, pendingSnapshotRequests,
                 disconnectReasonByConn, board, code, listing, peer, todo,
                 timedOut, clientVars, creator>>

JoinSetOwner(c) ==
  /\ At(c, "joinRegistered")
  /\ boardOwnerByBoard' = [boardOwnerByBoard EXCEPT ![board[c]] = creator[board[c]]]
  /\ Goto(c, "joinOwnerSet")
  /\ UNCHANGED <<storeVars, connectionsByBoard, pendingSnapshotRequests,
                 sessionByConn, disconnectReasonByConn, board, code, listing,
                 peer, todo, timedOut, clientVars, creator>>

\* registerPendingSnapshotRequest; its timer is armed from here on.
JoinPend(c) ==
  /\ At(c, "joinOwnerSet")
  /\ pendingSnapshotRequests' =
       [pendingSnapshotRequests EXCEPT ![board[c]] = @ \cup {c}]
  /\ Goto(c, "joinPending")
  /\ UNCHANGED <<storeVars, connectionsByBoard, boardOwnerByBoard,
                 sessionByConn, disconnectReasonByConn, board, code, listing,
                 peer, todo, timedOut, clientVars, creator>>

\* The reply session.joined carries the participants as JoinBoard saw them.
JoinReply(c) ==
  /\ At(c, "joinPending")
  /\ \/ /\ roster' = [roster EXCEPT ![c] = listing[c]]
        /\ Goto(c, "joinReplied")
     \/ /\ WriteMayFail(c)
        /\ Goto(c, "serving")
        /\ UNCHANGED roster
  /\ listing' = [listing EXCEPT ![c] = {}]
  /\ UNCHANGED <<storeVars, routerVars, board, code, peer, todo, timedOut,
                 open, synced, creator>>

JoinAnnounce(c) ==
  /\ At(c, "joinReplied")
  /\ Loop(c, Others(c), "announcing", "announced")
  /\ UNCHANGED <<storeVars, routerVars, board, code, listing, peer, timedOut,
                 clientVars, creator>>

\* participant.joined reaches one client.
AnnounceTo(c, r) ==
  /\ At(c, "announcing")
  /\ Served(c, r, "announced")
  /\ roster' = [roster EXCEPT ![r] = @ \cup {c}]
  /\ UNCHANGED <<storeVars, routerVars, board, code, listing, peer, timedOut,
                 open, synced, creator>>

\* sendBoardSnapshotRequest: look the owner up and write to it.
RequestSnapshotUnchecked(c) ==
  /\ At(c, "announced")
  /\ Goto(c, "serving")
  /\ UNCHANGED <<storeVars, routerVars, board, code, listing, peer, todo,
                 timedOut, clientVars, creator>>
RequestSnapshot(c) ==
  /\ At(c, "announced")
  /\ LET owner == creator[board[c]]
     IN  \/ Connected(board[c], owner) /\ Goto(c, "serving")
         \/ /\ ~Connected(board[c], owner) \/ WriteMayFail(owner)
            /\ Goto(c, "joinRefused")
  /\ UNCHANGED <<storeVars, routerVars, board, code, listing, peer, todo,
                 timedOut, clientVars, creator>>

\* failPendingSnapshotRequest of the joining goroutine itself: it takes its
\* request off, unless somebody else has done so ...
JoinRefuse(c) ==
  /\ At(c, "joinRefused")
  /\ pendingSnapshotRequests' = RequestsWithout(board[c], c)
  /\ Goto(c, IF c \in pendingSnapshotRequests[board[c]] THEN "joinFailed" ELSE "serving")
  /\ UNCHANGED <<storeVars, connectionsByBoard, boardOwnerByBoard,
                 sessionByConn, disconnectReasonByConn, board, code, listing,
                 peer, todo, timedOut, clientVars, creator>>

\* ... and closes the connection.
JoinClose(c) ==
  /\ At(c, "joinFailed")
  /\ open' = [open EXCEPT ![c] = FALSE]
  /\ Goto(c, "serving")
  /\ UNCHANGED <<storeVars, routerVars, board, code, listing, peer, todo,
                 timedOut, roster, synced, creator>>

(***************************************************************************)
(* board.snapshot, from the owner to a guest it knows of.  The check that  *)
(* the sender is the owner goes with the first section after it: the owner *)
(* entry of a board cannot change while the owner is attached to it.       *)
(***************************************************************************)

\* completePendingSnapshotRequest takes the request off; if it is not there
\* any more the owner gets an error and nothing happens.
SnapshotTake(c) ==
  /\ ReadsFromOwner(c, "board.snapshot")
  /\ \E t \in roster[c] \cap pendingSnapshotRequests[board[c]] :
       /\ pendingSnapshotRequests' = RequestsWithout(board[c], t)
       /\ peer' = [peer EXCEPT ![c] = t]
  /\ Goto(c, "snapshotTaken")
  /\ UNCHANGED <<storeVars, connectionsByBoard, boardOwnerByBoard,
                 sessionByConn, disconnectReasonByConn, board, code, listing,
                 todo, timedOut, clientVars, creator>>

SnapshotFindTarget(c) ==
  /\ At(c, "snapshotTaken")
  /\ \/ /\ Connected(board[c], peer[c])
        /\ Goto(c, "snapshotFound")
        /\ UNCHANGED peer
     \/ /\ ~Connected(board[c], peer[c])
        /\ Goto(c, "serving")
        /\ peer' = [peer EXCEPT ![c] = NoConn]
  /\ UNCHANGED <<storeVars, routerVars, board, code, listing, todo, timedOut,
                 clientVars, creator>>

SnapshotTouch(c) ==
  /\ At(c, "snapshotFound")
  /\ TouchOr(c, "snapshotTouched")
  /\ peer' = IF pc'[c] = "serving" THEN [peer EXCEPT ![c] = NoConn] ELSE peer
  /\ UNCHANGED <<routerVars, board, code, listing, todo, timedOut, clientVars,
                 creator>>

SnapshotForward(c) ==
  /\ At(c, "snapshotTouched")
  /\ synced' = IF open[peer[c]] THEN synced \cup {peer[c]} ELSE synced
  /\ peer' = [peer EXCEPT ![c] = NoConn]
  /\ Goto(c, "serving")
  /\ UNCHANGED <<storeVars, routerVars, board, code, listing, todo, timedOut,
                 open, roster, creator>>

(***************************************************************************)
(* board.action and presence.update: touch the board, then send to every   *)
(* other connection registered with it.                                    *)
(***************************************************************************)
EventTouch(c) ==
  /\ ReadsAttached(c, "board.action")
  /\ TouchOr(c, "eventTouched")
  /\ UNCHANGED <<routerVars, board, code, listing, peer, todo, timedOut,
                 clientVars, creator>>

EventBroadcast(c) ==
  /\ At(c, "eventTouched")
  /\ Loop(c, Others(c), "relaying", "serving")
  /\ UNCHANGED <<storeVars, routerVars, board, code, listing, peer, timedOut,
                 clientVars, creator>>

EventTo(c, r) ==
  /\ At(c, "relaying")
  /\ Served(c, r, "serving")
  /\ UNCHANGED <<storeVars, routerVars, board, code, listing, peer, timedOut,
                 clientVars, creator>>

(***************************************************************************)
(* board.snapshot.ack from a guest whose owner is connected, and           *)
(* heartbeat.ping, touch the board; the forwarded acknowledgement and the  *)
(* pong leave the relay's state alone.                                     *)
(***************************************************************************)
AckCheckOwner(c) ==
  /\ ReadsAttached(c, "board.snapshot.ack")
  /\ boardOwnerByBoard[board[c]] # c
  /\ Connected(board[c], boardOwnerByBoard[board[c]])
  /\ Goto(c, "ackChecked")
  /\ UNCHANGED <<storeVars, routerVars, board, code, listing, peer, todo,
                 timedOut, clientVars, creator>>

AckTouch(c) ==
  /\ At(c, "ackChecked")
  /\ TouchOr(c, "serving")
  /\ UNCHANGED <<routerVars, board, code, listing, peer, todo, timedOut,
                 clientVars, creator>>

Heartbeat(c) ==
  /\ ReadsAttached(c, "heartbeat.ping")
  /\ TouchOr(c, "serving")
  /\ UNCHANGED <<routerVars, board, code, listing, peer, todo, timedOut,
                 clientVars, creator>>

(***************************************************************************)
(* participant.kick.                                                       *)
(***************************************************************************)
KickFind(c) ==
  /\ ReadsFromOwner(c, "participant.kick")
  /\ \E t \in roster[c] \ {c} :
       /\ Connected(board[c], t)
       /\ peer' = [peer EXCEPT ![c] = t]
  /\ Goto(c, "kickFound")
  /\ UNCHANGED <<storeVars, routerVars, board, code, listing, todo, timedOut,
                 clientVars, creator>>

KickTouch(c) ==
  /\ At(c, "kickFound")
  /\ TouchOr(c, "kickTouched")
  /\ peer' = IF pc'[c] = "serving" THEN [peer EXCEPT ![c] = NoConn] ELSE peer
  /\ UNCHANGED <<routerVars, board, code, listing, todo, timedOut, clientVars,
                 creator>>

\* setDisconnectReason and closing the connection.
KickClose(c) ==
  /\ At(c, "kickTouched")
  /\ disconnectReasonByConn' = [disconnectReasonByConn EXCEPT ![peer[c]] = "kick"]
  /\ open' = [open EXCEPT ![peer[c]] = FALSE]
  /\ peer' = [peer EXCEPT ![c] = NoConn]
  /\ Goto(c, "serving")
  /\ UNCHANGED <<storeVars, connectionsByBoard, boardOwnerByBoard,
                 pendingSnapshotRequests, sessionByConn, board, code, listing,
                 todo, timedOut, roster, synced, creator>>

(***************************************************************************)
(* board.code.revoke.                                                      *)
(***************************************************************************)
RevokeTouch(c) ==
  /\ ReadsFromOwner(c, "board.code.revoke")
  /\ TouchOr(c, "revokeTouched")
  /\ UNCHANGED <<routerVars, board, code, listing, peer, todo, timedOut,
                 clientVars, creator>>

RevokeStore(c) ==
  /\ At(c, "revokeTouched")
  /\ \E now \in Store!CallerNow :
       \/ Store!RevokeJoinCode(board[c], now, "ok") /\ Goto(c, "codeRevoked")
       \/ /\ \E err \in StoreErrors : Store!RevokeJoinCode(board[c], now, err)
          /\ Goto(c, "serving")
  /\ UNCHANGED <<clock, routerVars, board, code, listing, peer, todo,
                 timedOut, clientVars, creator>>

\* The reply to the owner, and the broadcast of board.code.revoked.
RevokeBroadcast(c) ==
  /\ At(c, "codeRevoked")
  /\ Loop(c, Others(c), "revoking", "revokeSent")
  /\ UNCHANGED <<storeVars, routerVars, board, code, listing, peer, timedOut,
                 clientVars, creator>>

RevokeTo(c, r) ==
  /\ At(c, "revoking")
  /\ Served(c, r, "revokeSent")
  /\ UNCHANGED <<storeVars, routerVars, board, code, listing, peer, timedOut,
                 clientVars, creator>>

\* disconnectBoardParticipants: the connections as they are at this moment.
RevokeDisconnect(c) ==
  /\ At(c, "revokeSent")
  /\ Loop(c, Others(c), "closing", "serving")
  /\ UNCHANGED <<storeVars, routerVars, board, code, listing, peer, timedOut,
                 clientVars, creator>>

RevokeClose(c, r) ==
  /\ At(c, "closing")
  /\ Served(c, r, "serving")
  /\ disconnectReasonByConn' = [disconnectReasonByConn EXCEPT ![r] = "code_revoked"]
  /\ open' = [open EXCEPT ![r] = FALSE]
  /\ UNCHANGED <<storeVars, connectionsByBoard, boardOwnerByBoard,
                 pendingSnapshotRequests, sessionByConn, board, code, listing,
                 peer, timedOut, roster, synced, creator>>

(***************************************************************************)
(* The snapshot timers.                                                    *)
(***************************************************************************)
SnapshotTimeout(t) ==
  /\ \E b \in BoardIDs :
       /\ t \in pendingSnapshotRequests[b]
       /\ pendingSnapshotRequests' = RequestsWithout(b, t)
  /\ timedOut' = timedOut \cup {t}
  /\ UNCHANGED <<storeVars, connectionsByBoard, boardOwnerByBoard,
                 sessionByConn, disconnectReasonByConn, pc, board, code,
                 listing, peer, todo, clientVars, creator>>

TimeoutLeftOpen(t) ==
  /\ t \in timedOut
  /\ timedOut' = timedOut \ {t}
  /\ UNCHANGED <<storeVars, routerVars, pc, board, code, listing, peer, todo,
                 clientVars, creator>>
TimeoutClose(t) ==
  /\ t \in timedOut
  /\ timedOut' = timedOut \ {t}
  /\ open' = [open EXCEPT ![t] = FALSE]
  /\ UNCHANGED <<storeVars, routerVars, pc, board, code, listing, peer, todo,
                 roster, synced, creator>>

(***************************************************************************)
(* handleSocketDisconnect, once ReadMessage has failed.                    *)
(***************************************************************************)

\* The owner entry of a board goes with its last connection.
OwnersWithoutKept(b, rest) == boardOwnerByBoard
OwnersWithout(b, rest) ==
  IF rest = {} THEN [boardOwnerByBoard EXCEPT ![b] = NoConn] ELSE boardOwnerByBoard

Unregister(c) ==
  /\ At(c, "serving")
  /\ ~open[c]
  /\ \/ /\ ~Attached(c)
        /\ Goto(c, "done")
        /\ UNCHANGED <<connectionsByBoard, boardOwnerByBoard, sessionByConn>>
     \/ /\ Attached(c)
        /\ sessionByConn' = [sessionByConn EXCEPT ![c] = NoBoard]
        /\ connectionsByBoard' = [connectionsByBoard EXCEPT ![board[c]] = @ \ {c}]
        /\ boardOwnerByBoard' = OwnersWithout(board[c], connectionsByBoard'[board[c]])
        /\ Goto(c, "unregistered")
  /\ UNCHANGED <<storeVars, pendingSnapshotRequests, disconnectReasonByConn,
                 board, code, listing, peer, todo, timedOut, clientVars, creator>>

TakeReasonBlank(c) ==
  /\ At(c, "unregistered")
  /\ disconnectReasonByConn' = [disconnectReasonByConn EXCEPT ![c] = ""]
  /\ Goto(c, "reasonTaken")
  /\ UNCHANGED <<storeVars, connectionsByBoard, boardOwnerByBoard,
                 pendingSnapshotRequests, sessionByConn, board, code, listing,
                 peer, todo, timedOut, clientVars, creator>>
TakeReason(c) ==
  /\ At(c, "unregistered")
  /\ disconnectReasonByConn' = [disconnectReasonByConn EXCEPT ![c] = "none"]
  /\ Goto(c, "reasonTaken")
  /\ UNCHANGED <<storeVars, connectionsByBoard, boardOwnerByBoard,
                 pendingSnapshotRequests, sessionByConn, board, code, listing,
                 peer, todo, timedOut, clientVars, creator>>

\* Faulty: keeps the place of an owner.
LeaveStoreOfGuests(c) ==
  /\ At(c, "reasonTaken")
  /\ IF c = creator[board[c]]
     THEN UNCHANGED <<boardsByID, boardIDsByJoinCode>>
     ELSE \E now \in Store!CallerNow, err \in Store!Errors :
            Store!RemoveParticipant(board[c], c, now, err)
  /\ Goto(c, "participantRemoved")
  /\ UNCHANGED <<clock, routerVars, board, code, listing, peer, todo,
                 timedOut, clientVars, creator>>
LeaveStore(c) ==
  /\ At(c, "reasonTaken")
  /\ \E now \in Store!CallerNow, err \in Store!Errors :
       Store!RemoveParticipant(board[c], c, now, err)
  /\ Goto(c, "participantRemoved")
  /\ UNCHANGED <<clock, routerVars, board, code, listing, peer, todo,
                 timedOut, clientVars, creator>>

\* clearPendingSnapshotRequest
LeaveClear(c) ==
  /\ At(c, "participantRemoved")
  /\ pendingSnapshotRequests' = RequestsWithout(board[c], c)
  /\ Goto(c, "pendingCleared")
  /\ UNCHANGED <<storeVars, connectionsByBoard, boardOwnerByBoard,
                 sessionByConn, disconnectReasonByConn, board, code, listing,
                 peer, todo, timedOut, clientVars, creator>>

LeaveBroadcast(c) ==
  /\ At(c, "pendingCleared")
  /\ Loop(c, Others(c), "leaving", "left")
  /\ UNCHANGED <<storeVars, routerVars, board, code, listing, peer, timedOut,
                 clientVars, creator>>

\* participant.left reaches one client.
LeaveTo(c, r) ==
  /\ At(c, "leaving")
  /\ Served(c, r, "left")
  /\ roster' = [roster EXCEPT ![r] = @ \ {c}]
  /\ UNCHANGED <<storeVars, routerVars, board, code, listing, peer, timedOut,
                 open, synced, creator>>

LeaveCheckOwner(c) ==
  /\ At(c, "left")
  /\ Goto(c, IF boardOwnerByBoard[board[c]] = c THEN "ownerLeft" ELSE "done")
  /\ UNCHANGED <<storeVars, routerVars, board, code, listing, peer, todo,
                 timedOut, clientVars, creator>>

\* failPendingSnapshotRequestsForBoard takes all requests off ...
FailPending(c) ==
  /\ At(c, "ownerLeft")
  /\ Loop(c, pendingSnapshotRequests[board[c]], "failing", "done")
  /\ pendingSnapshotRequests' = [pendingSnapshotRequests EXCEPT ![board[c]] = {}]
  /\ UNCHANGED <<storeVars, connectionsByBoard, boardOwnerByBoard,
                 sessionByConn, disconnectReasonByConn, board, code, listing,
                 peer, timedOut, clientVars, creator>>

\* ... and closes the guests one after the other.
FailClose(c, t) ==
  /\ At(c, "failing")
  /\ Served(c, t, "done")
  /\ open' = [open EXCEPT ![t] = FALSE]
  /\ UNCHANGED <<storeVars, routerVars, board, code, listing, peer, timedOut,
                 roster, synced, creator>>

(***************************************************************************)
(* The environment: a client goes away, the network drops it, or it has    *)
(* been silent for twice the heartbeat interval; and time passes.          *)
(***************************************************************************)
Drop(c) ==
  /\ open[c]
  /\ open' = [open EXCEPT ![c] = FALSE]
  /\ UNCHANGED <<storeVars, routerVars, taskVars, roster, synced, creator>>

PassTime ==
  /\ Store!Tick
  /\ UNCHANGED <<routerVars, taskVars, clientVars, creator>>

\* Every connection of this instance is gone.
Finished == (\A c \in Conns : At(c, "done")) /\ UNCHANGED vars

(***************************************************************************)
(* The specification.                                                      *)
(***************************************************************************)

\* A message is read.
Handle(c) ==
  \/ SessionCreate(c)
  \/ JoinLookup(c)
  \/ SnapshotTake(c)
  \/ EventTouch(c)
  \/ AckCheckOwner(c)
  \/ Heartbeat(c)
  \/ KickFind(c)
  \/ RevokeTouch(c)

\* The goroutine of c goes on with what it has begun.
Continue(c) ==
  \/ RegisterOwner(c) \/ FinishCreate(c)
  \/ JoinCheckOwner(c) \/ JoinStore(c) \/ JoinRegister(c) \/ JoinSetOwner(c)
  \/ JoinPend(c) \/ JoinReply(c) \/ JoinAnnounce(c) \/ RequestSnapshot(c)
  \/ JoinRefuse(c) \/ JoinClose(c)
  \/ SnapshotFindTarget(c) \/ SnapshotTouch(c) \/ SnapshotForward(c)
  \/ EventBroadcast(c) \/ AckTouch(c)
  \/ KickTouch(c) \/ KickClose(c)
  \/ RevokeStore(c) \/ RevokeBroadcast(c) \/ RevokeDisconnect(c)
  \/ Unregister(c) \/ TakeReason(c) \/ LeaveStore(c) \/ LeaveClear(c)
  \/ LeaveBroadcast(c) \/ LeaveCheckOwner(c) \/ FailPending(c)
  \/ \E r \in Conns :
       \/ AnnounceTo(c, r) \/ EventTo(c, r) \/ RevokeTo(c, r)
       \/ RevokeClose(c, r) \/ LeaveTo(c, r) \/ FailClose(c, r)

Timer(t) == SnapshotTimeout(t) \/ TimeoutClose(t)

Next ==
  \/ \E c \in Conns : Handle(c) \/ Continue(c) \/ Timer(c) \/ Drop(c)
  \/ PassTime
  \/ Finished

Spec == Init /\ [][Next]_vars

(* A goroutine that has begun a handler is scheduled until it has finished
   it, a failed read is noticed, and a timer that was not stopped fires.
   Clients may fall silent and connections need not break. *)
Fairness ==
  \A c \in Conns : WF_vars(Continue(c)) /\ WF_vars(SnapshotTimeout(c)) /\ WF_vars(TimeoutClose(c))

FairSpec == Spec /\ Fairness

(***************************************************************************)
(* Properties.                                                             *)
(***************************************************************************)
Exists(b) == Store!Exists(b)

\* The connections that hold, or are about to take, a place on board b.
Members(b) ==
  connectionsByBoard[b] \cup
  {c \in Conns : board[c] = b /\ pc[c] \in {"created", "joinAdded"}}

(* Nobody haunts the store: a participant of a board is a connection that is
   attached to it, or one whose handler is between the store and the
   connection maps (createGuestSession to registerConnection, and
   unregisterConnection to RemoveParticipant).  A participant left behind
   would take one of the few places of the board until it expires. *)
NoGhostParticipants ==
  \A b \in BoardIDs : Exists(b) =>
    boardsByID[b].participants \subseteq
      Members(b) \cup {c \in Conns : board[c] = b /\ pc[c] \in {"unregistered", "reasonTaken"}}

(* The capacity of a board bounds the connections attached to it, although
   handleSessionJoin checks it on a copy of the board, JoinBoard checks it
   in another structure than the one registerConnection writes, and the
   board may expire in between. *)
ConnectionsWithinCapacity ==
  \A b \in BoardIDs : Cardinality(connectionsByBoard[b]) <= MaxParticipants

(* boardOwnerByBoard has an entry only for boards somebody is connected to:
   setBoardOwner runs outside the section that registers the connection, and
   unregisterConnection drops the entry with the last connection; in another
   order the entry would stay for ever. *)
OwnerEntryBacked ==
  \A b \in BoardIDs : boardOwnerByBoard[b] # NoConn =>
    /\ connectionsByBoard[b] # {}
    /\ boardOwnerByBoard[b] = creator[b]

(* A pending snapshot request belongs to a guest that is attached, or whose
   disconnect handler has still to clear it: no request survives its
   guest. *)
PendingBacked ==
  \A b \in BoardIDs : \A t \in pendingSnapshotRequests[b] :
    /\ board[t] = b
    /\ \/ sessionByConn[t] = b
       \/ pc[t] \in {"unregistered", "reasonTaken", "participantRemoved"}

(* The maps of the router hold nothing of connections that have gone: each is
   written in sections of its own, in the order of three handlers. *)
MapsBacked == OwnerEntryBacked /\ PendingBacked

\* A connection stays with its board from the moment it is attached.
SettledConns == {c \in Conns : Attached(c) \/ pc[c] \in LeaveSteps \cup {"done"}}

\* The sections of a handler before its connection is registered.
Unregistered == {"created", "joinFound", "joinOwnerSeen", "joinAdded"}

\* sessionByConn and connectionsByBoard agree with each other and with where
\* the handlers are.
SessionsAgree ==
  \A c \in Conns :
    /\ \A b \in BoardIDs : c \in connectionsByBoard[b] <=> sessionByConn[c] = b
    /\ Attached(c) =>
         sessionByConn[c] = board[c] /\ pc[c] \notin Unregistered \cup LeaveSteps \cup {"done"}
    /\ ~Attached(c) => pc[c] \in Unregistered \cup LeaveSteps \cup {"serving", "done"}
    /\ ~Attached(c) /\ pc[c] = "serving" => board[c] = NoBoard
    /\ pc[c] \in Unregistered \cup LeaveSteps => board[c] # NoBoard
    /\ pc[c] \in {"joinFound", "joinOwnerSeen"} => code[c] # NoCode

\* Who has created a board is its owner and joins no other; everybody else on
\* it has joined it.
RolesKept ==
  /\ \A b \in BoardIDs :
       /\ Exists(b) => creator[b] # NoConn
       /\ creator[b] # NoConn =>
            board[creator[b]] = b /\ (At(creator[b], "created") \/ creator[b] \in SettledConns)
  /\ \A c \in Conns :
       /\ board[c] # NoBoard => creator[board[c]] # NoConn
       /\ pc[c] \in CreateSteps \cup OwnerSteps \cup {"ownerLeft", "failing"} =>
            creator[board[c]] = c
       /\ pc[c] \in JoinSteps => creator[board[c]] # c

\* Whoever holds a place is in the store, unless the board has expired, and
\* nobody else is.
PlacesAgree ==
  /\ NoGhostParticipants
  /\ \A b \in BoardIDs :
       /\ Exists(b) => Members(b) \subseteq boardsByID[b].participants
       /\ IsFiniteSet(Members(b)) /\ Cardinality(Members(b)) <= MaxParticipants

\* The owner entry of a board stays while somebody is attached.
OwnerEntryKept ==
  \A c \in Conns :
    Attached(c) /\ pc[c] \notin {"joinRegistered", "ownerRegistered"} =>
      boardOwnerByBoard[board[c]] = creator[board[c]]

\* t has come to board b as a guest.
Guest(t, b) == t \in SettledConns /\ b \in BoardIDs /\ board[t] = b /\ creator[b] # t

\* Requests, timers, kicks and revocations are about guests, of the board of
\* whoever handles them.
OnlyGuests ==
  /\ \A b \in BoardIDs : \A t \in pendingSnapshotRequests[b] : Guest(t, b)
  /\ \A t \in timedOut \cup synced : Guest(t, board[t])
  /\ \A c \in Conns :
       /\ disconnectReasonByConn[c] # "none" => Guest(c, board[c])
       /\ peer[c] # NoConn => Guest(peer[c], board[c])
       /\ peer[c] # NoConn <=> pc[c] \in SnapshotSteps \cup {"kickFound", "kickTouched"}
       /\ pc[c] \in {"closing", "failing"} => \A t \in todo[c] : Guest(t, board[c])

\* The request of guest t is waiting; it has been taken off by the owner's
\* answer; it has been taken off by whoever will close the connection.
IsPending(t) == \E b \in BoardIDs : t \in pendingSnapshotRequests[b]
BeingAnswered(t) == \E c \in Conns : pc[c] \in SnapshotSteps /\ peer[c] = t
BeingFailed(t) ==
  \/ t \in timedOut
  \/ pc[t] = "joinFailed"
  \/ \E c \in Conns : pc[c] = "failing" /\ t \in todo[c]

\* Nothing has happened to a request before it is registered.
NothingBeforeAsking ==
  \A t \in Conns : pc[t] \in {"joinRegistered", "joinOwnerSet"} =>
    ~(IsPending(t) \/ BeingAnswered(t) \/ BeingFailed(t) \/ t \in synced)

(* The store, the connection maps, the owners, the pending requests and the
   handlers agree on who is on a board and as what, also between any two
   sections of any handlers.  (The inductive invariant; that a guest is in
   the store before it is in the maps, and in the maps longer than in the
   store, makes the capacity of the one bound the other.) *)
RelayInv ==
  /\ TypeOK /\ Store!StoreInv
  /\ SessionsAgree /\ RolesKept /\ PlacesAgree
  /\ MapsBacked /\ OwnerEntryKept /\ OnlyGuests /\ NothingBeforeAsking

\* The owner's disconnect handler has still to fail the pending requests.
OwnerWillFail(b) ==
  /\ board[creator[b]] = b
  /\ pc[creator[b]] \in LeaveSteps \ {"failing"}

(* No guest on an open connection waits for an owner that is gone.  The owner
   may disconnect at any point of a join; either the join finds it missing
   when it asks for the snapshot, or the owner's disconnect handler comes
   after the request and finds it.  (The timer is not needed for this.) *)
NoWaitForAbsentOwner ==
  \A b \in BoardIDs : \A t \in pendingSnapshotRequests[b] :
    \/ Connected(b, creator[b])
    \/ OwnerWillFail(b)
    \/ pc[t] \in JoinSteps \cup LeaveSteps
    \/ ~open[t]

(* A snapshot request has one outcome.  The owner's answer, the timer, the
   owner's disconnection and the failed request itself race for it; whoever
   takes it off the map decides, so that no guest is sent a snapshot and
   told that there is none. *)
OneOutcome ==
  \A t \in Conns :
    /\ ~(IsPending(t) /\ (BeingAnswered(t) \/ BeingFailed(t) \/ t \in synced))
    /\ ~(BeingAnswered(t) /\ (BeingFailed(t) \/ t \in synced))
    /\ ~(BeingFailed(t) /\ t \in synced)

(* ... and it has at least one: a guest on an open connection that was
   registered as waiting is waiting still, or is being answered or refused,
   or has its snapshot.  The exception is a board that expired while the
   owner's answer was handled: handleBoardSnapshot has then taken the request
   off and drops the answer. *)
NobodyForgotten ==
  \A t \in Conns, b \in BoardIDs :
    sessionByConn[t] = b /\ t # creator[b] /\ open[t] /\ Exists(b) =>
      \/ pc[t] \in {"joinRegistered", "joinOwnerSet"}
      \/ IsPending(t) \/ BeingAnswered(t) \/ BeingFailed(t)
      \/ t \in synced

(* The relay never puts the owner out of its own board: no kick, revocation,
   snapshot failure or timeout ever aims at the connection that created the
   board, at any stage of those handlers. *)
OwnerNotPutOut ==
  \A b \in BoardIDs : creator[b] # NoConn =>
    /\ disconnectReasonByConn[creator[b]] = "none"
    /\ creator[b] \notin timedOut
    /\ \A c \in Conns :
         /\ pc[c] \in {"closing", "failing"} => creator[b] \notin todo[c]
         /\ pc[c] \in OwnerSteps => peer[c] # creator[b]

(* Every guest that joins gets its snapshot or is let go, unless the board
   itself expires meanwhile. *)
GuestsServed ==
  \A t \in Conns, b \in BoardIDs :
    (sessionByConn[t] = b /\ t # creator[b])
      ~> (t \in synced \/ sessionByConn[t] # b \/ ~Exists(b))

(* A connection that is gone gives its place on the board back, whatever the
   handlers of others are doing. *)
PlacesGivenBack ==
  \A c \in Conns, b \in BoardIDs :
    (~open[c]) ~> (~Exists(b) \/ c \notin boardsByID[b].participants)

\* No handler, timer or disconnection is under way.
Quiet ==
  /\ timedOut = {}
  /\ \A c \in Conns : At(c, "done") \/ (At(c, "serving") /\ open[c])

(* A disagreement between the code and its documentation: the property below
   is what a document says of the relay, and does not hold. *)

(* Once the owner has revoked the code and everything has settled, only the
   owner is left on the board.  (handleBoardCodeRevoke closes the connections
   that are registered when it looks: a guest between JoinBoard and
   registerConnection stays.) *)
RevokedBoardHasNoGuests ==
  \A b \in BoardIDs :
    Quiet /\ Exists(b) /\ boardsByID[b].joinCode = NoCode
      => connectionsByBoard[b] \subseteq {creator[b]}
=============================================================================
