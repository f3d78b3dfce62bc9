-------------------------------- MODULE Collab --------------------------------
(***************************************************************************)
(* A board shared end to end: the owner and its guests, each with a sync   *)
(* controller and a board, and the relay between them.                     *)
(*                                                                         *)
(* It composes what Relay, SyncController and BoardStore have in detail,   *)
(* and keeps of each what decides which edit gets where: the relay writes  *)
(* an action to the connections that it listed when it read the action,    *)
(* one after the other; a guest is on that list before the owner is asked  *)
(* for its snapshot; the snapshot replaces the guest's board, whatever has *)
(* arrived there before.  Goroutines and clients take turns in any order.  *)
(* BoardFromMerged and RecipientsReady are faulty variants.                *)
(*                                                                         *)
(* A board is the set of edits on it: every edit makes an element of its   *)
(* own.  Guests come, lose their connections with all that is under way on *)
(* them, and return as new participants once the relay has noticed.  What  *)
(* the relay cannot do for a client it answers with an error, which ends   *)
(* the phase "ready" of that client: it keeps back its edits from then on, *)
(* and the owner passes over requests for its snapshot.                    *)
(*                                                                         *)
(* The owner's own connection lasts (when it goes, the board is over for   *)
(* the guests; SyncController has the owner's reconnection), so what it    *)
(* keeps back stays with it.  A request that times out closes the guest's  *)
(* connection, as LoseConnection does.  Messages have the right form.      *)
(***************************************************************************)
EXTENDS Naturals, Sequences

CONSTANTS
  Owner, Guests,
  MaxEdits,   \* bound: edits of each user
  MaxVisits   \* bound: sessions of each guest

Users == Guests \cup {Owner}

ASSUME CollabAssumption ==
  /\ Owner \notin Guests
  /\ MaxEdits \in Nat /\ MaxVisits \in Nat

VARIABLES
  visit,      \* guest -> its sessions so far: with the guest, an actor id
  phase,      \* user -> phase of its controller, as far as edits go
  expired,    \* relay: the board has expired
  attached,   \* relay: the guests in connectionsByBoard
  awaited,    \* relay: the guests with a pending snapshot request
  toAsk,      \* relay: those whose request has not been written yet
  relaying,   \* relay: user -> what its goroutine writes, and to whom
  toRelay, toClient,
  edited,     \* user -> the number of its edits
  onBoard,    \* user -> the edits on its board
  due         \* history: user -> edits it should see (EditsArrive)

relayVars == <<expired, attached, awaited, toAsk, relaying>>
collabVars == <<visit, phase, relayVars, toRelay, toClient, edited, onBoard, due>>

Edits == Users \X (1 .. MaxEdits)
Actor(g) == <<g, visit[g]>>
ActorIds == Guests \X (0 .. MaxVisits)

Messages ==
  [type : {"board.action"}, edit : Edits] \cup [type : {"error"}]
    \cup [type : {"board.snapshot.request"}, target : ActorIds]
    \cup [type : {"board.snapshot"}, target : ActorIds, board : SUBSET Edits]

\* A goroutine that writes to nobody reads the next message.
Idle == [recipients |-> {}]
Tasks == {Idle} \cup [message : Messages, recipients : SUBSET Users]
IsIdle(u) == relaying[u].recipients = {}
\* writeSocketError: the answer to a client's own message.
Refusal(u) == [message |-> [type |-> "error"], recipients |-> {u}]

CollabTypeOK ==
  /\ visit \in [Guests -> 0 .. MaxVisits]
  /\ phase \in [Users -> {"away", "awaiting_snapshot", "ready", "error"}]
  /\ expired \in BOOLEAN
  /\ attached \subseteq Guests /\ awaited \subseteq Guests /\ toAsk \subseteq Guests
  /\ relaying \in [Users -> Tasks]
  /\ toRelay \in [Users -> Seq(Messages)] /\ toClient \in [Users -> Seq(Messages)]
  /\ edited \in [Users -> 0 .. MaxEdits]
  /\ onBoard \in [Users -> SUBSET Edits]
  /\ due \in [Users -> SUBSET Edits]

CollabInit ==
  /\ visit = [g \in Guests |-> 0]
  /\ phase = [u \in Users |-> IF u = Owner THEN "ready" ELSE "away"]
  /\ expired = FALSE
  /\ attached = {} /\ awaited = {} /\ toAsk = {}
  /\ relaying = [u \in Users |-> Idle]
  /\ toRelay = [u \in Users |-> << >>]
  /\ toClient = [u \in Users |-> << >>]
  /\ edited = [u \in Users |-> 0]
  /\ onBoard = [u \in Users |-> {}]
  /\ due = [u \in Users |-> {}]

Posted(queues, u, message) == [queues EXCEPT ![u] = Append(@, message)]
\* Whose actions are sent, and who has the board open for editing: an error
\* locks nobody out.
Ready == {u \in Users : phase[u] = "ready"}
Opened == {u \in Users : phase[u] \in {"ready", "error"}}

\* A broadcast that has one recipient less, or is over.
Without(task, u) ==
  IF task.recipients \subseteq {u} THEN Idle ELSE [task EXCEPT !.recipients = @ \ {u}]

(***************************************************************************)
(* Clients.                                                                *)
(***************************************************************************)

\* A local edit, and sendBoardAction: the action is sent when the controller is
\* ready, and kept back for good after an error.  (It would be sent with a new
\* session: the owner's lasts, and a guest has errors only when the board has
\* expired, and no session any more.)
Edit(u) ==
  LET edit == <<u, edited[u] + 1>> IN
  /\ u \in Opened
  /\ edited[u] < MaxEdits
  /\ edited' = [edited EXCEPT ![u] = @ + 1]
  /\ onBoard' = [onBoard EXCEPT ![u] = @ \cup {edit}]
  /\ \/ /\ u \in Ready
        /\ toRelay' = Posted(toRelay, u, [type |-> "board.action", edit |-> edit])
        /\ due' = [v \in Users |->
                     IF v \in Opened \/ u = Owner THEN due[v] \cup {edit} ELSE due[v]]
     \/ u \notin Ready /\ UNCHANGED <<toRelay, due>>
  /\ UNCHANGED <<visit, phase, relayVars, toClient>>

HasMessage(u, type) == toClient[u] # << >> /\ Head(toClient[u]).type = type
TakeMessage(u) == toClient' = [toClient EXCEPT ![u] = Tail(@)]

\* handleBoardAction, in any phase.
ReceiveAction(u) ==
  /\ HasMessage(u, "board.action")
  /\ TakeMessage(u)
  /\ onBoard' = [onBoard EXCEPT ![u] = @ \cup {Head(toClient[u]).edit}]
  /\ UNCHANGED <<visit, phase, relayVars, toRelay, edited, due>>

\* handleError
ReceiveError(u) ==
  /\ HasMessage(u, "error")
  /\ TakeMessage(u)
  /\ phase' = [phase EXCEPT ![u] = "error"]
  /\ UNCHANGED <<visit, relayVars, toRelay, edited, onBoard, due>>

\* handleBoardSnapshotRequest: passed over unless the owner's controller is ready.
AnswerRequest ==
  /\ HasMessage(Owner, "board.snapshot.request")
  /\ TakeMessage(Owner)
  /\ \/ /\ Owner \in Ready
        /\ toRelay' = Posted(toRelay, Owner, [type |-> "board.snapshot",
                                              target |-> Head(toClient[Owner]).target,
                                              board |-> onBoard[Owner]])
     \/ Owner \notin Ready /\ UNCHANGED toRelay
  /\ UNCHANGED <<visit, phase, relayVars, edited, onBoard, due>>

BoardFromMerged(g, board) == onBoard[g] \cup board
BoardFrom(g, board) == board

\* handleBoardSnapshot (the acknowledgement changes no board)
ReceiveSnapshot(g) ==
  /\ HasMessage(g, "board.snapshot")
  /\ Head(toClient[g]).target = Actor(g)
  /\ TakeMessage(g)
  /\ onBoard' = [onBoard EXCEPT ![g] = BoardFrom(g, Head(toClient[g]).board)]
  /\ phase' = [phase EXCEPT ![g] = "ready"]
  /\ UNCHANGED <<visit, relayVars, toRelay, edited, due>>

\* The edits in messages that the relay has not read.
UnreadEdits(g) == {toRelay[g][k].edit : k \in DOMAIN toRelay[g]}

IsForwardingTo(g) ==
  g \in relaying[Owner].recipients /\ relaying[Owner].message.type = "board.snapshot"

\* A connection is lost, with what was under way on it.  The owner gets an error
\* for the snapshot that can no longer be written, unless it was written for
\* nobody to read; a broadcast just passes over the guest.
LoseConnection(g) ==
  /\ phase[g] # "away"
  /\ phase' = [phase EXCEPT ![g] = "away"]
  /\ attached' = attached \ {g}
  /\ awaited' = awaited \ {g}
  /\ toAsk' = toAsk \ {g}
  /\ toRelay' = [toRelay EXCEPT ![g] = << >>]
  /\ toClient' = [toClient EXCEPT ![g] = << >>]
  /\ \E refused \in {FALSE, IsForwardingTo(g)} :
       relaying' = [u \in Users |-> IF refused /\ u = Owner THEN Refusal(Owner)
                                                          ELSE Without(relaying[u], g)]
  /\ due' = [u \in Users |-> IF u = g THEN {e \in due[g] : e[1] = Owner}
                                      ELSE due[u] \ UnreadEdits(g)]
  /\ UNCHANGED <<visit, expired, edited, onBoard>>

(***************************************************************************)
(* The relay.                                                              *)
(***************************************************************************)

\* handleSessionJoin, up to registerPendingSnapshotRequest ...
Join(g) ==
  /\ phase[g] = "away" /\ visit[g] < MaxVisits
  /\ IsIdle(g) /\ ~expired
  /\ visit' = [visit EXCEPT ![g] = @ + 1]
  /\ phase' = [phase EXCEPT ![g] = "awaiting_snapshot"]
  /\ attached' = attached \cup {g}
  /\ awaited' = awaited \cup {g}
  /\ toAsk' = toAsk \cup {g}
  /\ UNCHANGED <<expired, relaying, toRelay, toClient, edited, onBoard, due>>

\* ... and sendBoardSnapshotRequest.
AskOwner(g) ==
  /\ g \in toAsk
  /\ toAsk' = toAsk \ {g}
  /\ toClient' = Posted(toClient, Owner,
                        [type |-> "board.snapshot.request", target |-> Actor(g)])
  /\ UNCHANGED <<visit, phase, expired, attached, awaited, relaying, toRelay, edited, onBoard, due>>

RecipientsReady(u) == ((attached \cap Ready) \cup {Owner}) \ {u}
\* connectionsForBoard
Recipients(u) == (attached \cup {Owner}) \ {u}

Reads(u, type) == IsIdle(u) /\ toRelay[u] # << >> /\ Head(toRelay[u]).type = type
NextMessage(u) == toRelay' = [toRelay EXCEPT ![u] = Tail(@)]

\* handleBoardAction: the action goes to all who are listed, unless the board has
\* expired.
RelayAction(u) ==
  LET message == Head(toRelay[u]) IN
  /\ Reads(u, "board.action")
  /\ NextMessage(u)
  /\ \/ /\ ~expired
        /\ relaying' = [relaying EXCEPT ![u] = [message |-> message, recipients |-> Recipients(u)]]
        /\ UNCHANGED due
     \/ /\ expired
        /\ relaying' = [relaying EXCEPT ![u] = Refusal(u)]
        /\ due' = [v \in Users |-> due[v] \ {message.edit}]
  /\ UNCHANGED <<visit, phase, expired, attached, awaited, toAsk, toClient, edited, onBoard>>

\* handleBoardSnapshot: a snapshot that nobody awaits is refused, and so is one
\* for a board that has expired, when the request has been taken off the list.
RelaySnapshot ==
  LET target == Head(toRelay[Owner]).target
      isAwaited == target[1] \in awaited /\ target = Actor(target[1]) IN
  /\ Reads(Owner, "board.snapshot")
  /\ NextMessage(Owner)
  /\ awaited' = IF isAwaited THEN awaited \ {target[1]} ELSE awaited
  /\ \/ /\ isAwaited /\ ~expired
        /\ relaying' = [relaying EXCEPT ![Owner] = [message |-> Head(toRelay[Owner]),
                                                    recipients |-> {target[1]}]]
     \/ /\ ~isAwaited \/ expired
        /\ relaying' = [relaying EXCEPT ![Owner] = Refusal(Owner)]
  /\ UNCHANGED <<visit, phase, expired, attached, toAsk, toClient, edited, onBoard, due>>

\* The client reads the error for another message of its own: a presence update or
\* an acknowledgement after the board has expired, or the kick of a guest that has
\* gone.  These messages change no board and are not in the queues.
RefuseOther(u) ==
  /\ u \in Ready
  /\ \/ expired
     \/ u = Owner /\ \E g \in Guests : visit[g] > IF phase[g] = "away" THEN 0 ELSE 1
  /\ phase' = [phase EXCEPT ![u] = "error"]
  /\ UNCHANGED <<visit, relayVars, toRelay, toClient, edited, onBoard, due>>

\* The board expires.
Expire ==
  /\ ~expired
  /\ expired' = TRUE
  /\ UNCHANGED <<visit, phase, attached, awaited, toAsk, relaying, toRelay, toClient,
                 edited, onBoard, due>>

\* broadcastBoardEvent: one write.
WriteTo(u, v) ==
  /\ v \in relaying[u].recipients
  /\ toClient' = Posted(toClient, v, relaying[u].message)
  /\ relaying' = [relaying EXCEPT ![u] = Without(@, v)]
  /\ UNCHANGED <<visit, phase, expired, attached, awaited, toAsk, toRelay, edited, onBoard, due>>

CollabNext ==
  \/ AnswerRequest \/ RelaySnapshot \/ Expire
  \/ \E u \in Users :
       \/ Edit(u) \/ ReceiveAction(u) \/ ReceiveError(u) \/ RelayAction(u) \/ RefuseOther(u)
       \/ \E v \in Users : WriteTo(u, v)
  \/ \E g \in Guests : Join(g) \/ AskOwner(g) \/ ReceiveSnapshot(g) \/ LoseConnection(g)

CollabSpec == CollabInit /\ [][CollabNext]_collabVars

(***************************************************************************)
(* Properties.                                                             *)
(***************************************************************************)

\* Nothing is under way.
Settled == \A u \in Users : IsIdle(u) /\ toRelay[u] = << >> /\ toClient[u] = << >>

(* Once all has arrived, whoever has the board open sees every edit that the
   owner has sent, also those made while the snapshot was under way, and every
   edit sent by others while it had the board open, unless it was lost with its
   author's connection or refused because the board had expired: an action of the
   owner that reaches a guest before the snapshot is in the snapshot, or it is
   written after it.  The relay need not wait for a guest's acknowledgement before
   it sends it actions, and a user whose own edits are kept back after an error
   still gets those of others.  What is kept back is due to nobody. *)
EditsArrive == Settled => \A u \in Opened : due[u] \subseteq onBoard[u]

(* Once all has arrived, nobody who is ready sees an edit that the owner has not:
   the board of the owner is the one of record, also when the author of an edit
   has lost its connection in the middle of the broadcast, or learns from an
   error that its edit was not passed on (it is no more ready then). *)
OwnerHasEverything == Settled => \A u \in Ready : onBoard[u] \subseteq onBoard[Owner]

(* "Guest acknowledges the snapshot and starts receiving live board.action
   events" (README.md, Sync model): with the snapshot and the events, a guest
   has what the owner has, while the board lasts and the owner's controller is
   ready.  It has not: an action of another guest may be written to the new guest
   first and to the owner after the owner has taken the snapshot, which then
   removes it from the new guest's board. *)
GuestsHaveEverything ==
  Settled /\ ~expired /\ Owner \in Ready =>
    \A u \in Ready : onBoard[Owner] \subseteq onBoard[u]
=============================================================================
