----------------------------- MODULE Participants -----------------------------
(***************************************************************************)
(* Who is shown in the participant panels of a board: the owner and its    *)
(* guests, the store's participants, the relay's connections, and the      *)
(* messages session.joined, participant.joined and participant.left.       *)
(*                                                                         *)
(* A guest enters in sections: JoinBoard returns the participants with     *)
(* it, its connection is registered, session.joined carries what JoinBoard *)
(* returned, and its arrival is broadcast.  It goes in sections as well.   *)
(* Other guests do the same in between.                                    *)
(*                                                                         *)
(* A connection enters once: whoever returns has a new one, a new actor id *)
(* and, with session.joined, a new panel.  The owner has created the board *)
(* and stays.  Places are not limited here.  JoinedWithEarlierCopy,        *)
(* JoinAnnouncedAsLeft and LeaveWithoutWord are faulty variants.           *)
(***************************************************************************)
EXTENDS Naturals, Sequences

CONSTANTS Owner, Guests  \* a guest is one of its connections

ASSUME ParticipantsAssumption == Owner \notin Guests

Users == Guests \cup {Owner}

VARIABLES
  pc,            \* guest -> where its goroutine is
  open,          \* guests whose connection is open
  participants,  \* store: the participants of the board
  connections,   \* relay: connectionsByBoard
  looked,        \* guest -> participants when handleSessionJoin looked the code up
  told,          \* guest -> participants as JoinBoard returned them
  sending,       \* guest -> what its goroutine broadcasts, and to whom
  inbox,         \* user -> messages under way to it
  panel          \* user -> participants of its session state

panelsVars == <<pc, open, participants, connections, looked, told, sending, inbox, panel>>

Stages == {"away", "looked", "stored", "registered", "replied", "joined",
           "unregistered", "removed", "gone"}

\* A list of participants, or the arrival or departure of one.
Roll(list) == [type |-> "session.joined", list |-> list]
Arrival(g) == [type |-> "participant.joined", actor |-> g]
Departure(g) == [type |-> "participant.left", actor |-> g]

Messages ==
  {Roll(list) : list \in SUBSET Users} \cup {Arrival(g) : g \in Guests}
    \cup {Departure(g) : g \in Guests}

Idle == [recipients |-> {}]
Broadcasts == {Idle} \cup [message : Messages, recipients : SUBSET Users]
IsIdle(g) == sending[g].recipients = {}

ParticipantsTypeOK ==
  /\ pc \in [Guests -> Stages]
  /\ open \subseteq Guests
  /\ participants \subseteq Users /\ connections \subseteq Users
  /\ looked \in [Guests -> SUBSET Users] /\ told \in [Guests -> SUBSET Users]
  /\ sending \in [Guests -> Broadcasts]
  /\ inbox \in [Users -> Seq(Messages)]
  /\ panel \in [Users -> SUBSET Users]

\* The board as session.created leaves it.
PanelsInit ==
  /\ pc = [g \in Guests |-> "away"]
  /\ open = {}
  /\ participants = {Owner} /\ connections = {Owner}
  /\ looked = [g \in Guests |-> {}] /\ told = [g \in Guests |-> {}]
  /\ sending = [g \in Guests |-> Idle]
  /\ inbox = [u \in Users |-> << >>]
  /\ panel = [u \in Users |-> IF u = Owner THEN {Owner} ELSE {}]

Goes(g, from, to) == pc[g] = from /\ IsIdle(g) /\ pc' = [pc EXCEPT ![g] = to]

\* A message written to a connection that is closed is lost.
Posted(queues, u, message) ==
  IF u \in open \cup {Owner} THEN [queues EXCEPT ![u] = Append(@, message)] ELSE queues

(***************************************************************************)
(* handleSessionJoin.                                                      *)
(***************************************************************************)

\* A new connection; GetBoardByJoinCode finds the board.
JoinLookup(g) ==
  /\ Goes(g, "away", "looked")
  /\ open' = open \cup {g}
  /\ looked' = [looked EXCEPT ![g] = participants]
  /\ UNCHANGED <<participants, connections, told, sending, inbox, panel>>

JoinedWithEarlierCopy(g) == looked[g] \cup {g}
\* What JoinBoard returns.
Joined(g) == participants \cup {g}

\* createGuestSession
JoinStore(g) ==
  /\ Goes(g, "looked", "stored")
  /\ participants' = participants \cup {g}
  /\ told' = [told EXCEPT ![g] = Joined(g)]
  /\ UNCHANGED <<open, connections, looked, sending, inbox, panel>>

\* registerConnection
JoinRegister(g) ==
  /\ Goes(g, "stored", "registered")
  /\ connections' = connections \cup {g}
  /\ UNCHANGED <<open, participants, looked, told, sending, inbox, panel>>

\* session.joined.  To a closed connection the write may fail, or may not yet.
JoinReply(g) ==
  /\ \/ Goes(g, "registered", "replied")
     \/ g \notin open /\ Goes(g, "registered", "joined")
  /\ inbox' = Posted(inbox, g, Roll(told[g]))
  /\ UNCHANGED <<open, participants, connections, looked, told, sending, panel>>

Others(g) == connections \ {g}
Broadcast(g, message) ==
  sending' = [sending EXCEPT ![g] = [message |-> message, recipients |-> Others(g)]]

\* The other event of the two.
JoinAnnouncedAsLeft(g) ==
  /\ Goes(g, "replied", "joined")
  /\ Broadcast(g, Departure(g))
  /\ UNCHANGED <<open, participants, connections, looked, told, inbox, panel>>

\* broadcastParticipantJoined takes its list.
JoinAnnounce(g) ==
  /\ Goes(g, "replied", "joined")
  /\ Broadcast(g, Arrival(g))
  /\ UNCHANGED <<open, participants, connections, looked, told, inbox, panel>>

\* A broadcast that has one recipient less, or is over.
Without(broadcast, u) ==
  IF broadcast.recipients \subseteq {u} THEN Idle
  ELSE [broadcast EXCEPT !.recipients = @ \ {u}]

\* broadcastBoardEvent: one write.
Write(g, u) ==
  /\ u \in sending[g].recipients
  /\ inbox' = Posted(inbox, u, sending[g].message)
  /\ sending' = [sending EXCEPT ![g] = Without(@, u)]
  /\ UNCHANGED <<pc, open, participants, connections, looked, told, panel>>

(***************************************************************************)
(* handleSocketDisconnect.                                                 *)
(***************************************************************************)

\* A connection is closed from either side (its client, a kick, the network).
Close(g) ==
  /\ g \in open
  /\ open' = open \ {g}
  /\ inbox' = [inbox EXCEPT ![g] = << >>]
  /\ UNCHANGED <<pc, participants, connections, looked, told, sending, panel>>

\* The next read fails: unregisterConnection.
Leave(g) ==
  /\ Goes(g, "joined", "unregistered")
  /\ g \notin open
  /\ connections' = connections \ {g}
  /\ UNCHANGED <<open, participants, looked, told, sending, inbox, panel>>

\* RemoveParticipant
LeaveStore(g) ==
  /\ Goes(g, "unregistered", "removed")
  /\ participants' = participants \ {g}
  /\ UNCHANGED <<open, connections, looked, told, sending, inbox, panel>>

LeaveWithoutWord(g) ==
  /\ Goes(g, "removed", "gone")
  /\ UNCHANGED <<open, participants, connections, looked, told, sending, inbox, panel>>

\* broadcastParticipantLeft takes its list.
LeaveBroadcast(g) ==
  /\ Goes(g, "removed", "gone")
  /\ Broadcast(g, Departure(g))
  /\ UNCHANGED <<open, participants, connections, looked, told, inbox, panel>>

(***************************************************************************)
(* The controllers.                                                        *)
(***************************************************************************)

\* handleSessionJoined, handleParticipantJoined, handleParticipantLeft.
Shown(shown, message) ==
  CASE message.type = "session.joined" -> message.list
    [] message.type = "participant.joined" -> shown \cup {message.actor}
    [] message.type = "participant.left" -> shown \ {message.actor}

Receive(u) ==
  /\ inbox[u] # << >>
  /\ panel' = [panel EXCEPT ![u] = Shown(@, Head(inbox[u]))]
  /\ inbox' = [inbox EXCEPT ![u] = Tail(@)]
  /\ UNCHANGED <<pc, open, participants, connections, looked, told, sending>>

PanelsNext ==
  \/ \E g \in Guests :
       \/ JoinLookup(g) \/ JoinStore(g) \/ JoinRegister(g) \/ JoinReply(g) \/ JoinAnnounce(g)
       \/ Close(g) \/ Leave(g) \/ LeaveStore(g) \/ LeaveBroadcast(g)
       \/ \E u \in Users : Write(g, u)
  \/ \E u \in Users : Receive(u)

PanelsSpec == PanelsInit /\ [][PanelsNext]_panelsVars

(***************************************************************************)
(* Properties.                                                             *)
(***************************************************************************)

\* The guests on the board, as everybody should see them.
Present == {g \in open : pc[g] = "joined"}

\* Everybody who came is in or out, and every message has arrived.
Settled ==
  /\ \A g \in Guests : IsIdle(g) /\ (pc[g] \in {"away", "gone"} \/ g \in Present)
  /\ \A u \in Users : inbox[u] = << >>

Waits(u, message) == \E k \in DOMAIN inbox[u] : inbox[u][k] = message

\* Before the guest is announced.
Early == {"away", "looked", "stored", "registered", "replied"}
\* Between JoinBoard and RemoveParticipant.
Inside == {"stored", "registered", "replied", "joined", "unregistered"}

\* The owner is told of an arrival, and later of the departure.
OwnerHears ==
  /\ Owner \in connections /\ Owner \in panel[Owner]
  /\ \A k \in DOMAIN inbox[Owner] : inbox[Owner][k].type # "session.joined"
  /\ \A g \in Guests :
       /\ pc[g] \in Early =>
            IsIdle(g) /\ g \notin panel[Owner] /\ ~Waits(Owner, Arrival(g))
       /\ pc[g] \in {"joined", "unregistered", "removed"} =>
            /\ IsIdle(g) \/ sending[g].message = Arrival(g)
            /\ g \in open =>
                 \/ g \in panel[Owner] \/ Waits(Owner, Arrival(g))
                 \/ Owner \in sending[g].recipients
       /\ pc[g] = "gone" =>
            /\ IsIdle(g) \/ sending[g].message = Departure(g)
            /\ \/ Owner \in sending[g].recipients
               \/ \E k \in DOMAIN inbox[Owner] :
                    /\ inbox[Owner][k] = Departure(g)
                    /\ \A n \in DOMAIN inbox[Owner] : n > k => inbox[Owner][n] # Arrival(g)
               \/ g \notin panel[Owner] /\ ~Waits(Owner, Arrival(g))

\* Nobody is said to leave who has not.
DeparturesAreTrue ==
  \A u \in Users, g \in Guests : Waits(u, Departure(g)) => pc[g] = "gone"

\* JoinBoard puts guests one before the other.
StoreOrders ==
  /\ \A g \in Guests : pc[g] \in Inside => g \in participants
  /\ \A g, h \in Guests :
       g # h /\ pc[g] \in Inside /\ pc[h] \in Inside => g \in told[h] \/ h \in told[g]

\* A guest's panel has those it was told of, but for those who have left.
PanelHasRoll ==
  \A g \in Guests :
    /\ \A k \in DOMAIN inbox[g] :
         inbox[g][k].type = "session.joined" =>
           inbox[g][k] = Roll(told[g]) /\ pc[g] \notin {"away", "looked"}
    /\ pc[g] \in {"replied", "joined"} /\ g \in open =>
         \A h \in told[g] \cap Guests :
           h \in panel[g] \/ pc[h] = "gone" \/ Waits(g, Roll(told[g]))

(* What panels show is what their users were told, and they are told the truth
   in the right order: the invariant from which the next two properties follow. *)
PanelsInv ==
  ParticipantsTypeOK /\ OwnerHears /\ DeparturesAreTrue /\ StoreOrders /\ PanelHasRoll

(* Once all has arrived, the owner's panel shows exactly who is on the board: it
   can kick each of them, and nobody else.  A guest's goroutine writes of its
   arrival before it writes of its departure, and a guest whose session.joined
   could not be written is not announced at all. *)
OwnerSeesEverybody == Settled => panel[Owner] = Present \cup {Owner}

(* Of two guests on a board at least one sees the other, once all has arrived:
   JoinBoard has put one of them before the other, session.joined carries what it
   returned, and no arrival or departure takes from a panel who is still there. *)
OneOfTwoSees ==
  Settled => \A g, h \in Present : g # h => g \in panel[h] \/ h \in panel[g]

(* "TestWebSocketParticipantJoinedNotifiesExistingParticipants"
   (router_ws_test.go:420): with the arrivals and departures that it is told of, a
   guest sees who is on the board.  It does not: whoever is announced after this
   guest's JoinBoard and before its session.joined is overwritten by it, or never
   written to it; whoever leaves in between stays in its panel. *)
GuestsSeeEverybody == Settled => \A g \in Present : panel[g] = Present \cup {Owner}
=============================================================================
