---------------------------- MODULE SocketClient ----------------------------
(***************************************************************************)
(* The frontend's WebSocket client (socket-client.ts): one current socket,  *)
(* a queue of messages for the time it is not open, and a timer that opens  *)
(* a replacement after an unexpected close.                                 *)
(*                                                                          *)
(* Every action is one turn of the browser's event loop.  onStatusChange is *)
(* called synchronously, so an action takes in "messages" what its caller,  *)
(* or the callback it runs, passes to send in the same turn.  The backoff   *)
(* delay is abstracted to a timer that fires at some time.  Sockets are     *)
(* numbered in the order in which they are created.                         *)
(*                                                                          *)
(* A definition named after another one with a suffix that says what is     *)
(* wrong with it (StopTimerNever, ...) is a faulty variant, which nothing   *)
(* uses: a property is shown to notice it in the place of the original.     *)
(***************************************************************************)
EXTENDS Integers, Sequences, FiniteSets

CONSTANTS Urls,        \* addresses the caller may connect to
          NoUrl,       \* socketUrl = null
          Messages,    \* what the caller may send
          Batches,     \* what a turn may send: sequences of messages
          MaxSockets   \* bound on the sockets created, so on the failures

ASSUME SocketAssumption == /\ MaxSockets \in Nat
                           /\ NoUrl \notin Urls
                           /\ Batches \subseteq Seq(Messages)

VARIABLES socketUrl,        \* the address wanted, NoUrl after disconnect
          socket,           \* the current socket, NoSocket when there is none
          reconnectTimer,   \* the reconnect timer is running
          queuedMessages,
          manualDisconnect,
          status,
          readyState,       \* WebSocket.readyState of every socket
          written           \* the messages passed to the send of every socket

vars == <<socketUrl, socket, reconnectTimer, queuedMessages,
          manualDisconnect, status, readyState, written>>

NoSocket == 0
Sockets == 1..MaxSockets
Statuses == {"idle", "connecting", "connected", "reconnecting", "stopped"}
ReadyStates == {"none", "connecting", "open", "closing", "closed"}

TypeOK ==
  /\ socketUrl \in Urls \cup {NoUrl}
  /\ socket \in Sockets \cup {NoSocket}
  /\ reconnectTimer \in BOOLEAN
  /\ queuedMessages \in Seq(Messages)
  /\ manualDisconnect \in BOOLEAN
  /\ status \in Statuses
  /\ readyState \in [Sockets -> ReadyStates]
  /\ written \in [Sockets -> Seq(Messages)]

Init ==
  /\ socketUrl = NoUrl
  /\ socket = NoSocket
  /\ reconnectTimer = FALSE
  /\ queuedMessages = <<>>
  /\ manualDisconnect = FALSE
  /\ status = "idle"
  /\ readyState = [s \in Sockets |-> "none"]
  /\ written = [s \in Sockets |-> <<>>]

IsOpen == socket # NoSocket /\ readyState[socket] = "open"

\* send accepts messages between connect and disconnect.
Accepts == ~manualDisconnect /\ socketUrl # NoUrl

\* s is the next socket createSocket returns.
IsNew(s) == /\ readyState[s] = "none"
            /\ \A t \in Sockets : t < s => readyState[t] # "none"

\* The bound on failures: the last socket stays.
FailuresLeft == \E s \in Sockets : readyState[s] = "none"

\* What close does to the current socket, if there is one.
AbandonedStopped == IF socket = NoSocket THEN readyState
                    ELSE [readyState EXCEPT ![socket] = "stopped"]
Abandoned == IF socket = NoSocket THEN readyState
             ELSE [readyState EXCEPT ![socket] = "closing"]

StopTimerNever == UNCHANGED reconnectTimer
StopTimer == reconnectTimer' = FALSE

FlushNothing(s) == UNCHANGED <<written, queuedMessages>>
FlushWithoutRemoving(s) ==
  /\ written' = [written EXCEPT ![s] = @ \o queuedMessages]
  /\ UNCHANGED queuedMessages
FlushQueuedMessages(s) ==
  /\ written' = [written EXCEPT ![s] = @ \o queuedMessages]
  /\ queuedMessages' = <<>>

\* The status changes, the callback, which runs if that is a change, sends
\* messages, which are queued, and the timer is started.
ScheduleReconnectOnce(messages) ==
  /\ status' = "reconnecting"
  /\ queuedMessages' = queuedMessages \o messages
  /\ reconnectTimer' = (status # "reconnecting")
ScheduleReconnectQuietly(messages) ==
  /\ UNCHANGED status
  /\ queuedMessages' = queuedMessages \o messages
  /\ reconnectTimer' = TRUE
ScheduleReconnect(messages) ==
  /\ messages # <<>> => status # "reconnecting"
  /\ status' = "reconnecting"
  /\ queuedMessages' = queuedMessages \o messages
  /\ reconnectTimer' = TRUE

-----------------------------------------------------------------------------
(* Calls of the client's user.                                              *)

Send(messages) ==
  /\ \/ /\ Accepts /\ IsOpen
        /\ written' = [written EXCEPT ![socket] = @ \o messages]
        /\ UNCHANGED queuedMessages
     \/ /\ Accepts /\ ~IsOpen
        /\ queuedMessages' = queuedMessages \o messages
        /\ UNCHANGED written
     \/ /\ ~Accepts
        /\ UNCHANGED <<queuedMessages, written>>
  /\ UNCHANGED <<socketUrl, socket, reconnectTimer, manualDisconnect, status,
                 readyState>>

\* connect while the current socket already leads to url changes nothing.
AlreadyConnecting(url) == socketUrl = url /\ socket # NoSocket

\* Otherwise connect gives up the socket, the timer and the queue of an
\* earlier connection, and opens a socket.
OpenAnew(url, messages) ==
  /\ ~AlreadyConnecting(url)
  /\ socketUrl' = url
  /\ manualDisconnect' = FALSE
  /\ StopTimer
  /\ queuedMessages' = (IF socket # NoSocket \/ reconnectTimer
                        THEN <<>> ELSE queuedMessages) \o messages
  /\ \E s \in Sockets :
       /\ IsNew(s)
       /\ socket' = s
       /\ readyState' = [Abandoned EXCEPT ![s] = "connecting"]
  /\ status' = "connecting"
  /\ UNCHANGED written

\* connect, followed by the sends its caller makes before the turn ends.
Connect(url, messages) ==
  \/ AlreadyConnecting(url) /\ Send(messages)
  \/ OpenAnew(url, messages)

LetGo == readyState' = Abandoned /\ socket' = NoSocket

Disconnect ==
  /\ manualDisconnect' = TRUE
  /\ StopTimer
  /\ queuedMessages' = <<>>
  /\ socketUrl' = NoUrl
  /\ status' = "stopped"
  /\ LetGo
  /\ UNCHANGED written

-----------------------------------------------------------------------------
(* Events of the sockets and of the timer.                                  *)

\* onopen: the queue is written to the new socket.  A socket that is not the
\* current one is ignored.
SocketOpens(s) ==
  /\ readyState[s] = "connecting"
  /\ readyState' = [readyState EXCEPT ![s] = "open"]
  /\ \/ /\ socket = s /\ ~manualDisconnect
        /\ StopTimer
        /\ status' = "connected"
        /\ FlushQueuedMessages(s)
     \/ /\ socket # s \/ manualDisconnect
        /\ UNCHANGED <<reconnectTimer, status, written, queuedMessages>>
  /\ UNCHANGED <<socketUrl, socket, manualDisconnect>>

\* The closing handshake has begun; onclose comes later.  Until then the
\* socket is current but no longer takes messages.
SocketCloseBegins(s) ==
  /\ readyState[s] = "open"
  /\ FailuresLeft
  /\ readyState' = [readyState EXCEPT ![s] = "closing"]
  /\ UNCHANGED <<socketUrl, socket, reconnectTimer, queuedMessages,
                 manualDisconnect, status, written>>

MayClose(s) == readyState[s] \in {"connecting", "open", "closing"}

\* onclose of the current socket.  (Its test of manualDisconnect never fails:
\* CurrentIsWanted.)
CurrentCloses(s, messages) ==
  /\ MayClose(s) /\ FailuresLeft
  /\ socket = s /\ Accepts
  /\ readyState' = [readyState EXCEPT ![s] = "closed"]
  /\ socket' = NoSocket
  /\ ScheduleReconnect(messages)
  /\ UNCHANGED <<socketUrl, manualDisconnect, written>>

\* onclose when the callback throws: the exception leaves the handler before
\* the timer is started.
CallbackThrows(s) ==
  /\ MayClose(s) /\ FailuresLeft
  /\ socket = s /\ Accepts
  /\ status # "reconnecting"
  /\ readyState' = [readyState EXCEPT ![s] = "closed"]
  /\ socket' = NoSocket
  /\ status' = "reconnecting"
  /\ UNCHANGED <<socketUrl, reconnectTimer, queuedMessages, manualDisconnect,
                 written>>

\* onclose of a socket given up earlier is ignored.
StaleCloses(s) ==
  /\ MayClose(s)
  /\ socket # s
  /\ readyState' = [readyState EXCEPT ![s] = "closed"]
  /\ UNCHANGED <<socketUrl, socket, reconnectTimer, queuedMessages,
                 manualDisconnect, status, written>>

TimerFires ==
  /\ reconnectTimer
  /\ reconnectTimer' = FALSE
  /\ Accepts
  /\ \E s \in Sockets :
       /\ IsNew(s)
       /\ socket' = s
       /\ readyState' = [readyState EXCEPT ![s] = "connecting"]
  /\ status' = "reconnecting"
  /\ UNCHANGED <<socketUrl, queuedMessages, manualDisconnect, written>>

-----------------------------------------------------------------------------
Next ==
  \/ \E messages \in Batches : Send(messages)
  \/ \E url \in Urls, messages \in Batches : Connect(url, messages)
  \/ Disconnect
  \/ TimerFires
  \/ \E s \in Sockets :
       \/ SocketOpens(s)
       \/ SocketCloseBegins(s)
       \/ StaleCloses(s)
       \/ \E messages \in Batches : CurrentCloses(s, messages)

Spec == Init /\ [][Next]_vars

-----------------------------------------------------------------------------
(* Properties                                                               *)

\* A socket is current only while its address is wanted: what onclose and
\* onopen test before they act.
CurrentIsWanted == socket # NoSocket => Accepts

\* Never two connections: of all the sockets ever created only the current
\* one is connecting or open, whatever the order of connect, disconnect, the
\* timer and the close events (openSocket overwrites the current socket
\* without closing it, so a timer left running would leak one).
OneLiveSocket ==
  \A s \in Sockets : readyState[s] \in {"connecting", "open"} => socket = s

\* The client never gives up: while an address is wanted there is either a
\* socket that has not closed or a timer that will open one, never neither and
\* never both.
KeepsTrying ==
  /\ Accepts => (reconnectTimer <=> socket = NoSocket)
  /\ ~Accepts => socket = NoSocket /\ ~reconnectTimer
  /\ socket # NoSocket => readyState[socket] \in {"connecting", "open", "closing"}

\* No message waits behind an open socket, where a direct send would overtake
\* it.
NothingWaitsWhileOpen == IsOpen => queuedMessages = <<>>

\* The status shown is the state of the connection.
StatusIsTrue ==
  /\ IsOpen => status = "connected"
  /\ status = "connected" => IsOpen \/ (socket # NoSocket /\ readyState[socket] = "closing")
  /\ status \in {"idle", "stopped"} <=> ~Accepts

\* The timer runs only for want of a socket, and the current socket has not
\* closed.
TimerIsNeeded ==
  /\ reconnectTimer => Accepts /\ socket = NoSocket
  /\ socket # NoSocket => readyState[socket] \in {"connecting", "open", "closing"}

\* What holds whatever the callback does, also when it throws and the client
\* gives up.
LinkInv ==
  /\ TypeOK
  /\ CurrentIsWanted
  /\ OneLiveSocket
  /\ TimerIsNeeded
  /\ NothingWaitsWhileOpen
  /\ StatusIsTrue

\* One connection, that is wanted, told of as it is and never given up, with no
\* message stuck behind it, under every order of calls, events and the timer.
\* (The inductive invariant, as these need each other: KeepsTrying needs
\* CurrentIsWanted when a socket closes, OneLiveSocket needs TimerIsNeeded when
\* the timer fires.)
SocketInv == LinkInv /\ KeepsTrying
=============================================================================
