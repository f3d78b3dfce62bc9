------------------------- MODULE SocketClientProofs -------------------------
(***************************************************************************)
(* Proofs about the socket client: one live connection, no silent giving   *)
(* up, no message stuck behind an open socket, for any addresses, messages *)
(* and number of sockets.  Each operation keeps LinkInv; that the client   *)
(* goes on trying it keeps too, unless a callback throws, which only the   *)
(* controller's does.                                                       *)
(***************************************************************************)
EXTENDS SocketClient, SequenceTheorems, TLAPS

\* TypeOK in two parts, for the provers: the messages, and the connection.
QueuesOK == /\ queuedMessages \in Seq(Messages)
            /\ written \in [Sockets -> Seq(Messages)]

LinkOK == /\ socketUrl \in Urls \cup {NoUrl}
          /\ socket \in Sockets \cup {NoSocket}
          /\ reconnectTimer \in BOOLEAN
          /\ manualDisconnect \in BOOLEAN
          /\ status \in Statuses
          /\ readyState \in [Sockets -> ReadyStates]

LEMMA TypeInTwo == TypeOK <=> QueuesOK /\ LinkOK
  BY DEF TypeOK, QueuesOK, LinkOK

\* Adding messages to a queue, or to what a socket was given, yields one.
LEMMA MoreMessages ==
  ASSUME QueuesOK, NEW s \in Sockets, NEW messages \in Seq(Messages)
  PROVE  /\ queuedMessages \o messages \in Seq(Messages)
         /\ [written EXCEPT ![s] = @ \o messages] \in [Sockets -> Seq(Messages)]
<1>1. written[s] \in Seq(Messages)
  BY DEF QueuesOK
<1>2. written[s] \o messages \in Seq(Messages)
  BY <1>1, ConcatProperties
<1>3. [written EXCEPT ![s] = @ \o messages] \in [Sockets -> Seq(Messages)]
  BY <1>2 DEF QueuesOK
<1> QED BY <1>3, ConcatProperties DEF QueuesOK

\* The initial state satisfies the invariant.
LEMMA SocketInvInit == Init => SocketInv
<1> SUFFICES ASSUME Init PROVE SocketInv
  OBVIOUS
<1>1. QueuesOK
  BY EmptySeq DEF Init, QueuesOK
<1>2. LinkOK
  BY DEF Init, LinkOK, Statuses, ReadyStates
<1>3. CurrentIsWanted /\ OneLiveSocket /\ NothingWaitsWhileOpen
  BY DEF Init, CurrentIsWanted, OneLiveSocket, NothingWaitsWhileOpen, IsOpen
<1>4. KeepsTrying /\ TimerIsNeeded /\ StatusIsTrue
  BY DEF Init, KeepsTrying, TimerIsNeeded, StatusIsTrue, IsOpen, Accepts
<1> QED BY <1>1, <1>2, <1>3, <1>4, TypeInTwo DEF SocketInv, LinkInv

\* A send, direct or queued, keeps the invariant.
LEMMA SendKeepsInv ==
  ASSUME LinkInv, NEW messages \in Seq(Messages), Send(messages)
  PROVE  LinkInv' /\ (KeepsTrying => KeepsTrying')
<1> USE SocketAssumption DEF LinkInv, Sockets, NoSocket, Accepts, IsOpen,
         StopTimer, LetGo, FlushQueuedMessages, ScheduleReconnect
<1>1. TypeOK'
  <2>1. QueuesOK /\ LinkOK
    BY TypeInTwo
  <2>2. IsOpen => socket \in Sockets
    BY <2>1 DEF LinkOK
  <2>3. QueuesOK'
    <3>1. CASE UNCHANGED <<queuedMessages, written>>
      BY <2>1, <3>1 DEF QueuesOK
    <3>2. CASE /\ IsOpen
               /\ written' = [written EXCEPT ![socket] = @ \o messages]
               /\ UNCHANGED queuedMessages
      <4>1. written' \in [Sockets -> Seq(Messages)]
        BY <2>1, <2>2, <3>2, MoreMessages
      <4> QED BY <2>1, <3>2, <4>1 DEF QueuesOK
    <3>3. CASE queuedMessages' = queuedMessages \o messages /\ UNCHANGED written
      BY <2>1, <3>3, ConcatProperties DEF QueuesOK
    <3> QED BY <3>1, <3>2, <3>3 DEF Send
  <2>4. LinkOK'
    BY <2>1 DEF Send, LinkOK
  <2> QED BY <2>3, <2>4 DEF TypeOK, QueuesOK, LinkOK
<1>2. CurrentIsWanted' /\ OneLiveSocket' /\ TimerIsNeeded' /\ (KeepsTrying => KeepsTrying') /\ StatusIsTrue'
  BY DEF Send, CurrentIsWanted, OneLiveSocket, TimerIsNeeded, KeepsTrying, StatusIsTrue
<1>3. NothingWaitsWhileOpen'
  BY DEF Send, NothingWaitsWhileOpen, CurrentIsWanted
<1> QED BY <1>1, <1>2, <1>3

\* Opening a socket after giving up what an earlier connect left behind keeps
\* the invariant.
LEMMA OpenAnewKeepsInv ==
  ASSUME LinkInv, NEW url \in Urls, NEW messages \in Seq(Messages),
         OpenAnew(url, messages)
  PROVE  LinkInv' /\ (KeepsTrying => KeepsTrying')
<1> USE SocketAssumption DEF LinkInv, Sockets, NoSocket, Accepts, IsOpen,
         StopTimer, LetGo, FlushQueuedMessages, ScheduleReconnect
<1>1. PICK s \in Sockets :
        /\ IsNew(s)
        /\ socket' = s
        /\ readyState' = [Abandoned EXCEPT ![s] = "connecting"]
  BY DEF OpenAnew
<1>2. Abandoned \in [Sockets -> ReadyStates]
  BY DEF Abandoned, TypeOK, ReadyStates
<1>3. readyState'[s] = "connecting"
  BY <1>1, <1>2
<1>4. \A t \in Sockets \ {s} : readyState'[t] \notin {"connecting", "open"}
  <2> SUFFICES ASSUME NEW t \in Sockets \ {s}
               PROVE  readyState'[t] \notin {"connecting", "open"}
    OBVIOUS
  <2>1. readyState'[t] = Abandoned[t]
    BY <1>1, <1>2
  <2>2. readyState \in [Sockets -> ReadyStates]
    BY DEF TypeOK
  <2>3. CASE socket = NoSocket
    BY <2>1, <2>3 DEF Abandoned, OneLiveSocket
  <2>4. CASE socket # NoSocket /\ t = socket
    BY <2>1, <2>2, <2>4 DEF Abandoned
  <2>5. CASE socket # NoSocket /\ t # socket
    BY <2>1, <2>2, <2>5 DEF Abandoned, OneLiveSocket
  <2> QED BY <2>3, <2>4, <2>5
<1>5. TypeOK'
  <2>1. QueuesOK /\ LinkOK
    BY TypeInTwo
  <2>2. QueuesOK'
    BY <2>1, EmptySeq, ConcatProperties DEF OpenAnew, QueuesOK
  <2>3. LinkOK'
    BY <2>1, <1>1, <1>2 DEF OpenAnew, LinkOK, Statuses, ReadyStates
  <2> QED BY <2>2, <2>3 DEF TypeOK, QueuesOK, LinkOK
<1>6. CurrentIsWanted' /\ OneLiveSocket' /\ NothingWaitsWhileOpen'
  BY <1>1, <1>3, <1>4 DEF OpenAnew, CurrentIsWanted, OneLiveSocket, NothingWaitsWhileOpen
<1>7. TimerIsNeeded' /\ (KeepsTrying => KeepsTrying') /\ StatusIsTrue'
  BY <1>1, <1>3 DEF OpenAnew, TimerIsNeeded, KeepsTrying, StatusIsTrue
<1> QED BY <1>5, <1>6, <1>7

\* A disconnect keeps the invariant.
LEMMA DisconnectKeepsInv ==
  ASSUME LinkInv, Disconnect
  PROVE  LinkInv' /\ (KeepsTrying => KeepsTrying')
<1> USE SocketAssumption DEF LinkInv, Sockets, NoSocket, Accepts, IsOpen, Disconnect,
         StopTimer, LetGo
<1>1. TypeOK'
  <2>1. QueuesOK /\ LinkOK
    BY TypeInTwo
  <2>2. QueuesOK'
    BY <2>1, EmptySeq DEF QueuesOK
  <2>3. LinkOK'
    BY <2>1 DEF LinkOK, Abandoned, Statuses, ReadyStates
  <2> QED BY <2>2, <2>3 DEF TypeOK, QueuesOK, LinkOK
<1>2. OneLiveSocket'
  BY DEF TypeOK, OneLiveSocket, Abandoned
<1>3. CurrentIsWanted' /\ TimerIsNeeded' /\ (KeepsTrying => KeepsTrying') /\ NothingWaitsWhileOpen' /\ StatusIsTrue'
  BY DEF CurrentIsWanted, TimerIsNeeded, KeepsTrying, NothingWaitsWhileOpen, StatusIsTrue
<1> QED BY <1>1, <1>2, <1>3

\* The timer, which runs only while there is no socket, keeps the invariant.
LEMMA TimerKeepsInv ==
  ASSUME LinkInv, TimerFires
  PROVE  LinkInv' /\ (KeepsTrying => KeepsTrying')
<1> USE SocketAssumption DEF LinkInv, Sockets, NoSocket, Accepts, IsOpen,
         StopTimer, LetGo, FlushQueuedMessages, ScheduleReconnect
<1>1. PICK s \in Sockets :
        /\ IsNew(s)
        /\ socket' = s
        /\ readyState' = [readyState EXCEPT ![s] = "connecting"]
  BY DEF TimerFires
<1>2. readyState'[s] = "connecting" /\ \A t \in Sockets \ {s} : readyState'[t] = readyState[t]
  BY <1>1 DEF TypeOK
<1>3. socket = NoSocket
  BY DEF TimerFires, TimerIsNeeded
<1>4. TypeOK'
  BY <1>1 DEF TimerFires, TypeOK, Statuses, ReadyStates
<1>5. OneLiveSocket'
  BY <1>1, <1>2, <1>3 DEF OneLiveSocket
<1>6. CurrentIsWanted' /\ TimerIsNeeded' /\ (KeepsTrying => KeepsTrying') /\ NothingWaitsWhileOpen' /\ StatusIsTrue'
  BY <1>1, <1>2 DEF TimerFires, CurrentIsWanted, TimerIsNeeded, KeepsTrying, NothingWaitsWhileOpen, StatusIsTrue
<1> QED BY <1>4, <1>5, <1>6

\* An open, closing or closed event of a socket keeps the invariant.
LEMMA EventKeepsInv ==
  ASSUME LinkInv, NEW s \in Sockets, NEW messages \in Seq(Messages),
         \/ SocketOpens(s)
         \/ SocketCloseBegins(s)
         \/ StaleCloses(s)
         \/ CurrentCloses(s, messages)
  PROVE  LinkInv' /\ (KeepsTrying => KeepsTrying')
<1> USE SocketAssumption DEF LinkInv, Sockets, NoSocket, Accepts, IsOpen,
         StopTimer, LetGo, FlushQueuedMessages, ScheduleReconnect
<1>1. CASE SocketOpens(s)
  <2>1. readyState'[s] = "open" /\ \A t \in Sockets \ {s} : readyState'[t] = readyState[t]
    BY <1>1 DEF SocketOpens, TypeOK
  <2>2. socket = s /\ ~manualDisconnect
    BY <1>1 DEF SocketOpens, OneLiveSocket, CurrentIsWanted
  <2>3. TypeOK'
    <3>1. QueuesOK /\ LinkOK
      BY TypeInTwo
    <3>2. QueuesOK'
      <4>1. queuedMessages \in Seq(Messages)
        BY <3>1 DEF QueuesOK
      <4>2. [written EXCEPT ![s] = @ \o queuedMessages] \in [Sockets -> Seq(Messages)]
        BY <3>1, <4>1, MoreMessages
      <4>3. written' = [written EXCEPT ![s] = @ \o queuedMessages] /\ queuedMessages' = <<>>
        BY <1>1, <2>2 DEF SocketOpens
      <4> QED BY <4>2, <4>3, EmptySeq DEF QueuesOK
    <3>3. LinkOK'
      BY <1>1, <2>2, <3>1 DEF SocketOpens, LinkOK, Statuses, ReadyStates
    <3> QED BY <3>2, <3>3 DEF TypeOK, QueuesOK, LinkOK
  <2>4. CurrentIsWanted' /\ OneLiveSocket' /\ NothingWaitsWhileOpen'
    BY <1>1, <2>1, <2>2 DEF SocketOpens, CurrentIsWanted, OneLiveSocket, NothingWaitsWhileOpen
  <2>5. TimerIsNeeded' /\ (KeepsTrying => KeepsTrying') /\ StatusIsTrue'
    BY <1>1, <2>1, <2>2 DEF SocketOpens, TimerIsNeeded, KeepsTrying, StatusIsTrue, CurrentIsWanted
  <2> QED BY <2>3, <2>4, <2>5
<1>2. CASE SocketCloseBegins(s)
  <2>1. readyState'[s] = "closing" /\ \A t \in Sockets \ {s} : readyState'[t] = readyState[t]
    BY <1>2 DEF SocketCloseBegins, TypeOK
  <2>2. socket = s
    BY <1>2 DEF SocketCloseBegins, OneLiveSocket
  <2>3. TypeOK'
    BY <1>2 DEF SocketCloseBegins, TypeOK, ReadyStates
  <2>4. CurrentIsWanted' /\ OneLiveSocket' /\ NothingWaitsWhileOpen'
    BY <1>2, <2>1, <2>2 DEF SocketCloseBegins, CurrentIsWanted, OneLiveSocket, NothingWaitsWhileOpen
  <2>5. TimerIsNeeded' /\ (KeepsTrying => KeepsTrying') /\ StatusIsTrue'
    BY <1>2, <2>1, <2>2 DEF SocketCloseBegins, TimerIsNeeded, KeepsTrying, StatusIsTrue
  <2> QED BY <2>3, <2>4, <2>5
<1>3. CASE StaleCloses(s)
  <2>1. readyState'[s] = "closed" /\ \A t \in Sockets \ {s} : readyState'[t] = readyState[t]
    BY <1>3 DEF StaleCloses, TypeOK
  <2>2. TypeOK'
    BY <1>3 DEF StaleCloses, TypeOK, ReadyStates
  <2>3. CurrentIsWanted' /\ OneLiveSocket' /\ NothingWaitsWhileOpen'
    BY <1>3, <2>1 DEF StaleCloses, CurrentIsWanted, OneLiveSocket, NothingWaitsWhileOpen, TypeOK
  <2>4. TimerIsNeeded' /\ (KeepsTrying => KeepsTrying') /\ StatusIsTrue'
    BY <1>3, <2>1 DEF StaleCloses, TimerIsNeeded, KeepsTrying, StatusIsTrue, TypeOK
  <2> QED BY <2>2, <2>3, <2>4
<1>4. CASE CurrentCloses(s, messages)
  <2>1. readyState'[s] = "closed" /\ \A t \in Sockets \ {s} : readyState'[t] = readyState[t]
    BY <1>4 DEF CurrentCloses, TypeOK
  <2>2. TypeOK'
    BY <1>4 DEF CurrentCloses, TypeOK, Statuses, ReadyStates
  <2>3. CurrentIsWanted' /\ OneLiveSocket' /\ NothingWaitsWhileOpen'
    BY <1>4, <2>1 DEF CurrentCloses, CurrentIsWanted, OneLiveSocket, NothingWaitsWhileOpen
  <2>4. TimerIsNeeded' /\ (KeepsTrying => KeepsTrying') /\ StatusIsTrue'
    BY <1>4, <2>1 DEF CurrentCloses, TimerIsNeeded, KeepsTrying, StatusIsTrue
  <2> QED BY <2>2, <2>3, <2>4
<1> QED BY <1>1, <1>2, <1>3, <1>4

\* A callback that throws keeps all but the trying.
LEMMA ThrowKeepsLink ==
  ASSUME LinkInv, NEW s \in Sockets, CallbackThrows(s)
  PROVE  LinkInv'
<1> USE SocketAssumption DEF LinkInv, Sockets, NoSocket, Accepts, IsOpen
<1>1. readyState'[s] = "closed" /\ \A t \in Sockets \ {s} : readyState'[t] = readyState[t]
  BY DEF CallbackThrows, TypeOK
<1>2. TypeOK'
  BY DEF CallbackThrows, TypeOK, Statuses, ReadyStates
<1>3. CurrentIsWanted' /\ OneLiveSocket' /\ NothingWaitsWhileOpen'
  BY <1>1 DEF CallbackThrows, CurrentIsWanted, OneLiveSocket, NothingWaitsWhileOpen
<1>4. TimerIsNeeded' /\ StatusIsTrue'
  BY <1>1 DEF CallbackThrows, TimerIsNeeded, StatusIsTrue
<1> QED BY <1>2, <1>3, <1>4

LEMMA StepKeepsSocketInv ==
  ASSUME SocketInv, [Next]_vars
  PROVE  SocketInv'
<1>1. CASE \E messages \in Batches : Send(messages)
  BY <1>1, SendKeepsInv, SocketAssumption DEF SocketInv
<1>2. CASE \E url \in Urls, messages \in Batches : Connect(url, messages)
  BY <1>2, SendKeepsInv, OpenAnewKeepsInv, SocketAssumption DEF Connect, SocketInv
<1>3. CASE Disconnect
  BY <1>3, DisconnectKeepsInv DEF SocketInv
<1>4. CASE TimerFires
  BY <1>4, TimerKeepsInv DEF SocketInv
<1>5. ASSUME NEW s \in Sockets,
             \/ SocketOpens(s)
             \/ SocketCloseBegins(s)
             \/ StaleCloses(s)
             \/ \E messages \in Batches : CurrentCloses(s, messages)
      PROVE  SocketInv'
  BY <1>5, EventKeepsInv, EmptySeq, SocketAssumption DEF SocketInv
<1>6. CASE UNCHANGED vars
  BY <1>6 DEF vars, SocketInv, LinkInv, TypeOK, CurrentIsWanted, OneLiveSocket, KeepsTrying,
     TimerIsNeeded, NothingWaitsWhileOpen, StatusIsTrue, Accepts, IsOpen
<1> QED BY <1>1, <1>2, <1>3, <1>4, <1>5, <1>6 DEF Next

\* The invariant holds in every reachable state of the client.
THEOREM SocketInvariant == Spec => []SocketInv
<1>1. SocketInv /\ [Next]_vars => SocketInv'
  BY StepKeepsSocketInv
<1> QED BY SocketInvInit, <1>1, PTL DEF Spec

\* TypeOK holds for every instance.
THEOREM SocketTypeCorrect == Spec => []TypeOK
  BY SocketInvariant, PTL DEF SocketInv, LinkInv

\* connect, disconnect, the timer and late close events never leave two live
\* connections.
THEOREM NeverTwoConnections == Spec => []OneLiveSocket
  BY SocketInvariant, PTL DEF SocketInv, LinkInv

\* While an address is wanted a socket or a timer, and only one of them, works
\* towards a connection.
THEOREM NeverGivesUp == Spec => []KeepsTrying
  BY SocketInvariant, PTL DEF SocketInv, LinkInv

\* No queued message is overtaken by a direct send.
THEOREM QueueEmptyWhileOpen == Spec => []NothingWaitsWhileOpen
  BY SocketInvariant, PTL DEF SocketInv, LinkInv

\* The status reported upwards is the state of the connection.
THEOREM StatusAlwaysTrue == Spec => []StatusIsTrue
  BY SocketInvariant, PTL DEF SocketInv, LinkInv
=============================================================================
