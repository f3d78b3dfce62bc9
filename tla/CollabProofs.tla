----------------------------- MODULE CollabProofs -----------------------------
(***************************************************************************)
(* What a board shared end to end promises, for any number of guests,      *)
(* edits and sessions: once all has arrived, the owner has every edit that *)
(* somebody who is ready sees (OwnerHasEverything), and everybody sees     *)
(* what was sent while they were on the board, and all that the owner has  *)
(* sent (EditsArrive).                                                     *)
(***************************************************************************)
EXTENDS Collab, SequencesExt, TLAPS

\* A message with the edit e; a snapshot for an actor.
IsAction(m, e) == m.type = "board.action" /\ m.edit = e
IsSnapshot(m, actor) == m.type = "board.snapshot" /\ m.target = actor

\* Edits and snapshots among the messages of a queue.
Holds(q, e) == \E m \in ToSet(q) : IsAction(m, e)
HoldsSnapshot(q, actor) == \E m \in ToSet(q) : IsSnapshot(m, actor)

\* Every snapshot for that actor in the queue has the edit, or is followed by it.
Covers(q, actor, e) ==
  \A k \in DOMAIN q :
    IsSnapshot(q[k], actor) =>
      e \in q[k].board \/ \E j \in DOMAIN q : j > k /\ IsAction(q[j], e)

HoldsOneSnapshot(q, actor) ==
  \A i, j \in DOMAIN q : IsSnapshot(q[i], actor) /\ IsSnapshot(q[j], actor) => i = j

\* An error for the user, in the relay's goroutine or in the user's queue.
HoldsError(q) == \E m \in ToSet(q) : m.type = "error"
IsRefusing(u) == ~IsIdle(u) /\ relaying[u].message.type = "error"
IsRefused(u) == IsRefusing(u) \/ HoldsError(toClient[u])

\* The relay is writing an edit to a user, or a snapshot.
IsRelayedTo(e, v) ==
  \E u \in Users : v \in relaying[u].recipients /\ IsAction(relaying[u].message, e)
IsForwarding(actor) == ~IsIdle(Owner) /\ IsSnapshot(relaying[Owner].message, actor)

IsUnread(e) == \E u \in Users : Holds(toRelay[u], e)

(***************************************************************************)
(* The inductive invariant.                                                *)
(***************************************************************************)

\* What the handshake of a guest and the connection maps say of each other.
HandshakeInv ==
  /\ \A g \in Guests : g \in attached <=> phase[g] # "away"
  /\ \A g \in awaited : phase[g] = "awaiting_snapshot"
  /\ Owner \in Opened
  /\ \A g \in Guests : g \notin Opened => toRelay[g] = << >> /\ ~IsRefused(g)
  /\ \A g \in Guests : ~IsIdle(g) => relaying[g].message.type # "board.snapshot"
  /\ \A u \in Users : IsRefusing(u) => relaying[u].recipients = {u}
  /\ ~IsIdle(Owner) /\ relaying[Owner].message.type = "board.snapshot"
       => relaying[Owner].recipients = {relaying[Owner].message.target[1]}

\* Actors are never those of sessions to come.
IsOfPast(m, visits) ==
  m.type \in {"board.snapshot.request", "board.snapshot"} => m.target[2] <= visits[m.target[1]]
PastInv ==
  \A u \in Users :
    /\ ~IsIdle(u) => IsOfPast(relaying[u].message, visit)
    /\ \A m \in ToSet(toRelay[u]) : IsOfPast(m, visit)
    /\ \A m \in ToSet(toClient[u]) : IsOfPast(m, visit)

\* A session gets one snapshot.
OneSnapshotFor(g) ==
  /\ IsForwarding(Actor(g)) =>
       /\ g \notin awaited /\ phase[g] = "awaiting_snapshot"
       /\ ~HoldsSnapshot(toClient[g], Actor(g))
  /\ HoldsSnapshot(toClient[g], Actor(g)) =>
       g \notin awaited /\ phase[g] = "awaiting_snapshot"
  /\ HoldsOneSnapshot(toClient[g], Actor(g))
OneSnapshotInv == \A g \in Guests : OneSnapshotFor(g)

\* The owner has an edit or is about to get it.
ReachesOwner(e) == e \in onBoard[Owner] \/ IsRelayedTo(e, Owner) \/ Holds(toClient[Owner], e)
IsPartOf(m, board) == m.type = "board.snapshot" => m.board \subseteq board

OwnerInv ==
  /\ \A u \in Ready : \A e \in onBoard[u] :
       ReachesOwner(e) \/ Holds(toRelay[u], e) \/ IsRefused(u)
  /\ \A u \in Users, e \in Edits : Holds(toRelay[u], e) => e \in onBoard[u]
  /\ \A u \in Users, e \in Edits :
       /\ Holds(toClient[u], e) => ReachesOwner(e)
       /\ ~IsIdle(u) /\ IsAction(relaying[u].message, e) => ReachesOwner(e)
  /\ \A u \in Users :
       /\ \A m \in ToSet(toRelay[u]) : IsPartOf(m, onBoard[Owner])
       /\ \A m \in ToSet(toClient[u]) : IsPartOf(m, onBoard[Owner])
       /\ ~IsIdle(u) => IsPartOf(relaying[u].message, onBoard[Owner])

\* An edit of the owner that is due to a guest is in every snapshot for it, or
\* behind it, along the whole way: on the owner's queue ...
CoversUnread(g, e) == Covers(toRelay[Owner], Actor(g), e)
\* ... in what the relay writes for the owner ...
CoversForwarded(g, e) ==
  IsForwarding(Actor(g)) => e \in relaying[Owner].message.board \/ Holds(toRelay[Owner], e)
\* ... and on the guest's queue.
CoversInbox(g, e) ==
  Covers(toClient[g], Actor(g), e) \/ Holds(toRelay[Owner], e) \/ IsRelayedTo(e, g)

\* An edit that is due is there or under way.
DueInv ==
  /\ \A e \in due[Owner] : ReachesOwner(e) \/ IsUnread(e)
  /\ \A g \in Guests : g \notin Opened => \A e \in due[g] : e[1] = Owner
  /\ \A g \in Guests : g \in Opened => \A e \in due[g] :
       e \in onBoard[g] \/ IsUnread(e) \/ IsRelayedTo(e, g) \/ Holds(toClient[g], e)
  /\ \A g \in Guests : \A e \in due[g] : e[1] = Owner =>
       e \in onBoard[Owner] /\ CoversUnread(g, e) /\ CoversForwarded(g, e) /\ CoversInbox(g, e)

CollabInv == CollabTypeOK /\ HandshakeInv /\ PastInv /\ OneSnapshotInv /\ OwnerInv /\ DueInv

(***************************************************************************)
(* Queues.                                                                 *)
(***************************************************************************)

\* A message sent joins the others, and comes last.
LEMMA AppendFacts ==
  ASSUME NEW S, NEW q \in Seq(S), NEW m \in S
  PROVE  /\ Append(q, m) \in Seq(S)
         /\ Append(q, m) # << >>
         /\ Len(Append(q, m)) = Len(q) + 1
         /\ DOMAIN Append(q, m) = 1 .. Len(q) + 1 /\ DOMAIN q = 1 .. Len(q)
         /\ \A k \in 1 .. Len(q) : Append(q, m)[k] = q[k]
         /\ Append(q, m)[Len(q) + 1] = m
OBVIOUS

LEMMA AppendContent ==
  ASSUME NEW S, NEW q \in Seq(S), NEW m \in S
  PROVE  ToSet(Append(q, m)) = ToSet(q) \cup {m}
<1>1. ASSUME NEW x \in ToSet(Append(q, m)) PROVE x \in ToSet(q) \cup {m}
  <2>1. PICK k \in 1 .. Len(q) + 1 : x = Append(q, m)[k]
    BY <1>1, AppendFacts DEF ToSet
  <2>2. CASE k = Len(q) + 1
    BY <2>1, <2>2, AppendFacts
  <2>3. CASE k \in 1 .. Len(q)
    BY <2>1, <2>3, AppendFacts DEF ToSet
  <2> QED BY <2>1, <2>2, <2>3
<1>2. ASSUME NEW k \in DOMAIN q PROVE q[k] \in ToSet(Append(q, m))
  <2>1. k \in DOMAIN Append(q, m) /\ Append(q, m)[k] = q[k]
    BY <1>2, AppendFacts
  <2> QED BY <2>1 DEF ToSet
<1>3. m \in ToSet(Append(q, m))
  <2>1. Len(q) + 1 \in DOMAIN Append(q, m) /\ Append(q, m)[Len(q) + 1] = m
    BY AppendFacts
  <2> QED BY <2>1 DEF ToSet
<1> QED BY <1>1, <1>2, <1>3 DEF ToSet

\* A message taken was one of them, the first.
LEMMA TailFacts ==
  ASSUME NEW S, NEW q \in Seq(S), q # << >>
  PROVE  /\ Tail(q) \in Seq(S)
         /\ Head(q) = q[1] /\ 1 \in DOMAIN q
         /\ Len(q) \in Nat \ {0}
         /\ DOMAIN q = 1 .. Len(q) /\ DOMAIN Tail(q) = 1 .. Len(q) - 1
         /\ \A k \in 1 .. Len(q) - 1 : Tail(q)[k] = q[k + 1]
OBVIOUS

LEMMA TailContent ==
  ASSUME NEW S, NEW q \in Seq(S), q # << >>
  PROVE  ToSet(q) = ToSet(Tail(q)) \cup {Head(q)}
<1>1. ASSUME NEW k \in DOMAIN q PROVE q[k] \in ToSet(Tail(q)) \cup {Head(q)}
  <2>1. CASE k = 1
    BY <2>1, TailFacts
  <2>2. CASE k # 1
    <3>1. k - 1 \in DOMAIN Tail(q) /\ Tail(q)[k - 1] = q[k]
      BY <1>1, <2>2, TailFacts
    <3> QED BY <3>1 DEF ToSet
  <2> QED BY <2>1, <2>2
<1>2. ASSUME NEW k \in DOMAIN Tail(q) PROVE Tail(q)[k] \in ToSet(q)
  <2>1. k + 1 \in DOMAIN q /\ Tail(q)[k] = q[k + 1]
    BY <1>2, TailFacts
  <2> QED BY <2>1 DEF ToSet
<1>3. Head(q) \in ToSet(q)
  BY TailFacts DEF ToSet
<1> QED BY <1>1, <1>2, <1>3 DEF ToSet

LEMMA EmptyContent == ToSet(<< >>) = {}
BY DEF ToSet

LEMMA HoldsAppended ==
  ASSUME NEW S, NEW q \in Seq(S), NEW m \in S
  PROVE  /\ \A e : Holds(Append(q, m), e) <=> Holds(q, e) \/ IsAction(m, e)
         /\ \A a : HoldsSnapshot(Append(q, m), a) <=> HoldsSnapshot(q, a) \/ IsSnapshot(m, a)
BY AppendContent DEF Holds, HoldsSnapshot

LEMMA HoldsTaken ==
  ASSUME NEW S, NEW q \in Seq(S), q # << >>
  PROVE  /\ \A e : Holds(q, e) <=> Holds(Tail(q), e) \/ IsAction(Head(q), e)
         /\ \A a : HoldsSnapshot(q, a) <=> HoldsSnapshot(Tail(q), a) \/ IsSnapshot(Head(q), a)
BY TailContent DEF Holds, HoldsSnapshot

LEMMA HoldsNothing == \A e : ~Holds(<< >>, e) /\ ~HoldsSnapshot(<< >>, e)
BY EmptyContent DEF Holds, HoldsSnapshot

\* What is covered stays so, when messages are sent and when they are taken.
LEMMA CoversAppended ==
  ASSUME NEW S, NEW q \in Seq(S), NEW m \in S, NEW a, NEW e,
         Covers(q, a, e), IsSnapshot(m, a) => e \in m.board
  PROVE  Covers(Append(q, m), a, e)
<1> DEFINE p == Append(q, m)
<1> SUFFICES ASSUME NEW k \in DOMAIN p, IsSnapshot(p[k], a)
             PROVE  e \in p[k].board \/ \E j \in DOMAIN p : j > k /\ IsAction(p[j], e)
  BY DEF Covers
<1>1. CASE k = Len(q) + 1
  BY <1>1, AppendFacts
<1>2. CASE k \in 1 .. Len(q)
  <2>1. p[k] = q[k] /\ k \in DOMAIN q
    BY <1>2, AppendFacts
  <2>2. CASE e \in q[k].board
    BY <2>1, <2>2
  <2>3. ASSUME NEW j \in DOMAIN q, j > k, IsAction(q[j], e)
        PROVE  j \in DOMAIN p /\ p[j] = q[j]
    BY <2>3, AppendFacts
  <2> HIDE DEF p
  <2> QED BY <2>1, <2>2, <2>3 DEF Covers
<1> QED BY <1>1, <1>2, AppendFacts

\* An edit sent comes behind every snapshot.
LEMMA CoversBehind ==
  ASSUME NEW S, NEW q \in Seq(S), NEW m \in S, NEW a, NEW e, IsAction(m, e)
  PROVE  Covers(Append(q, m), a, e)
<1> DEFINE p == Append(q, m)
<1> SUFFICES ASSUME NEW k \in DOMAIN p, IsSnapshot(p[k], a)
             PROVE  \E j \in DOMAIN p : j > k /\ IsAction(p[j], e)
  BY DEF Covers
<1>1. Len(q) + 1 \in DOMAIN p /\ p[Len(q) + 1] = m /\ DOMAIN p = 1 .. Len(q) + 1 /\ Len(q) \in Nat
  BY AppendFacts
<1> HIDE DEF p
<1>2. k # Len(q) + 1
  BY <1>1 DEF IsAction, IsSnapshot
<1>3. Len(q) + 1 > k
  BY <1>1, <1>2
<1> QED BY <1>1, <1>3

LEMMA CoversTaken ==
  ASSUME NEW S, NEW q \in Seq(S), q # << >>, NEW a, NEW e, Covers(q, a, e)
  PROVE  /\ Covers(Tail(q), a, e)
         /\ IsSnapshot(Head(q), a) => e \in Head(q).board \/ Holds(Tail(q), e)
<1>1. ASSUME NEW k \in DOMAIN Tail(q), IsSnapshot(Tail(q)[k], a)
      PROVE  e \in Tail(q)[k].board \/ \E j \in DOMAIN Tail(q) : j > k /\ IsAction(Tail(q)[j], e)
  <2>1. k + 1 \in DOMAIN q /\ q[k + 1] = Tail(q)[k]
    BY <1>1, TailFacts
  <2>2. CASE e \in q[k + 1].board
    BY <2>1, <2>2
  <2>3. ASSUME NEW j \in DOMAIN q, j > k + 1, IsAction(q[j], e)
        PROVE  j - 1 \in DOMAIN Tail(q) /\ j - 1 > k /\ IsAction(Tail(q)[j - 1], e)
    <3>1. j - 1 \in 1 .. Len(q) - 1 /\ j - 1 > k /\ (j - 1) + 1 = j
      BY <1>1, <2>3, TailFacts
    <3> QED BY <3>1, <2>3, TailFacts
  <2> QED BY <1>1, <2>1, <2>2, <2>3 DEF Covers
<1>2. ASSUME IsSnapshot(Head(q), a) PROVE e \in Head(q).board \/ Holds(Tail(q), e)
  <2>1. 1 \in DOMAIN q /\ q[1] = Head(q)
    BY TailFacts
  <2>2. ASSUME NEW j \in DOMAIN q, j > 1, IsAction(q[j], e) PROVE Holds(Tail(q), e)
    <3>1. j - 1 \in 1 .. Len(q) - 1 /\ (j - 1) + 1 = j
      BY <2>2, TailFacts
    <3>2. j - 1 \in DOMAIN Tail(q) /\ Tail(q)[j - 1] = q[j]
      BY <3>1, TailFacts
    <3>3. q[j] \in ToSet(Tail(q))
      BY <3>2 DEF ToSet
    <3> QED BY <3>3, <2>2 DEF Holds
  <2> QED BY <1>2, <2>1, <2>2 DEF Covers
<1> QED BY <1>1, <1>2 DEF Covers

LEMMA CoversNothing ==
  ASSUME NEW q, NEW a, NEW e, ~HoldsSnapshot(q, a)
  PROVE  Covers(q, a, e)
BY DEF Covers, HoldsSnapshot, ToSet

LEMMA OneAppended ==
  ASSUME NEW S, NEW q \in Seq(S), NEW m \in S, NEW a,
         HoldsOneSnapshot(q, a), IsSnapshot(m, a) => ~HoldsSnapshot(q, a)
  PROVE  HoldsOneSnapshot(Append(q, m), a)
<1> DEFINE p == Append(q, m)
<1> SUFFICES ASSUME NEW i \in DOMAIN p, NEW j \in DOMAIN p,
                    IsSnapshot(p[i], a), IsSnapshot(p[j], a)
             PROVE  i = j
  BY DEF HoldsOneSnapshot
<1>1. DOMAIN p = 1 .. Len(q) + 1 /\ DOMAIN q = 1 .. Len(q) /\ Len(q) \in Nat
  BY AppendFacts
<1>2. \A k \in 1 .. Len(q) : p[k] = q[k]
  BY AppendFacts
<1>3. p[Len(q) + 1] = m
  BY AppendFacts
<1>4. \A k \in 1 .. Len(q) : ~(IsSnapshot(q[k], a) /\ IsSnapshot(m, a))
  BY <1>1 DEF HoldsSnapshot, ToSet
<1> HIDE DEF p
<1>5. CASE i = Len(q) + 1 /\ j # Len(q) + 1
  BY <1>1, <1>2, <1>3, <1>4, <1>5
<1>6. CASE i # Len(q) + 1 /\ j = Len(q) + 1
  BY <1>1, <1>2, <1>3, <1>4, <1>6
<1>7. CASE i # Len(q) + 1 /\ j # Len(q) + 1
  BY <1>1, <1>2, <1>7 DEF HoldsOneSnapshot
<1> QED BY <1>5, <1>6, <1>7

LEMMA OneTaken ==
  ASSUME NEW S, NEW q \in Seq(S), q # << >>, NEW a, HoldsOneSnapshot(q, a)
  PROVE  /\ HoldsOneSnapshot(Tail(q), a)
         /\ IsSnapshot(Head(q), a) => ~HoldsSnapshot(Tail(q), a)
<1>1. ASSUME NEW i \in DOMAIN Tail(q), NEW j \in DOMAIN Tail(q),
             IsSnapshot(Tail(q)[i], a), IsSnapshot(Tail(q)[j], a)
      PROVE  i = j
  <2>1. i + 1 \in DOMAIN q /\ q[i + 1] = Tail(q)[i] /\ j + 1 \in DOMAIN q /\ q[j + 1] = Tail(q)[j]
    BY <1>1, TailFacts
  <2>2. i + 1 = j + 1
    BY <1>1, <2>1 DEF HoldsOneSnapshot
  <2> QED BY <1>1, <2>2, TailFacts
<1>2. ASSUME IsSnapshot(Head(q), a), HoldsSnapshot(Tail(q), a) PROVE FALSE
  <2>1. PICK k \in DOMAIN Tail(q) : IsSnapshot(Tail(q)[k], a)
    BY <1>2 DEF HoldsSnapshot, ToSet
  <2>2. k + 1 \in DOMAIN q /\ q[k + 1] = Tail(q)[k] /\ k + 1 # 1
    BY <2>1, TailFacts
  <2>3. 1 \in DOMAIN q /\ IsSnapshot(q[1], a)
    BY <1>2, TailFacts
  <2> QED BY <2>1, <2>2, <2>3 DEF HoldsOneSnapshot
<1> QED BY <1>1, <1>2 DEF HoldsOneSnapshot

(***************************************************************************)
(* Types.                                                                  *)
(***************************************************************************)

LEMMA MessageFacts ==
  ASSUME NEW m \in Messages
  PROVE  /\ m.type \in {"board.action", "error", "board.snapshot.request", "board.snapshot"}
         /\ m.type = "board.action" => m.edit \in Edits
         /\ m.type \in {"board.snapshot.request", "board.snapshot"} => m.target \in ActorIds
         /\ m.type = "board.snapshot" => m.board \in SUBSET Edits
BY DEF Messages

LEMMA UserFacts ==
  /\ Owner \in Users /\ Guests \subseteq Users /\ Owner \notin Guests
  /\ \A u \in Users : u # Owner => u \in Guests
BY CollabAssumption DEF Users

\* An error goes to its user alone.
LEMMA RefusalFacts ==
  ASSUME NEW u \in Users
  PROVE  /\ Refusal(u) \in Tasks
         /\ Refusal(u).recipients = {u} /\ Refusal(u).message.type = "error"
BY DEF Refusal, Tasks, Messages

\* A broadcast with one recipient less is the same message to the others.
LEMMA WithoutFacts ==
  ASSUME NEW task \in Tasks, NEW v
  PROVE  /\ Without(task, v) \in Tasks
         /\ Without(task, v).recipients = task.recipients \ {v}
         /\ Without(task, v).recipients # {} => Without(task, v).message = task.message
BY DEF Without, Tasks, Idle

\* The head of a queue is a message, and so is what is under way.
LEMMA TaskFacts ==
  ASSUME CollabTypeOK, NEW u \in Users
  PROVE  /\ relaying[u] \in Tasks
         /\ relaying[u].recipients \subseteq Users
         /\ ~IsIdle(u) => relaying[u].message \in Messages
         /\ toRelay[u] \in Seq(Messages) /\ toClient[u] \in Seq(Messages)
         /\ toRelay[u] # << >> => Head(toRelay[u]) \in Messages
         /\ toClient[u] # << >> => Head(toClient[u]) \in Messages
<1>1. relaying[u] \in Tasks /\ toRelay[u] \in Seq(Messages) /\ toClient[u] \in Seq(Messages)
  BY DEF CollabTypeOK
<1>2. relaying[u].recipients \subseteq Users /\ (~IsIdle(u) => relaying[u].message \in Messages)
  BY <1>1 DEF Tasks, Idle, IsIdle
<1>3. ASSUME NEW q \in Seq(Messages), q # << >> PROVE Head(q) \in Messages
  BY <1>3
<1> QED BY <1>1, <1>2, <1>3

LEMMA EditTypes ==
  ASSUME CollabTypeOK, NEW u \in Users, Edit(u)
  PROVE  CollabTypeOK'
<1> DEFINE edit == <<u, edited[u] + 1>>
<1>1. edited[u] \in 0 .. MaxEdits /\ edited[u] + 1 \in 1 .. MaxEdits /\ edited[u] + 1 \in 0 .. MaxEdits
  BY CollabAssumption DEF CollabTypeOK, Edit
<1>2. edit \in Edits
  BY <1>1 DEF Edits
<1>3. [type |-> "board.action", edit |-> edit] \in Messages
  BY <1>2 DEF Messages
<1>4. toRelay[u] \in Seq(Messages)
  BY TaskFacts
<1>5. Append(toRelay[u], [type |-> "board.action", edit |-> edit]) \in Seq(Messages)
  BY <1>3, <1>4, AppendFacts
<1> HIDE DEF edit
<1>6. toRelay' \in [Users -> Seq(Messages)]
  <2>1. CASE UNCHANGED toRelay
    BY <2>1 DEF CollabTypeOK
  <2>2. CASE toRelay' = Posted(toRelay, u, [type |-> "board.action", edit |-> edit])
    BY <1>5, <2>2 DEF edit, CollabTypeOK, Posted
  <2> QED BY <2>1, <2>2 DEF edit, Edit
<1>7. onBoard' \in [Users -> SUBSET Edits]
  BY <1>2 DEF edit, CollabTypeOK, Edit
<1>8. due' \in [Users -> SUBSET Edits]
  BY <1>2 DEF edit, CollabTypeOK, Edit
<1>9. edited' \in [Users -> 0 .. MaxEdits]
  BY <1>1 DEF CollabTypeOK, Edit
<1> QED BY <1>6, <1>7, <1>8, <1>9 DEF CollabTypeOK, Edit, relayVars

LEMMA TakeTypes ==
  ASSUME CollabTypeOK, NEW u \in Users, toClient[u] # << >>, TakeMessage(u)
  PROVE  toClient' \in [Users -> Seq(Messages)]
<1>1. Tail(toClient[u]) \in Seq(Messages)
  BY TaskFacts, TailFacts
<1> QED BY <1>1 DEF CollabTypeOK, TakeMessage

LEMMA NextTypes ==
  ASSUME CollabTypeOK, NEW u \in Users, toRelay[u] # << >>, NextMessage(u)
  PROVE  toRelay' \in [Users -> Seq(Messages)]
<1>1. Tail(toRelay[u]) \in Seq(Messages)
  BY TaskFacts, TailFacts
<1> QED BY <1>1 DEF CollabTypeOK, NextMessage

LEMMA ReceiveActionTypes ==
  ASSUME CollabTypeOK, NEW u \in Users, ReceiveAction(u)
  PROVE  CollabTypeOK'
<1>1. toClient[u] # << >> /\ TakeMessage(u)
  BY DEF ReceiveAction, HasMessage
<1>2. toClient' \in [Users -> Seq(Messages)]
  BY <1>1, TakeTypes
<1>3. Head(toClient[u]).edit \in Edits
  BY <1>1, TaskFacts, MessageFacts DEF ReceiveAction, HasMessage
<1>4. onBoard' \in [Users -> SUBSET Edits]
  BY <1>3 DEF CollabTypeOK, ReceiveAction
<1> QED BY <1>2, <1>4 DEF CollabTypeOK, ReceiveAction, relayVars

LEMMA ReceiveErrorTypes ==
  ASSUME CollabTypeOK, NEW u \in Users, ReceiveError(u)
  PROVE  CollabTypeOK'
<1>1. toClient' \in [Users -> Seq(Messages)]
  BY TakeTypes DEF ReceiveError, HasMessage
<1>2. phase' \in [Users -> {"away", "awaiting_snapshot", "ready", "error"}]
  BY DEF CollabTypeOK, ReceiveError
<1> QED BY <1>1, <1>2 DEF CollabTypeOK, ReceiveError, relayVars

LEMMA AnswerRequestTypes ==
  ASSUME CollabTypeOK, AnswerRequest
  PROVE  CollabTypeOK'
<1> DEFINE answer == [type |-> "board.snapshot", target |-> Head(toClient[Owner]).target,
                      board |-> onBoard[Owner]]
<1>1. Owner \in Users /\ toClient[Owner] # << >> /\ TakeMessage(Owner)
  BY UserFacts DEF AnswerRequest, HasMessage
<1>2. toClient' \in [Users -> Seq(Messages)]
  BY <1>1, TakeTypes
<1>3. Head(toClient[Owner]).target \in ActorIds
  BY <1>1, TaskFacts, MessageFacts DEF AnswerRequest, HasMessage
<1>4. onBoard[Owner] \in SUBSET Edits
  BY <1>1 DEF CollabTypeOK
<1>5. answer \in Messages
  BY <1>3, <1>4 DEF Messages
<1>6. Append(toRelay[Owner], answer) \in Seq(Messages)
  BY <1>1, <1>5, TaskFacts, AppendFacts
<1>7. \/ toRelay' = [toRelay EXCEPT ![Owner] = Append(toRelay[Owner], answer)]
      \/ toRelay' = toRelay
  BY DEF AnswerRequest, Posted
<1>8. toRelay' \in [Users -> Seq(Messages)]
  BY <1>1, <1>6, <1>7 DEF CollabTypeOK
<1> QED BY <1>2, <1>8 DEF CollabTypeOK, AnswerRequest, relayVars

LEMMA ReceiveSnapshotTypes ==
  ASSUME CollabTypeOK, NEW g \in Guests, ReceiveSnapshot(g)
  PROVE  CollabTypeOK'
<1>1. g \in Users /\ toClient[g] # << >> /\ TakeMessage(g)
  BY UserFacts DEF ReceiveSnapshot, HasMessage
<1>2. toClient' \in [Users -> Seq(Messages)]
  BY <1>1, TakeTypes
<1>3. Head(toClient[g]).board \in SUBSET Edits
  BY <1>1, TaskFacts, MessageFacts DEF ReceiveSnapshot, HasMessage
<1>4. onBoard' \in [Users -> SUBSET Edits]
  BY <1>3 DEF CollabTypeOK, ReceiveSnapshot, BoardFrom
<1>5. phase' \in [Users -> {"away", "awaiting_snapshot", "ready", "error"}]
  BY DEF CollabTypeOK, ReceiveSnapshot
<1> QED BY <1>2, <1>4, <1>5 DEF CollabTypeOK, ReceiveSnapshot, relayVars

LEMMA LoseConnectionTypes ==
  ASSUME CollabTypeOK, NEW g \in Guests, LoseConnection(g)
  PROVE  CollabTypeOK'
<1>a. << >> \in Seq(Messages)
  OBVIOUS
<1>b. \A q \in [Users -> Seq(Messages)] : [q EXCEPT ![g] = << >>] \in [Users -> Seq(Messages)]
  BY <1>a
<1>1. toRelay' \in [Users -> Seq(Messages)] /\ toClient' \in [Users -> Seq(Messages)]
  BY <1>b DEF CollabTypeOK, LoseConnection
<1>2. ASSUME NEW u \in Users PROVE Without(relaying[u], g) \in Tasks /\ Refusal(u) \in Tasks
  BY WithoutFacts, TaskFacts, RefusalFacts
<1>3. relaying' \in [Users -> Tasks]
  BY <1>2 DEF LoseConnection
<1>4. due' \in [Users -> SUBSET Edits]
  BY DEF CollabTypeOK, LoseConnection
<1>5. phase' \in [Users -> {"away", "awaiting_snapshot", "ready", "error"}]
  BY DEF CollabTypeOK, LoseConnection
<1> QED BY <1>1, <1>3, <1>4, <1>5 DEF CollabTypeOK, LoseConnection

LEMMA JoinTypes ==
  ASSUME CollabTypeOK, NEW g \in Guests, Join(g)
  PROVE  CollabTypeOK'
<1>1. visit[g] + 1 \in 0 .. MaxVisits
  BY CollabAssumption DEF CollabTypeOK, Join
<1>2. visit' \in [Guests -> 0 .. MaxVisits]
  BY <1>1 DEF CollabTypeOK, Join
<1>3. phase' \in [Users -> {"away", "awaiting_snapshot", "ready", "error"}]
  BY DEF CollabTypeOK, Join
<1> QED BY <1>2, <1>3 DEF CollabTypeOK, Join

LEMMA AskOwnerTypes ==
  ASSUME CollabTypeOK, NEW g \in Guests, AskOwner(g)
  PROVE  CollabTypeOK'
<1> DEFINE request == [type |-> "board.snapshot.request", target |-> Actor(g)]
<1>1. request \in Messages
  BY DEF CollabTypeOK, Messages, Actor, ActorIds
<1>2. Append(toClient[Owner], request) \in Seq(Messages)
  BY <1>1, UserFacts, TaskFacts, AppendFacts
<1>3. toClient' = [toClient EXCEPT ![Owner] = Append(toClient[Owner], request)]
  BY DEF AskOwner, Posted
<1>4. toClient' \in [Users -> Seq(Messages)]
  BY <1>2, <1>3, UserFacts DEF CollabTypeOK
<1> QED BY <1>4 DEF CollabTypeOK, AskOwner

LEMMA RelayActionTypes ==
  ASSUME CollabTypeOK, NEW u \in Users, RelayAction(u)
  PROVE  CollabTypeOK'
<1>1. toRelay[u] # << >> /\ NextMessage(u)
  BY DEF RelayAction, Reads
<1>2. toRelay' \in [Users -> Seq(Messages)]
  BY <1>1, NextTypes
<1>3. Recipients(u) \subseteq Users
  BY UserFacts DEF CollabTypeOK, Recipients
<1>4. [message |-> Head(toRelay[u]), recipients |-> Recipients(u)] \in Tasks
  BY <1>1, <1>3, TaskFacts DEF Tasks
<1>5. relaying' \in [Users -> Tasks]
  BY <1>4, RefusalFacts DEF CollabTypeOK, RelayAction
<1>6. due' \in [Users -> SUBSET Edits]
  BY DEF CollabTypeOK, RelayAction
<1> QED BY <1>2, <1>5, <1>6 DEF CollabTypeOK, RelayAction

LEMMA RelaySnapshotTypes ==
  ASSUME CollabTypeOK, RelaySnapshot
  PROVE  CollabTypeOK'
<1>1. Owner \in Users /\ toRelay[Owner] # << >> /\ NextMessage(Owner)
  BY UserFacts DEF RelaySnapshot, Reads
<1>2. toRelay' \in [Users -> Seq(Messages)]
  BY <1>1, NextTypes
<1>3. Head(toRelay[Owner]).target \in ActorIds
  BY <1>1, TaskFacts, MessageFacts DEF RelaySnapshot, Reads
<1>4. {Head(toRelay[Owner]).target[1]} \subseteq Users
  BY <1>3, UserFacts DEF ActorIds
<1>5. [message |-> Head(toRelay[Owner]),
       recipients |-> {Head(toRelay[Owner]).target[1]}] \in Tasks
  BY <1>1, <1>4, TaskFacts DEF Tasks
<1>6. relaying' \in [Users -> Tasks] /\ awaited' \subseteq Guests
  BY <1>1, <1>5, RefusalFacts DEF CollabTypeOK, RelaySnapshot
<1> QED BY <1>2, <1>6 DEF CollabTypeOK, RelaySnapshot

LEMMA WriteToTypes ==
  ASSUME CollabTypeOK, NEW u \in Users, NEW v \in Users, WriteTo(u, v)
  PROVE  CollabTypeOK'
<1>1. relaying[u].message \in Messages
  BY TaskFacts DEF WriteTo, IsIdle
<1>2. Append(toClient[v], relaying[u].message) \in Seq(Messages)
  BY <1>1, TaskFacts, AppendFacts
<1>3. toClient' \in [Users -> Seq(Messages)]
  BY <1>2 DEF CollabTypeOK, WriteTo, Posted
<1>4. Without(relaying[u], v) \in Tasks
  BY WithoutFacts, TaskFacts
<1>5. relaying' \in [Users -> Tasks]
  BY <1>4 DEF CollabTypeOK, WriteTo
<1> QED BY <1>3, <1>5 DEF CollabTypeOK, WriteTo

LEMMA RefuseOtherTypes ==
  ASSUME CollabTypeOK, NEW u \in Users, RefuseOther(u)
  PROVE  CollabTypeOK'
<1>1. phase' \in [Users -> {"away", "awaiting_snapshot", "ready", "error"}]
  BY DEF CollabTypeOK, RefuseOther
<1> QED BY <1>1 DEF CollabTypeOK, RefuseOther, relayVars

LEMMA ExpireTypes ==
  ASSUME CollabTypeOK, Expire
  PROVE  CollabTypeOK'
BY DEF CollabTypeOK, Expire

\* Every step keeps the types.
LEMMA StepTypes ==
  ASSUME CollabTypeOK, CollabNext
  PROVE  CollabTypeOK'
BY RefuseOtherTypes, ExpireTypes, ReceiveErrorTypes, EditTypes, ReceiveActionTypes, AnswerRequestTypes, ReceiveSnapshotTypes, LoseConnectionTypes,
   JoinTypes, AskOwnerTypes, RelayActionTypes, RelaySnapshotTypes, WriteToTypes DEF CollabNext

(***************************************************************************)
(* Where messages come from, and where they go.                            *)
(***************************************************************************)

\* The message at the head is one of the queue.
LEMMA HeadHolds ==
  ASSUME NEW S, NEW q \in Seq(S), q # << >>
  PROVE  Head(q) \in ToSet(q)
BY TailContent

\* A lost connection leaves every broadcast the same message; a snapshot may turn
\* into an error for the owner.
LEMMA LossTasks ==
  ASSUME CollabTypeOK, NEW g \in Guests, LoseConnection(g), NEW u \in Users
  PROVE  \/ /\ relaying'[u].recipients = relaying[u].recipients \ {g}
            /\ ~IsIdle(u)' => relaying'[u].message = relaying[u].message /\ ~IsIdle(u)
         \/ /\ u = Owner /\ relaying'[u] = Refusal(u) /\ IsForwardingTo(g)
            /\ relaying'[u].message.type = "error" /\ relaying'[u].recipients = {u}
<1>1. \/ relaying'[u] = Without(relaying[u], g)
      \/ u = Owner /\ relaying'[u] = Refusal(u) /\ IsForwardingTo(g)
  BY DEF LoseConnection
<1>2. relaying[u] \in Tasks
  BY TaskFacts
<1>3. CASE relaying'[u] = Without(relaying[u], g)
  BY <1>2, <1>3, WithoutFacts DEF IsIdle
<1> QED BY <1>1, <1>3, RefusalFacts

\* What is not a snapshot for the owner stays what it is.
LEMMA LossKeeps ==
  ASSUME CollabTypeOK, NEW g \in Guests, LoseConnection(g), NEW u \in Users,
         ~(u = Owner /\ relaying[u].message.type = "board.snapshot")
  PROVE  /\ relaying'[u].recipients = relaying[u].recipients \ {g}
         /\ ~IsIdle(u)' => relaying'[u].message = relaying[u].message /\ ~IsIdle(u)
BY LossTasks DEF IsForwardingTo

\* A write leaves it the same message, too.
LEMMA WriteTasks ==
  ASSUME CollabTypeOK, NEW u \in Users, NEW v \in Users, WriteTo(u, v)
  PROVE  /\ ~IsIdle(u) /\ relaying[u].message \in Messages /\ v \in relaying[u].recipients
         /\ relaying'[u].recipients = relaying[u].recipients \ {v}
         /\ ~IsIdle(u)' => relaying'[u].message = relaying[u].message
         /\ \A w \in Users : w # u => relaying'[w] = relaying[w]
         /\ toClient' = Posted(toClient, v, relaying[u].message)
<1>1. relaying' = [relaying EXCEPT ![u] = Without(relaying[u], v)]
  BY DEF WriteTo
<1>2. relaying[u] \in Tasks /\ relaying'[u] = Without(relaying[u], v)
  BY <1>1, TaskFacts DEF CollabTypeOK
<1>3. /\ relaying'[u].recipients = relaying[u].recipients \ {v}
      /\ relaying'[u].recipients # {} => relaying'[u].message = relaying[u].message
  BY <1>2, WithoutFacts
<1>4. ~IsIdle(u) /\ v \in relaying[u].recipients
  BY DEF WriteTo, IsIdle
<1>5. \A w \in Users : w # u => relaying'[w] = relaying[w]
  BY <1>1 DEF CollabTypeOK
<1> QED BY <1>3, <1>4, <1>5, TaskFacts DEF IsIdle, WriteTo

\* The messages on their way to somebody, after each step.
LEMMA SentContent ==
  ASSUME CollabTypeOK, NEW u \in Users, NEW m \in Messages
  PROVE  /\ \A v \in Users : ToSet(Posted(toRelay, u, m)[v]) \subseteq ToSet(toRelay[v]) \cup {m}
         /\ \A v \in Users : ToSet(Posted(toClient, u, m)[v]) \subseteq ToSet(toClient[v]) \cup {m}
<1>1. /\ ToSet(Append(toRelay[u], m)) = ToSet(toRelay[u]) \cup {m}
      /\ ToSet(Append(toClient[u], m)) = ToSet(toClient[u]) \cup {m}
  BY TaskFacts, AppendContent
<1> QED BY <1>1 DEF Posted, CollabTypeOK

LEMMA TakenContent ==
  ASSUME CollabTypeOK, NEW u \in Users
  PROVE  /\ toRelay[u] # << >> /\ NextMessage(u) =>
              /\ \A v \in Users : ToSet(toRelay'[v]) \subseteq ToSet(toRelay[v])
              /\ Head(toRelay[u]) \in ToSet(toRelay[u])
         /\ toClient[u] # << >> /\ TakeMessage(u) =>
              /\ \A v \in Users : ToSet(toClient'[v]) \subseteq ToSet(toClient[v])
              /\ Head(toClient[u]) \in ToSet(toClient[u])
<1>1. toRelay[u] # << >> => ToSet(toRelay[u]) = ToSet(Tail(toRelay[u])) \cup {Head(toRelay[u])}
  BY TaskFacts, TailContent
<1>2. toClient[u] # << >> => ToSet(toClient[u]) = ToSet(Tail(toClient[u])) \cup {Head(toClient[u])}
  BY TaskFacts, TailContent
<1> QED BY <1>1, <1>2 DEF NextMessage, TakeMessage, CollabTypeOK

\* A client's queue after a step that sends it a message, or takes one.
LEMMA SentOne ==
  ASSUME CollabTypeOK, NEW u \in Users, NEW v \in Users, NEW m \in Messages,
         toClient' = Posted(toClient, v, m)
  PROVE  toClient'[u] = IF u = v THEN Append(toClient[u], m) ELSE toClient[u]
BY DEF CollabTypeOK, Posted

LEMMA TakenOne ==
  ASSUME CollabTypeOK, NEW u \in Users, NEW v \in Users, TakeMessage(v)
  PROVE  toClient'[u] = IF u = v THEN Tail(toClient[u]) ELSE toClient[u]
BY DEF CollabTypeOK, TakeMessage

\* The messages that a client or the relay sends in a step.
LEMMA NewMessages ==
  ASSUME CollabTypeOK
  PROVE  /\ \A u \in Users : Edit(u) =>
              [type |-> "board.action", edit |-> <<u, edited[u] + 1>>] \in Messages
         /\ AnswerRequest =>
              [type |-> "board.snapshot", target |-> Head(toClient[Owner]).target,
               board |-> onBoard[Owner]] \in Messages
         /\ \A g \in Guests :
              [type |-> "board.snapshot.request", target |-> Actor(g)] \in Messages
<1>1. ASSUME NEW u \in Users, Edit(u)
      PROVE  [type |-> "board.action", edit |-> <<u, edited[u] + 1>>] \in Messages
  <2>1. edited[u] \in 0 .. MaxEdits /\ edited[u] + 1 \in 1 .. MaxEdits
    BY <1>1, CollabAssumption DEF CollabTypeOK, Edit
  <2> QED BY <2>1 DEF Messages, Edits
<1>2. ASSUME AnswerRequest
      PROVE  [type |-> "board.snapshot", target |-> Head(toClient[Owner]).target,
              board |-> onBoard[Owner]] \in Messages
  <2>1. Head(toClient[Owner]).target \in ActorIds
    BY <1>2, UserFacts, TaskFacts, MessageFacts DEF AnswerRequest, HasMessage
  <2>2. onBoard[Owner] \in SUBSET Edits
    BY UserFacts DEF CollabTypeOK
  <2> QED BY <2>1, <2>2 DEF Messages
<1>3. ASSUME NEW g \in Guests
      PROVE  [type |-> "board.snapshot.request", target |-> Actor(g)] \in Messages
  BY DEF CollabTypeOK, Messages, Actor, ActorIds
<1> QED BY <1>1, <1>2, <1>3

\* The steps that leave a part of the state alone.
LEMMA Frames ==
  ASSUME CollabNext
  PROVE  /\ \/ toRelay' = toRelay \/ AnswerRequest \/ RelaySnapshot
            \/ \E u \in Users : Edit(u) \/ RelayAction(u)
            \/ \E g \in Guests : LoseConnection(g)
         /\ \/ toClient' = toClient \/ AnswerRequest
            \/ \E u \in Users : \/ ReceiveAction(u) \/ ReceiveError(u)
                               \/ \E v \in Users : WriteTo(u, v)
            \/ \E g \in Guests : AskOwner(g) \/ ReceiveSnapshot(g) \/ LoseConnection(g)
         /\ \/ relaying' = relaying \/ RelaySnapshot
            \/ \E u \in Users : RelayAction(u) \/ \E v \in Users : WriteTo(u, v)
            \/ \E g \in Guests : LoseConnection(g)
         /\ \/ onBoard' = onBoard
            \/ \E u \in Users : Edit(u) \/ ReceiveAction(u)
            \/ \E g \in Guests : ReceiveSnapshot(g)
         /\ \/ phase' = phase
            \/ \E u \in Users : ReceiveError(u) \/ RefuseOther(u)
            \/ \E g \in Guests : ReceiveSnapshot(g) \/ LoseConnection(g) \/ Join(g)
         /\ \/ attached' = attached /\ awaited' \subseteq awaited
            \/ \E g \in Guests : LoseConnection(g) \/ Join(g)
         /\ visit' = visit \/ \E g \in Guests : Join(g)
         /\ \/ due' = due
            \/ \E u \in Users : Edit(u) \/ RelayAction(u)
            \/ \E g \in Guests : LoseConnection(g)
BY DEF CollabNext, AnswerRequest, RelaySnapshot, Edit, RelayAction, ReceiveAction, WriteTo,
       AskOwner, ReceiveSnapshot, LoseConnection, Join, ReceiveError, RefuseOther, Expire, relayVars

\* An edit is sent by a controller that is ready, and only by it.
LEMMA EditSent ==
  ASSUME CollabTypeOK, NEW v \in Users, Edit(v)
  PROVE  \/ v \notin Ready /\ toRelay' = toRelay
         \/ /\ v \in Ready
            /\ \E n \in Messages : /\ toRelay' = Posted(toRelay, v, n)
                                   /\ n.type = "board.action" /\ n.edit = <<v, edited[v] + 1>>
            /\ Holds(toRelay'[v], <<v, edited[v] + 1>>)
<1> DEFINE n == [type |-> "board.action", edit |-> <<v, edited[v] + 1>>]
<1> SUFFICES ASSUME v \in Ready
             PROVE  /\ n \in Messages /\ toRelay' = Posted(toRelay, v, n)
                    /\ n.type = "board.action" /\ n.edit = <<v, edited[v] + 1>>
                    /\ Holds(toRelay'[v], <<v, edited[v] + 1>>)
  BY DEF Edit
<1>1. n \in Messages /\ toRelay' = Posted(toRelay, v, n) /\ IsAction(n, <<v, edited[v] + 1>>)
  BY NewMessages DEF Edit, IsAction
<1>2. n.type = "board.action" /\ n.edit = <<v, edited[v] + 1>>
  OBVIOUS
<1> HIDE DEF n
<1>3. toRelay'[v] = Append(toRelay[v], n)
  BY <1>1 DEF Posted, CollabTypeOK
<1>4. Holds(toRelay'[v], <<v, edited[v] + 1>>)
  BY <1>1, <1>3, TaskFacts, HoldsAppended
<1> QED BY <1>1, <1>2, <1>4

\* The owner answers with its board, or not at all.
LEMMA AnswerSent ==
  ASSUME CollabTypeOK, AnswerRequest
  PROVE  \/ toRelay' = toRelay
         \/ \E n \in Messages :
              /\ toRelay' = Posted(toRelay, Owner, n)
              /\ n.type = "board.snapshot" /\ n.board = onBoard[Owner]
              /\ n.target = Head(toClient[Owner]).target
<1> DEFINE n == [type |-> "board.snapshot", target |-> Head(toClient[Owner]).target,
                 board |-> onBoard[Owner]]
<1>1. n \in Messages
  BY NewMessages
<1>2. toRelay' = toRelay \/ toRelay' = Posted(toRelay, Owner, n)
  BY DEF AnswerRequest
<1> QED BY <1>1, <1>2

\* What the relay has to read is the client's edit or the owner's board.
LEMMA UnreadOrigin ==
  ASSUME CollabTypeOK, CollabNext, NEW u \in Users, NEW m \in ToSet(toRelay'[u])
  PROVE  \/ m \in ToSet(toRelay[u])
         \/ /\ Edit(u) /\ u \in Ready
            /\ m.type = "board.action" /\ m.edit = <<u, edited[u] + 1>>
         \/ /\ AnswerRequest /\ u = Owner
            /\ m.type = "board.snapshot" /\ m.board = onBoard[Owner]
            /\ m.target = Head(toClient[Owner]).target
<1> USE UserFacts
<1>a. ASSUME NEW v \in Users, NEW n \in Messages, toRelay' = Posted(toRelay, v, n)
      PROVE  m \in ToSet(toRelay[u]) \/ (u = v /\ m = n)
  <2>1. toRelay'[u] = IF u = v THEN Append(toRelay[u], n) ELSE toRelay[u]
    BY <1>a DEF Posted, CollabTypeOK
  <2>2. ToSet(Append(toRelay[u], n)) = ToSet(toRelay[u]) \cup {n}
    BY TaskFacts, AppendContent
  <2> QED BY <2>1, <2>2
<1>1. ASSUME NEW v \in Users, Edit(v)
      PROVE  \/ m \in ToSet(toRelay[u])
             \/ Edit(u) /\ u \in Ready /\ m.type = "board.action" /\ m.edit = <<u, edited[u] + 1>>
  BY <1>1, <1>a, EditSent
<1>2. CASE AnswerRequest
  BY <1>2, <1>a, AnswerSent
<1>3. ASSUME NEW v \in Users, RelayAction(v) PROVE m \in ToSet(toRelay[u])
  BY <1>3, TakenContent DEF RelayAction, Reads
<1>4. CASE RelaySnapshot
  BY <1>4, TakenContent DEF RelaySnapshot, Reads
<1>5. ASSUME NEW g \in Guests, LoseConnection(g) PROVE m \in ToSet(toRelay[u])
  BY <1>5, EmptyContent DEF LoseConnection, CollabTypeOK
<1> QED BY <1>1, <1>2, <1>3, <1>4, <1>5, Frames

\* What a client has to read is a request, or what the relay was writing to it.
LEMMA InboxOrigin ==
  ASSUME CollabTypeOK, CollabNext, NEW u \in Users, NEW m \in ToSet(toClient'[u])
  PROVE  \/ m \in ToSet(toClient[u])
         \/ m.type = "board.snapshot.request" /\ \E g \in Guests : m.target = Actor(g)
         \/ \E w \in Users : ~IsIdle(w) /\ m = relaying[w].message /\ u \in relaying[w].recipients
<1> USE UserFacts
<1>1. ASSUME NEW g \in Guests, AskOwner(g)
      PROVE  m \in ToSet(toClient[u]) \/ (m.type = "board.snapshot.request" /\ m.target = Actor(g))
  <2> DEFINE n == [type |-> "board.snapshot.request", target |-> Actor(g)]
  <2>1. n \in Messages /\ toClient' = Posted(toClient, Owner, n)
        /\ n.type = "board.snapshot.request" /\ n.target = Actor(g)
    BY <1>1, NewMessages DEF AskOwner
  <2> HIDE DEF n
  <2>2. ToSet(toClient'[u]) \subseteq ToSet(toClient[u]) \cup {n}
    BY <2>1, SentContent
  <2> QED BY <2>1, <2>2
<1>2. ASSUME NEW w \in Users, NEW v \in Users, WriteTo(w, v)
      PROVE  \/ m \in ToSet(toClient[u])
             \/ ~IsIdle(w) /\ m = relaying[w].message /\ u \in relaying[w].recipients
  <2>1. /\ ~IsIdle(w) /\ relaying[w].message \in Messages /\ v \in relaying[w].recipients
        /\ toClient' = Posted(toClient, v, relaying[w].message)
    BY <1>2, WriteTasks
  <2>2. toClient'[u] = IF u = v THEN Append(toClient[u], relaying[w].message) ELSE toClient[u]
    BY <2>1, SentOne
  <2>3. ToSet(Append(toClient[u], relaying[w].message)) = ToSet(toClient[u]) \cup {relaying[w].message}
    BY <2>1, TaskFacts, AppendContent
  <2> QED BY <2>1, <2>2, <2>3
<1>3. ASSUME NEW v \in Users, ReceiveAction(v) \/ ReceiveError(v) PROVE m \in ToSet(toClient[u])
  BY <1>3, TakenContent DEF ReceiveAction, ReceiveError, HasMessage
<1>4. CASE AnswerRequest
  BY <1>4, TakenContent DEF AnswerRequest, HasMessage
<1>5. ASSUME NEW g \in Guests, ReceiveSnapshot(g) PROVE m \in ToSet(toClient[u])
  BY <1>5, TakenContent DEF ReceiveSnapshot, HasMessage
<1>6. ASSUME NEW g \in Guests, LoseConnection(g) PROVE m \in ToSet(toClient[u])
  BY <1>6, EmptyContent DEF LoseConnection, CollabTypeOK
<1> QED BY <1>1, <1>2, <1>3, <1>4, <1>5, <1>6, Frames

\* What the relay writes is what it wrote, or what it had to read, or an error
\* instead; an action goes to all whom it lists.
LEMMA TaskOrigin ==
  ASSUME CollabTypeOK, CollabNext, NEW u \in Users, ~IsIdle(u)'
  PROVE  \/ /\ ~IsIdle(u) /\ relaying'[u].message = relaying[u].message
            /\ relaying'[u].recipients \subseteq relaying[u].recipients
         \/ /\ relaying'[u].message \in ToSet(toRelay[u])
            /\ \/ /\ relaying'[u].message.type = "board.snapshot"
                  /\ u = Owner /\ relaying'[u].recipients = {relaying'[u].message.target[1]}
               \/ /\ relaying'[u].message.type = "board.action"
                  /\ relaying'[u].recipients = Recipients(u)
         \/ /\ relaying'[u].message.type = "error" /\ relaying'[u].recipients = {u}
            /\ u = Owner \/ (toRelay[u] # << >> /\ RelayAction(u))
<1> USE UserFacts
<1>1. ASSUME NEW v \in Users, RelayAction(v)
      PROVE  \/ relaying'[u] = relaying[u]
             \/ /\ relaying'[u].message \in ToSet(toRelay[u])
                /\ relaying'[u].message.type = "board.action"
                /\ relaying'[u].recipients = Recipients(u)
             \/ /\ relaying'[u].message.type = "error" /\ relaying'[u].recipients = {u}
                /\ toRelay[u] # << >> /\ RelayAction(u)
  <2>1. Head(toRelay[v]) \in ToSet(toRelay[v]) /\ Head(toRelay[v]).type = "board.action" /\ toRelay[v] # << >>
    BY <1>1, TakenContent DEF RelayAction, Reads
  <2>2. /\ u # v => relaying'[u] = relaying[u]
        /\ \/ /\ relaying'[v].message = Head(toRelay[v])
              /\ relaying'[v].recipients = Recipients(v)
           \/ relaying'[v] = Refusal(v)
    BY <1>1 DEF RelayAction, CollabTypeOK
  <2> QED BY <1>1, <2>1, <2>2, RefusalFacts
<1>2. CASE RelaySnapshot
  <2>1. Head(toRelay[Owner]) \in ToSet(toRelay[Owner]) /\ Head(toRelay[Owner]).type = "board.snapshot"
    BY <1>2, TakenContent DEF RelaySnapshot, Reads
  <2>2. \/ relaying'[u] = relaying[u]
        \/ /\ u = Owner /\ relaying'[u].message = Head(toRelay[Owner])
           /\ relaying'[u].recipients = {relaying'[u].message.target[1]}
        \/ u = Owner /\ relaying'[u] = Refusal(u)
    BY <1>2 DEF RelaySnapshot, CollabTypeOK
  <2> QED BY <2>1, <2>2, RefusalFacts DEF IsIdle
<1>3. ASSUME NEW w \in Users, NEW v \in Users, WriteTo(w, v)
      PROVE  /\ ~IsIdle(u) /\ relaying'[u].message = relaying[u].message
             /\ relaying'[u].recipients \subseteq relaying[u].recipients
  BY <1>3, WriteTasks DEF IsIdle
<1>4. ASSUME NEW g \in Guests, LoseConnection(g)
      PROVE  \/ /\ ~IsIdle(u) /\ relaying'[u].message = relaying[u].message
                /\ relaying'[u].recipients \subseteq relaying[u].recipients
             \/ u = Owner /\ relaying'[u].message.type = "error" /\ relaying'[u].recipients = {u}
  BY <1>4, LossTasks
<1> QED BY <1>1, <1>2, <1>3, <1>4, Frames DEF IsIdle

\* An edit that the relay has to read stays unread, or it is relayed to all,
\* or it is refused and no more due, or it is lost with the connection.
LEMMA UnreadFate ==
  ASSUME CollabTypeOK, CollabNext, NEW u \in Users, NEW e, Holds(toRelay[u], e)
  PROVE  \/ Holds(toRelay'[u], e)
         \/ IsAction(relaying'[u].message, e) /\ relaying'[u].recipients = Recipients(u)
         \/ IsRefusing(u)' /\ \A v \in Users : e \notin due'[v]
         \/ u \in Guests /\ LoseConnection(u)
<1> USE UserFacts
<1>a. toRelay[u] \in Seq(Messages)
  BY TaskFacts
<1>b. ASSUME NEW m \in Messages, NEW v \in Users, toRelay' = Posted(toRelay, v, m)
      PROVE  Holds(toRelay'[u], e)
  <2>1. toRelay'[u] = IF u = v THEN Append(toRelay[u], m) ELSE toRelay[u]
    BY <1>b DEF Posted, CollabTypeOK
  <2> QED BY <1>a, <2>1, HoldsAppended
<1>1. ASSUME NEW v \in Users, Edit(v) PROVE Holds(toRelay'[u], e)
  BY <1>1, <1>b, EditSent
<1>2. CASE AnswerRequest
  BY <1>2, <1>b, AnswerSent
<1>3. ASSUME NEW v \in Users, RelayAction(v)
      PROVE  \/ Holds(toRelay'[u], e)
             \/ IsAction(relaying'[u].message, e) /\ relaying'[u].recipients = Recipients(u)
             \/ IsRefusing(u)' /\ \A w \in Users : e \notin due'[w]
  <2>1. CASE v # u
    BY <1>3, <2>1 DEF RelayAction, NextMessage, CollabTypeOK
  <2>2. CASE v = u
    <3>1. toRelay[u] # << >> /\ toRelay'[u] = Tail(toRelay[u])
      BY <1>3, <2>2 DEF RelayAction, Reads, NextMessage, CollabTypeOK
    <3>2. Holds(toRelay'[u], e) \/ IsAction(Head(toRelay[u]), e)
      BY <1>a, <3>1, HoldsTaken
    <3>3. \/ relaying'[u].message = Head(toRelay[u]) /\ relaying'[u].recipients = Recipients(u)
          \/ /\ relaying'[u] = Refusal(u)
             /\ due' = [w \in Users |-> due[w] \ {Head(toRelay[u]).edit}]
      BY <1>3, <2>2 DEF RelayAction, CollabTypeOK
    <3>4. ASSUME relaying'[u] = Refusal(u) PROVE IsRefusing(u)'
      BY <3>4, RefusalFacts DEF IsRefusing, IsIdle
    <3> QED BY <3>2, <3>3, <3>4 DEF IsAction
  <2> QED BY <2>1, <2>2
<1>4. CASE RelaySnapshot
  <2>1. toRelay[Owner] # << >> /\ toRelay' = [toRelay EXCEPT ![Owner] = Tail(@)]
        /\ Head(toRelay[Owner]).type = "board.snapshot"
    BY <1>4 DEF RelaySnapshot, Reads, NextMessage
  <2>2. CASE u # Owner
    BY <2>1, <2>2 DEF CollabTypeOK
  <2>3. CASE u = Owner
    <3>1. toRelay'[u] = Tail(toRelay[u]) /\ ~IsAction(Head(toRelay[u]), e)
      BY <2>1, <2>3 DEF CollabTypeOK, IsAction
    <3> QED BY <1>a, <2>1, <2>3, <3>1, HoldsTaken
  <2> QED BY <2>2, <2>3
<1>5. ASSUME NEW g \in Guests, LoseConnection(g)
      PROVE  Holds(toRelay'[u], e) \/ (u \in Guests /\ LoseConnection(u))
  BY <1>5 DEF LoseConnection, CollabTypeOK
<1> QED BY <1>1, <1>2, <1>3, <1>4, <1>5, Frames

\* An edit that the relay writes to a user gets into the user's queue, unless
\* that connection is lost.
LEMMA RelayedFate ==
  ASSUME CollabTypeOK, CollabNext, NEW v \in Users, NEW e, IsRelayedTo(e, v)
  PROVE  \/ IsRelayedTo(e, v)'
         \/ Holds(toClient'[v], e) /\ \A a : Covers(toClient'[v], a, e)
         \/ v \in Guests /\ LoseConnection(v)
<1> USE UserFacts
<1>a. PICK u \in Users : v \in relaying[u].recipients /\ IsAction(relaying[u].message, e)
  BY DEF IsRelayedTo
<1>b. ~IsIdle(u)
  BY <1>a DEF IsIdle
<1>c. ASSUME v \in relaying'[u].recipients, relaying'[u].message = relaying[u].message
      PROVE  IsRelayedTo(e, v)'
  BY <1>a, <1>c DEF IsRelayedTo
<1>1. ASSUME NEW w \in Users, RelayAction(w) PROVE IsRelayedTo(e, v)'
  <2>1. relaying'[u] = relaying[u]
    BY <1>1, <1>b DEF RelayAction, Reads, CollabTypeOK
  <2> QED BY <1>a, <1>c, <2>1
<1>2. CASE RelaySnapshot
  <2>1. relaying'[u] = relaying[u]
    BY <1>2, <1>b DEF RelaySnapshot, Reads, CollabTypeOK
  <2> QED BY <1>a, <1>c, <2>1
<1>3. ASSUME NEW w \in Users, NEW x \in Users, WriteTo(w, x)
      PROVE  IsRelayedTo(e, v)' \/ (Holds(toClient'[v], e) /\ \A a : Covers(toClient'[v], a, e))
  <2>1. CASE w # u
    BY <1>a, <1>c, <1>3, <2>1, WriteTasks
  <2>2. CASE w = u /\ x # v
    <3>1. v \in relaying'[u].recipients
      BY <1>a, <1>3, <2>2, WriteTasks
    <3>2. relaying'[u].message = relaying[u].message
      BY <1>3, <2>2, <3>1, WriteTasks DEF IsIdle
    <3> QED BY <1>c, <3>1, <3>2
  <2>3. CASE w = u /\ x = v
    <3>1. relaying[u].message \in Messages /\ toClient' = Posted(toClient, v, relaying[u].message)
      BY <1>3, <2>3, WriteTasks
    <3>2. toClient'[v] = Append(toClient[v], relaying[u].message)
      BY <3>1, SentOne
    <3>3. Holds(toClient'[v], e)
      BY <1>a, <3>1, <3>2, TaskFacts, HoldsAppended
    <3>4. \A a : Covers(toClient'[v], a, e)
      BY <1>a, <3>1, <3>2, TaskFacts, CoversBehind
    <3> QED BY <3>3, <3>4
  <2> QED BY <2>1, <2>2, <2>3
<1>4. ASSUME NEW g \in Guests, LoseConnection(g)
      PROVE  IsRelayedTo(e, v)' \/ (v \in Guests /\ LoseConnection(v))
  <2>1. CASE g = v
    BY <1>4, <2>1
  <2>2. CASE g # v
    <3>1. v \in relaying'[u].recipients
      BY <1>a, <1>4, <2>2, LossKeeps DEF IsAction
    <3>2. relaying'[u].message = relaying[u].message
      BY <1>a, <1>4, <3>1, LossKeeps DEF IsIdle, IsAction
    <3> QED BY <1>c, <3>1, <3>2
  <2> QED BY <2>1, <2>2
<1>5. CASE relaying' = relaying
  BY <1>5, <1>a, <1>c
<1> QED BY <1>1, <1>2, <1>3, <1>4, <1>5, Frames

\* An edit in a user's queue gets onto the board, unless the connection is lost.
LEMMA InboxFate ==
  ASSUME CollabTypeOK, CollabNext, NEW v \in Users, NEW e, Holds(toClient[v], e)
  PROVE  \/ Holds(toClient'[v], e)
         \/ ReceiveAction(v) /\ e \in onBoard'[v]
         \/ v \in Guests /\ LoseConnection(v)
<1> USE UserFacts
<1>a. toClient[v] \in Seq(Messages)
  BY TaskFacts
<1>b. ASSUME NEW m \in Messages, NEW u \in Users, toClient' = Posted(toClient, u, m)
      PROVE  Holds(toClient'[v], e)
  BY <1>a, <1>b, SentOne, HoldsAppended
<1>c. ASSUME NEW u \in Users, TakeMessage(u), u = v => ~IsAction(Head(toClient[v]), e),
             toClient[u] # << >>
      PROVE  Holds(toClient'[v], e)
  BY <1>a, <1>c, TakenOne, HoldsTaken
<1>1. ASSUME NEW g \in Guests, AskOwner(g) PROVE Holds(toClient'[v], e)
  BY <1>1, <1>b, NewMessages DEF AskOwner
<1>2. ASSUME NEW w \in Users, NEW x \in Users, WriteTo(w, x) PROVE Holds(toClient'[v], e)
  BY <1>2, <1>b, WriteTasks
<1>3. ASSUME NEW u \in Users, ReceiveAction(u)
      PROVE  Holds(toClient'[v], e) \/ (u = v /\ e \in onBoard'[v])
  <2>1. toClient[u] # << >> /\ TakeMessage(u)
    BY <1>3 DEF ReceiveAction, HasMessage
  <2>2. CASE u = v /\ IsAction(Head(toClient[v]), e)
    BY <1>3, <2>2 DEF ReceiveAction, IsAction, CollabTypeOK
  <2> QED BY <1>c, <2>1, <2>2
<1>7. ASSUME NEW u \in Users, ReceiveError(u) PROVE Holds(toClient'[v], e)
  <2>1. toClient[u] # << >> /\ TakeMessage(u) /\ (u = v => ~IsAction(Head(toClient[v]), e))
    BY <1>7 DEF ReceiveError, HasMessage, IsAction
  <2> QED BY <1>c, <2>1
<1>4. CASE AnswerRequest
  <2>1. toClient[Owner] # << >> /\ TakeMessage(Owner) /\ ~IsAction(Head(toClient[Owner]), e)
    BY <1>4 DEF AnswerRequest, HasMessage, IsAction
  <2> QED BY <1>c, <2>1
<1>5. ASSUME NEW g \in Guests, ReceiveSnapshot(g) PROVE Holds(toClient'[v], e)
  <2>1. toClient[g] # << >> /\ TakeMessage(g) /\ ~IsAction(Head(toClient[g]), e)
    BY <1>5 DEF ReceiveSnapshot, HasMessage, IsAction
  <2> QED BY <1>c, <2>1
<1>6. ASSUME NEW g \in Guests, LoseConnection(g)
      PROVE  Holds(toClient'[v], e) \/ (v \in Guests /\ LoseConnection(v))
  BY <1>6 DEF LoseConnection, CollabTypeOK
<1> QED BY <1>1, <1>2, <1>3, <1>4, <1>5, <1>6, <1>7, Frames

\* Boards only grow, but for the snapshot that replaces one.
LEMMA BoardFate ==
  ASSUME CollabTypeOK, CollabNext, NEW u \in Users
  PROVE  /\ onBoard[u] \subseteq onBoard'[u] \/ (u \in Guests /\ ReceiveSnapshot(u))
         /\ onBoard[Owner] \subseteq onBoard'[Owner]
         /\ \A e \in onBoard'[u] :
              \/ e \in onBoard[u] /\ ~(u \in Guests /\ ReceiveSnapshot(u))
              \/ Edit(u) /\ (u \in Ready => Holds(toRelay'[u], e))
              \/ Holds(toClient[u], e)
              \/ /\ u \in Guests /\ ReceiveSnapshot(u)
                 /\ e \in Head(toClient[u]).board
<1> USE UserFacts
<1>1. ASSUME NEW v \in Users, Edit(v)
      PROVE  /\ \A w \in Users : onBoard[w] \subseteq onBoard'[w]
             /\ \A e \in onBoard'[u] :
                  \/ e \in onBoard[u] /\ ~(u \in Guests /\ ReceiveSnapshot(u))
                  \/ Edit(u) /\ (u \in Ready => Holds(toRelay'[u], e))
  <2>3. v \in Ready => Holds(toRelay'[v], <<v, edited[v] + 1>>)
    BY <1>1, EditSent
  <2>4. onBoard' = [onBoard EXCEPT ![v] = @ \cup {<<v, edited[v] + 1>>}]
    BY <1>1 DEF Edit
  <2>5. toClient' = toClient
    BY <1>1 DEF Edit
  <2>6. ASSUME u \in Guests, ReceiveSnapshot(u) PROVE FALSE
    <3>1. toClient[u] # << >> /\ toClient'[u] = Tail(toClient[u])
      BY <2>6, TakenOne DEF ReceiveSnapshot, HasMessage
    <3>2. Len(Tail(toClient[u])) # Len(toClient[u])
      BY <3>1, TaskFacts
    <3> QED BY <2>5, <3>1, <3>2
  <2> QED BY <1>1, <2>3, <2>4, <2>6 DEF CollabTypeOK
<1>2. ASSUME NEW v \in Users, ReceiveAction(v)
      PROVE  /\ \A w \in Users : onBoard[w] \subseteq onBoard'[w]
             /\ \A e \in onBoard'[u] :
                  \/ e \in onBoard[u] /\ ~(u \in Guests /\ ReceiveSnapshot(u))
                  \/ Holds(toClient[u], e)
  <2>1. Head(toClient[v]) \in ToSet(toClient[v]) /\ Head(toClient[v]).type = "board.action"
    BY <1>2, TakenContent DEF ReceiveAction, HasMessage
  <2>2. onBoard' = [onBoard EXCEPT ![v] = @ \cup {Head(toClient[v]).edit}]
    BY <1>2 DEF ReceiveAction
  <2>3. Holds(toClient[v], Head(toClient[v]).edit)
    BY <2>1 DEF Holds, IsAction
  <2>4. ASSUME u \in Guests, ReceiveSnapshot(u) PROVE FALSE
    <3>1. toClient[u] # << >> /\ toClient'[u] = Tail(toClient[u]) /\ Head(toClient[u]).type = "board.snapshot"
      BY <2>4, TakenOne DEF ReceiveSnapshot, HasMessage
    <3>2. Len(Tail(toClient[u])) # Len(toClient[u])
      BY <3>1, TaskFacts
    <3>3. toClient'[u] = IF u = v THEN Tail(toClient[u]) ELSE toClient[u]
      BY <1>2, TakenOne DEF ReceiveAction
    <3> QED BY <2>1, <3>1, <3>2, <3>3
  <2> QED BY <2>2, <2>3, <2>4 DEF CollabTypeOK
<1>3. ASSUME NEW g \in Guests, ReceiveSnapshot(g)
      PROVE  /\ \A w \in Users : w # g => onBoard'[w] = onBoard[w]
             /\ onBoard'[g] = Head(toClient[g]).board
  BY <1>3 DEF ReceiveSnapshot, BoardFrom, CollabTypeOK
<1>4. ASSUME onBoard' = onBoard, NEW e \in onBoard'[u], u \in Guests, ReceiveSnapshot(u)
      PROVE  e \in Head(toClient[u]).board
  BY <1>3, <1>4
<1>5. ASSUME NEW g \in Guests, ReceiveSnapshot(g), g # u, u \in Guests PROVE ~ReceiveSnapshot(u)
  <2>1. toClient[g] # << >> /\ toClient'[g] = Tail(toClient[g])
    BY <1>5, TakenOne DEF ReceiveSnapshot, HasMessage
  <2>2. Len(Tail(toClient[g])) # Len(toClient[g])
    BY <2>1, TaskFacts
  <2>3. ReceiveSnapshot(u) => toClient'[g] = toClient[g]
    BY <1>5, TakenOne DEF ReceiveSnapshot
  <2> QED BY <2>1, <2>2, <2>3
<1> QED BY <1>1, <1>2, <1>3, <1>4, <1>5, Frames

(***************************************************************************)
(* The handshake and the connection maps.                                  *)
(***************************************************************************)

\* A snapshot that a guest takes is that of its session.
LEMMA SnapshotTaken ==
  ASSUME CollabTypeOK, OneSnapshotInv, NEW g \in Guests, ReceiveSnapshot(g)
  PROVE  /\ g \in Users /\ toClient[g] # << >> /\ toClient[g] \in Seq(Messages)
         /\ Head(toClient[g]) \in ToSet(toClient[g])
         /\ IsSnapshot(Head(toClient[g]), Actor(g))
         /\ phase[g] = "awaiting_snapshot" /\ g \notin awaited
         /\ ~IsForwarding(Actor(g))
         /\ ~HoldsSnapshot(Tail(toClient[g]), Actor(g))
<1>1. g \in Users /\ toClient[g] # << >> /\ toClient[g] \in Seq(Messages)
  BY UserFacts, TaskFacts DEF ReceiveSnapshot, HasMessage
<1>2. IsSnapshot(Head(toClient[g]), Actor(g))
  BY DEF ReceiveSnapshot, HasMessage, IsSnapshot
<1>3. Head(toClient[g]) \in ToSet(toClient[g])
  BY <1>1, HeadHolds
<1>4. HoldsSnapshot(toClient[g], Actor(g))
  BY <1>2, <1>3 DEF HoldsSnapshot
<1>5. ~HoldsSnapshot(Tail(toClient[g]), Actor(g))
  BY <1>1, <1>2, OneTaken DEF OneSnapshotInv, OneSnapshotFor
<1> QED BY <1>1, <1>2, <1>3, <1>4, <1>5 DEF OneSnapshotInv, OneSnapshotFor

\* An error that a user takes was under way to it.
LEMMA ErrorTaken ==
  ASSUME CollabTypeOK, HandshakeInv, NEW u \in Users, ReceiveError(u)
  PROVE  IsRefused(u) /\ u \in Opened
<1>1. Head(toClient[u]) \in ToSet(toClient[u]) /\ Head(toClient[u]).type = "error"
  BY TakenContent DEF ReceiveError, HasMessage
<1>2. IsRefused(u)
  BY <1>1 DEF IsRefused, HoldsError
<1> QED BY <1>2, UserFacts DEF HandshakeInv

\* Whoever has the board open keeps it so, until the connection is lost; a
\* guest gets it with the snapshot.
LEMMA OpenedFate ==
  ASSUME CollabTypeOK, HandshakeInv, CollabNext, NEW u \in Users
  PROVE  /\ u \in Opened => u \in Opened' \/ (u \in Guests /\ LoseConnection(u))
         /\ u \in Opened' => u \in Opened \/ (u \in Guests /\ ReceiveSnapshot(u))
         /\ u \in Ready' => u \in Ready \/ (u \in Guests /\ ReceiveSnapshot(u))
         /\ u \in Opened' /\ u \in Guests => ~LoseConnection(u)
         /\ u \in Ready' => u \in Opened' /\ ~ReceiveError(u)
<1> USE UserFacts DEF Opened, Ready
<1>1. ASSUME NEW v \in Users, ReceiveError(v) \/ RefuseOther(v)
      PROVE  v \in Opened /\ phase'[u] = IF u = v THEN "error" ELSE phase[u]
  BY <1>1, ErrorTaken DEF ReceiveError, RefuseOther, CollabTypeOK
<1>2. ASSUME NEW g \in Guests, ReceiveSnapshot(g)
      PROVE  phase'[u] = IF u = g THEN "ready" ELSE phase[u]
  BY <1>2 DEF ReceiveSnapshot, CollabTypeOK
<1>3. ASSUME NEW g \in Guests, LoseConnection(g)
      PROVE  phase'[u] = IF u = g THEN "away" ELSE phase[u]
  BY <1>3 DEF LoseConnection, CollabTypeOK
<1>4. ASSUME NEW g \in Guests, Join(g)
      PROVE  phase[g] = "away" /\ phase'[u] = IF u = g THEN "awaiting_snapshot" ELSE phase[u]
  BY <1>4 DEF Join, CollabTypeOK
<1>5. /\ u \in Opened => u \in Opened' \/ (u \in Guests /\ LoseConnection(u))
      /\ u \in Opened' => u \in Opened \/ (u \in Guests /\ ReceiveSnapshot(u))
      /\ u \in Ready' => u \in Ready \/ (u \in Guests /\ ReceiveSnapshot(u))
  BY <1>1, <1>2, <1>3, <1>4, Frames
<1>6. u \in Opened' /\ u \in Guests => ~LoseConnection(u)
  BY <1>3
<1>7. u \in Ready' => u \in Opened' /\ ~ReceiveError(u)
  BY <1>1
<1> QED BY <1>5, <1>6, <1>7

\* An error under way to a user was so before, or it answers an edit, or a
\* snapshot of the owner.
LEMMA RefusedOrigin ==
  ASSUME CollabTypeOK, HandshakeInv, CollabNext, NEW u \in Users, IsRefused(u)'
  PROVE  IsRefused(u) \/ toRelay[u] # << >> \/ u = Owner
<1>1. CASE IsRefusing(u)'
  BY <1>1, TaskOrigin DEF IsRefusing, IsRefused
<1>2. ASSUME NEW m \in ToSet(toClient'[u]), m.type = "error" PROVE IsRefused(u)
  <2>1. CASE m \in ToSet(toClient[u])
    BY <1>2, <2>1 DEF IsRefused, HoldsError
  <2>2. ASSUME NEW w \in Users, ~IsIdle(w), m = relaying[w].message, u \in relaying[w].recipients
        PROVE  IsRefused(u)
    <3>1. IsRefusing(w) /\ relaying[w].recipients = {w}
      BY <1>2, <2>2 DEF IsRefusing, HandshakeInv
    <3> QED BY <2>2, <3>1 DEF IsRefused
  <2> QED BY <1>2, <2>1, <2>2, InboxOrigin
<1> QED BY <1>1, <1>2 DEF IsRefused, HoldsError

\* An error under way to a user gets there, unless the connection is lost.
LEMMA RefusedFate ==
  ASSUME CollabTypeOK, HandshakeInv, CollabNext, NEW u \in Users, IsRefused(u)
  PROVE  IsRefused(u)' \/ ReceiveError(u) \/ (u \in Guests /\ LoseConnection(u))
<1> USE UserFacts
<1>a. ASSUME ToSet(toClient[u]) \subseteq ToSet(toClient'[u]), HoldsError(toClient[u])
      PROVE  IsRefused(u)'
  BY <1>a DEF IsRefused, HoldsError
<1>b. ASSUME relaying'[u] = relaying[u], IsRefusing(u) PROVE IsRefused(u)'
  BY <1>b DEF IsRefused, IsRefusing, IsIdle
<1>c. ASSUME NEW v \in Users, NEW m \in Messages, toClient' = Posted(toClient, v, m)
      PROVE  /\ ToSet(toClient[u]) \subseteq ToSet(toClient'[u])
             /\ u = v => m \in ToSet(toClient'[u])
  BY <1>c, TaskFacts, SentOne, AppendContent
<1>d. ASSUME NEW v \in Users, toClient[v] # << >>, TakeMessage(v), Head(toClient[v]).type # "error",
             HoldsError(toClient[u])
      PROVE  IsRefused(u)'
  <2>1. toClient'[u] = IF u = v THEN Tail(toClient[u]) ELSE toClient[u]
    BY <1>d, TakenOne
  <2>2. CASE u = v
    <3>1. ToSet(toClient[u]) = ToSet(Tail(toClient[u])) \cup {Head(toClient[u])}
      BY <1>d, <2>2, TaskFacts, TailContent
    <3> QED BY <1>d, <2>1, <2>2, <3>1 DEF IsRefused, HoldsError
  <2> QED BY <1>d, <2>1, <2>2 DEF IsRefused, HoldsError
<1>1. CASE IsRefusing(u)
  <2>0. ~IsIdle(u) /\ relaying[u].recipients = {u} /\ relaying[u].message.type = "error"
    BY <1>1 DEF IsRefusing, HandshakeInv
  <2>1. CASE RelaySnapshot \/ \E v \in Users : RelayAction(v)
    <3>1. relaying'[u] = relaying[u]
      BY <2>0, <2>1 DEF RelaySnapshot, RelayAction, Reads, CollabTypeOK
    <3> QED BY <1>1, <1>b, <3>1
  <2>2. ASSUME NEW w \in Users, NEW v \in Users, WriteTo(w, v) PROVE IsRefused(u)'
    <3>1. CASE w # u
      BY <1>1, <1>b, <2>2, <3>1, WriteTasks
    <3>2. CASE w = u
      <4>1. v = u /\ relaying[u].message \in Messages /\ toClient' = Posted(toClient, v, relaying[u].message)
        BY <2>0, <2>2, <3>2, WriteTasks
      <4> QED BY <1>c, <2>0, <4>1 DEF IsRefused, HoldsError
    <3> QED BY <3>1, <3>2
  <2>3. ASSUME NEW g \in Guests, LoseConnection(g), g # u PROVE IsRefused(u)'
    <3>1. u \in relaying'[u].recipients
      BY <2>0, <2>3, LossKeeps
    <3>2. relaying'[u].message = relaying[u].message
      BY <2>0, <2>3, <3>1, LossKeeps DEF IsIdle
    <3> QED BY <2>0, <3>1, <3>2 DEF IsRefused, IsRefusing, IsIdle
  <2> QED BY <1>1, <1>b, <2>1, <2>2, <2>3, Frames
<1>2. CASE HoldsError(toClient[u])
  <2>1. ASSUME NEW w \in Users, NEW v \in Users, WriteTo(w, v) PROVE IsRefused(u)'
    BY <1>2, <1>a, <1>c, <2>1, WriteTasks
  <2>2. ASSUME NEW g \in Guests, AskOwner(g) PROVE IsRefused(u)'
    BY <1>2, <1>a, <1>c, <2>2, NewMessages DEF AskOwner
  <2>3. ASSUME NEW v \in Users, ReceiveAction(v) PROVE IsRefused(u)'
    BY <1>2, <1>d, <2>3 DEF ReceiveAction, HasMessage
  <2>4. CASE AnswerRequest
    BY <1>2, <1>d, <2>4 DEF AnswerRequest, HasMessage
  <2>5. ASSUME NEW g \in Guests, ReceiveSnapshot(g) PROVE IsRefused(u)'
    BY <1>2, <1>d, <2>5 DEF ReceiveSnapshot, HasMessage
  <2>6. ASSUME NEW v \in Users, v # u, ReceiveError(v) PROVE IsRefused(u)'
    <3>1. toClient'[u] = toClient[u]
      BY <2>6, TakenOne DEF ReceiveError
    <3> QED BY <1>2, <1>a, <3>1
  <2>7. ASSUME NEW g \in Guests, g # u, LoseConnection(g) PROVE IsRefused(u)'
    <3>1. toClient'[u] = toClient[u]
      BY <2>7 DEF LoseConnection, CollabTypeOK
    <3> QED BY <1>2, <1>a, <3>1
  <2>8. CASE toClient' = toClient
    BY <1>2, <1>a, <2>8
  <2> QED BY <2>1, <2>2, <2>3, <2>4, <2>5, <2>6, <2>7, <2>8, Frames
<1> QED BY <1>1, <1>2 DEF IsRefused

LEMMA HandshakeStep ==
  ASSUME CollabTypeOK, HandshakeInv, OneSnapshotInv, CollabNext
  PROVE  HandshakeInv'
<1> USE UserFacts
<1>1. Owner \in Opened'
  BY OpenedFate DEF HandshakeInv
<1>2. ASSUME NEW g \in Guests
      PROVE  /\ g \in attached' <=> phase'[g] # "away"
             /\ g \in awaited' => phase'[g] = "awaiting_snapshot"
  <2>0. /\ g \in attached <=> phase[g] # "away"
        /\ g \in awaited => phase[g] = "awaiting_snapshot"
    BY DEF HandshakeInv
  <2>1. ASSUME NEW h \in Guests, LoseConnection(h) \/ Join(h)
        PROVE  /\ g \in attached' <=> phase'[g] # "away"
               /\ g \in awaited' => phase'[g] = "awaiting_snapshot"
    <3>1. CASE LoseConnection(h)
      BY <2>0, <3>1 DEF LoseConnection, CollabTypeOK
    <3>2. CASE Join(h)
      BY <2>0, <3>2 DEF Join, CollabTypeOK
    <3> QED BY <2>1, <3>1, <3>2
  <2>2. CASE attached' = attached /\ awaited' \subseteq awaited
    <3>1. ASSUME NEW u \in Users, ReceiveError(u) \/ RefuseOther(u)
          PROVE  phase[u] \in {"ready", "error"} /\ phase'[g] = IF g = u THEN "error" ELSE phase[g]
      BY <3>1, ErrorTaken DEF ReceiveError, RefuseOther, CollabTypeOK, Ready, Opened
    <3>2. ASSUME NEW h \in Guests, ReceiveSnapshot(h)
          PROVE  /\ phase[h] = "awaiting_snapshot" /\ h \notin awaited
                 /\ phase'[g] = IF g = h THEN "ready" ELSE phase[g]
      BY <3>2, SnapshotTaken DEF ReceiveSnapshot, CollabTypeOK
    <3> QED BY <2>0, <2>1, <2>2, <3>1, <3>2, Frames
  <2> QED BY <2>1, <2>2, Frames
<1>3. ASSUME NEW g \in Guests, g \notin Opened' PROVE toRelay'[g] = << >> /\ ~IsRefused(g)'
  <2>1. CASE g \in Opened
    <3>1. LoseConnection(g)
      BY <1>3, <2>1, OpenedFate
    <3>2. toRelay'[g] = << >> /\ toClient'[g] = << >>
      BY <3>1 DEF LoseConnection, CollabTypeOK
    <3>3. relaying'[g].recipients = relaying[g].recipients \ {g}
          /\ (~IsIdle(g)' => relaying'[g].message = relaying[g].message /\ ~IsIdle(g))
      BY <3>1, LossKeeps
    <3>4. ~IsRefusing(g)'
      BY <3>3 DEF IsRefusing, IsIdle, HandshakeInv
    <3> QED BY <3>2, <3>4, EmptyContent DEF IsRefused, HoldsError
  <2>2. CASE g \notin Opened
    <3>1. toRelay[g] = << >> /\ ~IsRefused(g)
      BY <2>2 DEF HandshakeInv
    <3>2. ~IsRefused(g)'
      BY <3>1, RefusedOrigin
    <3>3. ~(Edit(g) /\ g \in Ready)
      BY <2>2 DEF Ready, Opened
    <3>4. ASSUME NEW m \in ToSet(toRelay'[g]) PROVE FALSE
      BY <3>1, <3>3, EmptyContent, UnreadOrigin
    <3>5. toRelay'[g] \in Seq(Messages)
      <4>1. CollabTypeOK'
        BY StepTypes
      <4> QED BY <4>1 DEF CollabTypeOK
    <3>6. toRelay'[g] = << >>
      <4>1. CASE toRelay'[g] # << >>
        <5>1. Head(toRelay'[g]) \in ToSet(toRelay'[g])
          BY <3>5, <4>1, HeadHolds
        <5> QED BY <3>4, <5>1
      <4> QED BY <4>1
    <3> QED BY <3>2, <3>6
  <2> QED BY <2>1, <2>2
<1>4. ASSUME NEW u \in Users, ~IsIdle(u)'
      PROVE  /\ u \in Guests => relaying'[u].message.type # "board.snapshot"
             /\ relaying'[u].message.type = "error" => relaying'[u].recipients = {u}
             /\ u = Owner /\ relaying'[u].message.type = "board.snapshot"
                  => relaying'[u].recipients = {relaying'[u].message.target[1]}
  <2>1. relaying'[u].recipients # {}
    BY <1>4 DEF IsIdle
  <2>2. CASE /\ ~IsIdle(u) /\ relaying'[u].message = relaying[u].message
             /\ relaying'[u].recipients \subseteq relaying[u].recipients
    BY <2>1, <2>2 DEF HandshakeInv, IsRefusing
  <2> QED BY <1>4, <2>2, TaskOrigin
<1>5. /\ (\A g \in Guests : ~IsIdle(g) => relaying[g].message.type # "board.snapshot")'
      /\ (\A u \in Users : IsRefusing(u) => relaying[u].recipients = {u})'
      /\ (~IsIdle(Owner) /\ relaying[Owner].message.type = "board.snapshot"
            => relaying[Owner].recipients = {relaying[Owner].message.target[1]})'
  BY <1>4 DEF IsRefusing
<1>6. /\ (\A g \in Guests : g \in attached <=> phase[g] # "away")'
      /\ (\A g \in awaited : phase[g] = "awaiting_snapshot")'
  <2>1. awaited' \subseteq Guests
    BY StepTypes DEF CollabTypeOK
  <2> QED BY <1>2, <2>1
<1>7. (\A g \in Guests : g \notin Opened => toRelay[g] = << >> /\ ~IsRefused(g))'
  BY <1>3
<1> QED BY <1>1, <1>5, <1>6, <1>7 DEF HandshakeInv

(***************************************************************************)
(* Sessions and snapshots.                                                 *)
(***************************************************************************)

\* A message of the past stays one.
LEMMA PastKept ==
  ASSUME CollabTypeOK, NEW m \in Messages, IsOfPast(m, visit),
         visit' \in [Guests -> Nat], \A g \in Guests : visit'[g] >= visit[g]
  PROVE  IsOfPast(m, visit')
<1> SUFFICES ASSUME m.type \in {"board.snapshot.request", "board.snapshot"}
             PROVE  m.target[2] <= visit'[m.target[1]]
  BY DEF IsOfPast
<1>1. m.target \in ActorIds
  BY MessageFacts
<1>2. m.target[1] \in Guests /\ m.target[2] \in Nat
  BY <1>1, CollabAssumption DEF ActorIds
<1>3. m.target[2] <= visit[m.target[1]] /\ visit[m.target[1]] \in Nat
  BY <1>2, CollabAssumption DEF IsOfPast, CollabTypeOK
<1> QED BY <1>2, <1>3

LEMMA PastStep ==
  ASSUME CollabTypeOK, PastInv, CollabNext
  PROVE  PastInv'
<1> USE UserFacts DEF PastInv
<1>1. ASSUME NEW g \in Guests, Join(g) PROVE PastInv'
  <2>1. visit' \in [Guests -> Nat] /\ \A h \in Guests : visit'[h] >= visit[h]
    BY <1>1, CollabAssumption DEF Join, CollabTypeOK
  <2>2. ASSUME NEW u \in Users
        PROVE  /\ ~IsIdle(u) => relaying[u].message \in Messages
               /\ ToSet(toRelay[u]) \subseteq Messages
               /\ ToSet(toClient[u]) \subseteq Messages
    <3>1. \A q \in Seq(Messages) : ToSet(q) \subseteq Messages
      BY DEF ToSet
    <3> QED BY <3>1, TaskFacts
  <2>3. relaying' = relaying /\ toRelay' = toRelay /\ toClient' = toClient
    BY <1>1 DEF Join
  <2> QED BY <2>1, <2>2, <2>3, PastKept DEF IsIdle
<1>2. ASSUME visit' = visit, NEW u \in Users, NEW m \in ToSet(toRelay'[u]) PROVE IsOfPast(m, visit')
  <2>1. CASE m \in ToSet(toRelay[u])
    BY <1>2, <2>1
  <2>2. CASE m.type = "board.action"
    BY <2>2 DEF IsOfPast
  <2>3. CASE AnswerRequest /\ m.target = Head(toClient[Owner]).target
    <3>1. /\ Head(toClient[Owner]) \in ToSet(toClient[Owner])
          /\ Head(toClient[Owner]).type = "board.snapshot.request"
      BY <2>3, TakenContent DEF AnswerRequest, HasMessage
    <3> QED BY <1>2, <2>3, <3>1 DEF IsOfPast
  <2> QED BY <1>2, <2>1, <2>2, <2>3, UnreadOrigin
<1>3. ASSUME visit' = visit, NEW u \in Users, NEW m \in ToSet(toClient'[u]) PROVE IsOfPast(m, visit')
  <2>1. CASE m \in ToSet(toClient[u])
    BY <1>3, <2>1
  <2>2. ASSUME NEW g \in Guests, m.target = Actor(g) PROVE IsOfPast(m, visit')
    BY <1>3, <2>2, CollabAssumption DEF IsOfPast, Actor, CollabTypeOK
  <2>3. ASSUME NEW w \in Users, ~IsIdle(w), m = relaying[w].message PROVE IsOfPast(m, visit')
    BY <1>3, <2>3
  <2> QED BY <1>3, <2>1, <2>2, <2>3, InboxOrigin
<1>4. ASSUME visit' = visit, NEW u \in Users, ~IsIdle(u)'
      PROVE  IsOfPast(relaying'[u].message, visit')
  <2>1. CASE relaying'[u].message.type = "error"
    BY <2>1 DEF IsOfPast
  <2> QED BY <1>4, <2>1, TaskOrigin
<1>5. CASE visit' = visit
  BY <1>2, <1>3, <1>4, <1>5
<1> QED BY <1>1, <1>5, Frames

\* What happens to others changes nothing for a guest.
LEMMA OneSnapshotKept ==
  ASSUME NEW g \in Guests, OneSnapshotFor(g),
         visit'[g] = visit[g], phase'[g] = phase[g], g \in awaited' => g \in awaited,
         toClient'[g] = toClient[g],
         IsForwarding(Actor(g))' => IsForwarding(Actor(g))
  PROVE  OneSnapshotFor(g)'
BY DEF OneSnapshotFor, Actor

\* No snapshot is under way for a session that begins.
LEMMA FreshActor ==
  ASSUME CollabTypeOK, PastInv, NEW g \in Guests, Join(g)
  PROVE  \E a : /\ a = Actor(g)'
                /\ ~HoldsSnapshot(toRelay[Owner], a) /\ ~HoldsSnapshot(toClient[g], a)
                /\ ~IsForwarding(a)
<1>1. PICK a : a = <<g, visit[g] + 1>>
  OBVIOUS
<1>2. Actor(g)' = a /\ visit[g] \in Nat
  BY <1>1, CollabAssumption DEF Join, CollabTypeOK, Actor
<1>3. ASSUME NEW m, IsOfPast(m, visit) PROVE ~IsSnapshot(m, a)
  BY <1>1, <1>2, <1>3 DEF IsOfPast, IsSnapshot
<1>4. ~HoldsSnapshot(toRelay[Owner], a) /\ ~HoldsSnapshot(toClient[g], a)
  BY <1>3, UserFacts DEF HoldsSnapshot, PastInv
<1>5. ~IsForwarding(a)
  BY <1>3, UserFacts DEF IsForwarding, PastInv
<1> QED BY <1>2, <1>4, <1>5

LEMMA OneSnapshotStep ==
  ASSUME CollabTypeOK, HandshakeInv, PastInv, OneSnapshotInv, CollabNext, NEW h \in Guests
  PROVE  OneSnapshotFor(h)'
<1> USE UserFacts
<1>a. OneSnapshotFor(h)
  BY DEF OneSnapshotInv, OneSnapshotFor
<1>b. h \in Users /\ toClient[h] \in Seq(Messages)
  BY TaskFacts
<1>c. ASSUME relaying' = relaying PROVE \A a : IsForwarding(a)' => IsForwarding(a)
  BY <1>c DEF IsForwarding, IsIdle
<1>1. ASSUME NEW u \in Users, Edit(u) PROVE OneSnapshotFor(h)'
  BY <1>1, <1>a, <1>c, OneSnapshotKept DEF Edit, relayVars, Actor
<1>2. ASSUME NEW u \in Users, ReceiveAction(u) PROVE OneSnapshotFor(h)'
  <2>0. /\ visit' = visit /\ phase' = phase /\ awaited' = awaited /\ Actor(h)' = Actor(h)
        /\ IsForwarding(Actor(h))' => IsForwarding(Actor(h))
    BY <1>2, <1>c DEF ReceiveAction, relayVars, Actor
  <2>1. toClient'[h] = IF h = u THEN Tail(toClient[h]) ELSE toClient[h]
    BY <1>2, <1>b, TakenOne DEF ReceiveAction
  <2>2. CASE h # u
    BY <2>0, <2>1, <2>2, <1>a, OneSnapshotKept
  <2>3. CASE h = u
    <3>1. toClient[h] # << >>
      BY <1>2, <2>3 DEF ReceiveAction, HasMessage
    <3>2. /\ HoldsSnapshot(Tail(toClient[h]), Actor(h)) => HoldsSnapshot(toClient[h], Actor(h))
          /\ HoldsOneSnapshot(Tail(toClient[h]), Actor(h))
      BY <3>1, <1>a, <1>b, HoldsTaken, OneTaken DEF OneSnapshotFor
    <3> QED BY <2>0, <2>1, <2>3, <3>2, <1>a DEF OneSnapshotFor
  <2> QED BY <2>2, <2>3
<1>3. CASE AnswerRequest
  <2>1. toClient'[h] = toClient[h]
    BY <1>3, <1>b, TakenOne DEF AnswerRequest
  <2> QED BY <1>3, <2>1, <1>a, <1>c, OneSnapshotKept DEF AnswerRequest, relayVars, Actor
<1>4. ASSUME NEW g \in Guests, ReceiveSnapshot(g) PROVE OneSnapshotFor(h)'
  <2>0. /\ visit' = visit /\ awaited' = awaited /\ Actor(h)' = Actor(h)
        /\ phase'[h] = IF h = g THEN "ready" ELSE phase[h]
        /\ IsForwarding(Actor(h))' => IsForwarding(Actor(h))
    BY <1>4, <1>c DEF ReceiveSnapshot, relayVars, Actor, CollabTypeOK
  <2>1. toClient'[h] = IF h = g THEN Tail(toClient[h]) ELSE toClient[h]
    BY <1>4, <1>b, TakenOne DEF ReceiveSnapshot
  <2>2. CASE h # g
    BY <2>0, <2>1, <2>2, <1>a, OneSnapshotKept
  <2>3. CASE h = g
    <3>1. toClient[h] # << >> /\ ~IsForwarding(Actor(h)) /\ ~HoldsSnapshot(Tail(toClient[h]), Actor(h))
      BY <1>4, <2>3, SnapshotTaken
    <3>2. HoldsOneSnapshot(Tail(toClient[h]), Actor(h))
      BY <3>1, <1>a, <1>b, OneTaken DEF OneSnapshotFor
    <3> QED BY <2>0, <2>1, <2>3, <3>1, <3>2 DEF OneSnapshotFor
  <2> QED BY <2>2, <2>3
<1>5. ASSUME NEW g \in Guests, LoseConnection(g) PROVE OneSnapshotFor(h)'
  <2>0. visit' = visit /\ awaited' = awaited \ {g} /\ Actor(h)' = Actor(h)
    BY <1>5 DEF LoseConnection, Actor
  <2>1. \/ /\ relaying'[Owner].recipients = relaying[Owner].recipients \ {g}
           /\ ~IsIdle(Owner)' => relaying'[Owner].message = relaying[Owner].message /\ ~IsIdle(Owner)
        \/ relaying'[Owner].message.type = "error"
    BY <1>5, LossTasks
  <2>2. IsForwarding(Actor(h))' =>
          IsForwarding(Actor(h)) /\ relaying'[Owner].recipients = relaying[Owner].recipients \ {g}
    BY <2>0, <2>1 DEF IsForwarding, IsSnapshot
  <2>3. CASE h # g
    <3>1. phase'[h] = phase[h] /\ toClient'[h] = toClient[h]
      BY <1>5, <1>b, <2>3 DEF LoseConnection, CollabTypeOK
    <3> QED BY <2>0, <2>2, <3>1, <1>a, OneSnapshotKept
  <2>4. CASE h = g
    <3>1. toClient'[h] = << >>
      BY <1>5, <1>b, <2>4 DEF LoseConnection, CollabTypeOK
    <3>2. IsForwarding(Actor(h)) => relaying[Owner].recipients = {h}
      BY DEF IsForwarding, IsSnapshot, Actor, HandshakeInv
    <3>3. ~IsForwarding(Actor(h))'
      BY <2>2, <2>4, <3>2 DEF IsForwarding, IsIdle
    <3>4. ~HoldsSnapshot(<< >>, Actor(h)) /\ HoldsOneSnapshot(<< >>, Actor(h))
      BY HoldsNothing DEF HoldsOneSnapshot
    <3> QED BY <2>0, <3>1, <3>3, <3>4 DEF OneSnapshotFor
  <2> QED BY <2>3, <2>4
<1>6. ASSUME NEW g \in Guests, Join(g) PROVE OneSnapshotFor(h)'
  <2>0. relaying' = relaying /\ toClient' = toClient
    BY <1>6 DEF Join
  <2>1. CASE h # g
    <3>1. visit'[h] = visit[h] /\ phase'[h] = phase[h] /\ (h \in awaited' => h \in awaited)
      BY <1>6, <2>1 DEF Join, CollabTypeOK
    <3>2. IsForwarding(Actor(h))' => IsForwarding(Actor(h))
      BY <2>0, <3>1 DEF Actor, IsForwarding, IsIdle
    <3> QED BY <2>0, <3>1, <3>2, <1>a, OneSnapshotKept
  <2>2. CASE h = g
    <3>1. PICK a : /\ a = Actor(h)'
                   /\ ~HoldsSnapshot(toClient[h], a) /\ ~IsForwarding(a)
      BY <1>6, <2>2, FreshActor
    <3>2. HoldsOneSnapshot(toClient[h], a)
      BY <3>1 DEF HoldsOneSnapshot, HoldsSnapshot, ToSet
    <3>3. ~IsForwarding(a)'
      BY <2>0, <3>1 DEF IsForwarding, IsIdle
    <3> QED BY <2>0, <3>1, <3>2, <3>3 DEF OneSnapshotFor
  <2> QED BY <2>1, <2>2
<1>7. ASSUME NEW g \in Guests, AskOwner(g) PROVE OneSnapshotFor(h)'
  <2>1. toClient'[h] = toClient[h]
    BY <1>7, <1>b DEF AskOwner, Posted, CollabTypeOK
  <2> QED BY <1>7, <2>1, <1>a, <1>c, OneSnapshotKept DEF AskOwner, Actor
<1>8. ASSUME NEW u \in Users, RelayAction(u) PROVE OneSnapshotFor(h)'
  <2>1. Head(toRelay[u]).type = "board.action"
    BY <1>8 DEF RelayAction, Reads
  <2>2. /\ \A v \in Users : v # u => relaying'[v] = relaying[v]
        /\ relaying'[u].message = Head(toRelay[u]) \/ relaying'[u].message.type = "error"
    BY <1>8, RefusalFacts DEF RelayAction, CollabTypeOK
  <2>3. IsForwarding(Actor(h))' => IsForwarding(Actor(h))
    BY <1>8, <2>1, <2>2 DEF RelayAction, IsForwarding, IsSnapshot, IsIdle, Actor
  <2> QED BY <1>8, <2>3, <1>a, OneSnapshotKept DEF RelayAction
<1>9. CASE RelaySnapshot
  <2> DEFINE target == Head(toRelay[Owner]).target
  <2>0. visit' = visit /\ phase' = phase /\ toClient' = toClient /\ Actor(h)' = Actor(h) /\ awaited' \subseteq awaited
    BY <1>9 DEF RelaySnapshot, Actor
  <2>1. CASE relaying'[Owner].message.type = "error"
    <3>1. ~IsForwarding(Actor(h))'
      BY <2>1 DEF IsForwarding, IsSnapshot
    <3> QED BY <2>0, <3>1, <1>a, OneSnapshotKept
  <2>2. CASE /\ target[1] \in awaited /\ target = Actor(target[1])
             /\ awaited' = awaited \ {target[1]}
             /\ relaying'[Owner].message = Head(toRelay[Owner])
    <3>1. CASE Actor(h) # target
      <4>1. ~IsForwarding(Actor(h))'
        BY <2>0, <2>2, <3>1 DEF IsForwarding, IsSnapshot
      <4> QED BY <2>0, <4>1, <1>a, OneSnapshotKept
    <3>2. CASE Actor(h) = target
      <4>1. h \in awaited /\ h \notin awaited'
        BY <2>2, <3>2 DEF Actor
      <4>2. phase[h] = "awaiting_snapshot" /\ ~HoldsSnapshot(toClient[h], Actor(h))
        BY <4>1, <1>a DEF HandshakeInv, OneSnapshotFor
      <4> QED BY <2>0, <4>1, <4>2, <1>a DEF OneSnapshotFor
    <3> QED BY <3>1, <3>2
  <2>3. \/ relaying'[Owner].message.type = "error"
        \/ /\ target[1] \in awaited /\ target = Actor(target[1])
           /\ awaited' = awaited \ {target[1]}
           /\ relaying'[Owner].message = Head(toRelay[Owner])
    BY <1>9, RefusalFacts DEF RelaySnapshot, CollabTypeOK
  <2> QED BY <2>1, <2>2, <2>3
<1>10. ASSUME NEW u \in Users, NEW v \in Users, WriteTo(u, v) PROVE OneSnapshotFor(h)'
  <2> DEFINE m == relaying[u].message
  <2>0. visit' = visit /\ phase' = phase /\ awaited' = awaited /\ Actor(h)' = Actor(h)
    BY <1>10 DEF WriteTo, Actor
  <2>1. m \in Messages /\ ~IsIdle(u) /\ toClient'[h] = IF h = v THEN Append(toClient[h], m) ELSE toClient[h]
    BY <1>10, <1>b, WriteTasks, SentOne
  <2>2. IsForwarding(Actor(h))' => IsForwarding(Actor(h))
    BY <1>10, <2>0, WriteTasks DEF IsForwarding, IsIdle
  <2>3. CASE h # v
    BY <2>0, <2>1, <2>2, <2>3, <1>a, OneSnapshotKept
  <2>4. CASE h = v /\ ~IsSnapshot(m, Actor(h))
    <3>1. HoldsOneSnapshot(Append(toClient[h], m), Actor(h))
      BY <2>1, <2>4, <1>a, <1>b, OneAppended DEF OneSnapshotFor
    <3>2. HoldsSnapshot(Append(toClient[h], m), Actor(h)) <=> HoldsSnapshot(toClient[h], Actor(h))
      BY <2>1, <2>4, <1>b, HoldsAppended
    <3> QED BY <2>0, <2>1, <2>2, <2>4, <3>1, <3>2, <1>a DEF OneSnapshotFor
  <2>5. CASE h = v /\ IsSnapshot(m, Actor(h))
    <3>1. u = Owner /\ IsForwarding(Actor(h)) /\ relaying[Owner].recipients = {h}
      BY <2>1, <2>5 DEF HandshakeInv, IsForwarding, IsSnapshot, Actor
    <3>2. relaying'[Owner].recipients = {}
      BY <1>10, <3>1, <2>5, WriteTasks
    <3>3. ~IsForwarding(Actor(h))'
      BY <3>2 DEF IsForwarding, IsIdle
    <3>4. HoldsOneSnapshot(Append(toClient[h], m), Actor(h))
      BY <2>1, <3>1, <1>a, <1>b, OneAppended DEF OneSnapshotFor
    <3> QED BY <2>0, <2>1, <2>5, <3>1, <3>3, <3>4, <1>a DEF OneSnapshotFor
  <2> QED BY <2>3, <2>4, <2>5
<1>11. ASSUME NEW u \in Users, RefuseOther(u) \/ ReceiveError(u) PROVE OneSnapshotFor(h)'
  <2>0. /\ visit' = visit /\ awaited' = awaited /\ Actor(h)' = Actor(h)
        /\ phase'[h] = IF h = u THEN "error" ELSE phase[h]
        /\ IsForwarding(Actor(h))' => IsForwarding(Actor(h))
    BY <1>11, <1>c DEF RefuseOther, ReceiveError, relayVars, Actor, CollabTypeOK
  <2>1. \/ toClient'[h] = toClient[h]
        \/ h = u /\ toClient[h] # << >> /\ toClient'[h] = Tail(toClient[h])
    BY <1>11, <1>b, TakenOne DEF RefuseOther, ReceiveError, HasMessage
  <2>2. CASE h # u
    BY <2>0, <2>1, <2>2, <1>a, OneSnapshotKept
  <2>3. CASE h = u
    <3>1. h \in Opened
      BY <1>11, <2>3, ErrorTaken DEF RefuseOther, Ready, Opened
    <3>2. ~IsForwarding(Actor(h)) /\ ~HoldsSnapshot(toClient[h], Actor(h))
      BY <3>1, <1>a DEF OneSnapshotFor, Opened
    <3>3. ~HoldsSnapshot(toClient'[h], Actor(h)) /\ HoldsOneSnapshot(toClient'[h], Actor(h))
      BY <2>1, <3>2, <1>a, <1>b, HoldsTaken, OneTaken DEF OneSnapshotFor
    <3> QED BY <2>0, <3>2, <3>3 DEF OneSnapshotFor
  <2> QED BY <2>2, <2>3
<1>12. CASE Expire
  BY <1>12, <1>a, <1>c, OneSnapshotKept DEF Expire, Actor
<1> QED BY <1>1, <1>2, <1>3, <1>4, <1>5, <1>6, <1>7, <1>8, <1>9, <1>10, <1>11, <1>12
    DEF CollabNext

(***************************************************************************)
(* The owner's board.                                                      *)
(***************************************************************************)

\* Only who has the board open has sent actions, and has the edits itself.
LEMMA AuthorsHave ==
  ASSUME HandshakeInv, OwnerInv, NEW u \in Users, NEW e \in Edits, Holds(toRelay[u], e)
  PROVE  u \in Opened /\ e \in onBoard[u]
<1>1. u = Owner \/ toRelay[u] # << >>
  BY HoldsNothing
<1>2. u \in Opened
  BY <1>1, UserFacts DEF HandshakeInv
<1> QED BY <1>2 DEF OwnerInv

\* What reaches the owner still does.
LEMMA ReachKept ==
  ASSUME CollabTypeOK, CollabNext, NEW e, ReachesOwner(e)
  PROVE  ReachesOwner(e)'
<1> USE UserFacts
<1>1. CASE e \in onBoard[Owner]
  BY <1>1, BoardFate DEF ReachesOwner
<1>2. CASE IsRelayedTo(e, Owner)
  BY <1>2, RelayedFate DEF ReachesOwner
<1>3. CASE Holds(toClient[Owner], e)
  BY <1>3, InboxFate DEF ReachesOwner
<1> QED BY <1>1, <1>2, <1>3 DEF ReachesOwner

\* An unread edit stays unread, reaches the owner, is refused, or is lost.
LEMMA UnreadReaches ==
  ASSUME CollabTypeOK, HandshakeInv, OwnerInv, CollabNext,
         NEW u \in Users, NEW e \in Edits, Holds(toRelay[u], e)
  PROVE  \/ Holds(toRelay'[u], e)
         \/ ReachesOwner(e)'
         \/ IsRefusing(u)' /\ \A v \in Users : e \notin due'[v]
         \/ u \in Guests /\ LoseConnection(u)
<1> USE UserFacts
<1>1. CASE u = Owner
  BY <1>1, AuthorsHave, ReachKept DEF ReachesOwner
<1>2. CASE /\ u # Owner
           /\ IsAction(relaying'[u].message, e) /\ relaying'[u].recipients = Recipients(u)
  <2>1. Owner \in relaying'[u].recipients
    BY <1>2 DEF Recipients
  <2> QED BY <1>2, <2>1 DEF ReachesOwner, IsRelayedTo
<1> QED BY <1>1, <1>2, UnreadFate

LEMMA OwnerStep ==
  ASSUME CollabTypeOK, CollabTypeOK', HandshakeInv, OneSnapshotInv, OwnerInv, CollabNext
  PROVE  OwnerInv'
<1> USE UserFacts
<1>1. ASSUME NEW u \in Users, u \in Ready', NEW e \in onBoard'[u]
      PROVE  ReachesOwner(e)' \/ Holds(toRelay'[u], e) \/ IsRefused(u)'
  <2>0. e \in Edits
    BY <1>1 DEF CollabTypeOK
  <2>1. CASE e \in onBoard[u] /\ ~(u \in Guests /\ ReceiveSnapshot(u))
    <3>1. u \in Ready
      BY <1>1, <2>1, OpenedFate
    <3>2. ReachesOwner(e) \/ Holds(toRelay[u], e) \/ IsRefused(u)
      BY <2>1, <3>1 DEF OwnerInv
    <3>3. ~(u \in Guests /\ LoseConnection(u)) /\ ~ReceiveError(u)
      BY <1>1, OpenedFate
    <3>4. CASE Holds(toRelay[u], e)
      BY <2>0, <3>3, <3>4, UnreadReaches DEF IsRefused
    <3> QED BY <3>2, <3>3, <3>4, ReachKept, RefusedFate
  <2>2. CASE Holds(toClient[u], e)
    BY <2>0, <2>2, ReachKept DEF OwnerInv
  <2>3. CASE u \in Guests /\ ReceiveSnapshot(u) /\ e \in Head(toClient[u]).board
    <3>1. Head(toClient[u]) \in ToSet(toClient[u]) /\ Head(toClient[u]).type = "board.snapshot"
      BY <2>3, SnapshotTaken DEF IsSnapshot
    <3>2. e \in onBoard[Owner]
      BY <2>3, <3>1 DEF OwnerInv, IsPartOf
    <3> QED BY <3>2, ReachKept DEF ReachesOwner
  <2>4. CASE Edit(u) /\ (u \in Ready => Holds(toRelay'[u], e))
    <3>1. ~(u \in Guests /\ ReceiveSnapshot(u))
      BY <2>4, SnapshotTaken DEF Edit, Opened
    <3> QED BY <1>1, <2>4, <3>1, OpenedFate
  <2> QED BY <2>1, <2>2, <2>3, <2>4, BoardFate
<1>2. ASSUME NEW u \in Users, NEW e \in Edits, Holds(toRelay'[u], e)
      PROVE  e \in onBoard'[u]
  <2>1. PICK m \in ToSet(toRelay'[u]) : IsAction(m, e)
    BY <1>2 DEF Holds
  <2>2. CASE m \in ToSet(toRelay[u])
    <3>1. Holds(toRelay[u], e)
      BY <2>1, <2>2 DEF Holds
    <3>2. u \in Opened /\ e \in onBoard[u]
      BY <3>1, AuthorsHave
    <3>3. ~(u \in Guests /\ ReceiveSnapshot(u))
      BY <3>2, SnapshotTaken DEF Opened
    <3> QED BY <3>2, <3>3, BoardFate
  <2>3. CASE Edit(u) /\ m.type = "board.action" /\ m.edit = <<u, edited[u] + 1>>
    <3>1. e = <<u, edited[u] + 1>>
      BY <2>1, <2>3 DEF IsAction
    <3> QED BY <2>3, <3>1 DEF Edit, CollabTypeOK
  <2>4. CASE m.type = "board.snapshot"
    BY <2>1, <2>4 DEF IsAction
  <2> QED BY <2>2, <2>3, <2>4, UnreadOrigin
<1>3. ASSUME NEW u \in Users, NEW e \in Edits, Holds(toClient'[u], e)
      PROVE  ReachesOwner(e)'
  <2>1. PICK m \in ToSet(toClient'[u]) : IsAction(m, e)
    BY <1>3 DEF Holds
  <2>2. CASE m \in ToSet(toClient[u])
    BY <2>1, <2>2, ReachKept DEF Holds, OwnerInv
  <2>3. CASE m.type = "board.snapshot.request"
    BY <2>1, <2>3 DEF IsAction
  <2>4. ASSUME NEW w \in Users, ~IsIdle(w), m = relaying[w].message PROVE ReachesOwner(e)'
    BY <2>1, <2>4, ReachKept DEF OwnerInv
  <2> QED BY <2>2, <2>3, <2>4, InboxOrigin
<1>4. ASSUME NEW u \in Users, NEW e \in Edits, ~IsIdle(u)', IsAction(relaying'[u].message, e)
      PROVE  ReachesOwner(e)'
  <2>1. CASE ~IsIdle(u) /\ relaying'[u].message = relaying[u].message
    BY <1>4, <2>1, ReachKept DEF OwnerInv
  <2>2. CASE /\ relaying'[u].message \in ToSet(toRelay[u])
             /\ relaying'[u].recipients = Recipients(u)
    <3>1. Holds(toRelay[u], e)
      BY <1>4, <2>2 DEF Holds
    <3>2. CASE u = Owner
      BY <3>1, <3>2, AuthorsHave, ReachKept DEF ReachesOwner
    <3>3. CASE u # Owner
      <4>1. Owner \in relaying'[u].recipients
        BY <2>2, <3>3 DEF Recipients
      <4> QED BY <1>4, <4>1 DEF ReachesOwner, IsRelayedTo
    <3> QED BY <3>2, <3>3
  <2>3. CASE relaying'[u].message.type \in {"board.snapshot", "error"}
    BY <1>4, <2>3 DEF IsAction
  <2> QED BY <1>4, <2>1, <2>2, <2>3, TaskOrigin
<1>5. onBoard[Owner] \subseteq onBoard'[Owner]
  BY BoardFate
<1>6. ASSUME NEW m, IsPartOf(m, onBoard[Owner]) PROVE IsPartOf(m, onBoard'[Owner])
  BY <1>5, <1>6 DEF IsPartOf
<1>7. ASSUME NEW u \in Users
      PROVE  /\ \A m \in ToSet(toRelay'[u]) : IsPartOf(m, onBoard'[Owner])
             /\ \A m \in ToSet(toClient'[u]) : IsPartOf(m, onBoard'[Owner])
             /\ ~IsIdle(u)' => IsPartOf(relaying'[u].message, onBoard'[Owner])
  <2>1. ASSUME NEW m \in ToSet(toRelay'[u]) PROVE IsPartOf(m, onBoard'[Owner])
    <3>1. CASE m \in ToSet(toRelay[u])
      BY <3>1, <1>6 DEF OwnerInv
    <3>2. CASE m.type = "board.action"
      BY <3>2 DEF IsPartOf
    <3>3. CASE m.type = "board.snapshot" /\ m.board = onBoard[Owner]
      BY <3>3, <1>5 DEF IsPartOf
    <3> QED BY <3>1, <3>2, <3>3, UnreadOrigin
  <2>2. ASSUME NEW m \in ToSet(toClient'[u]) PROVE IsPartOf(m, onBoard'[Owner])
    <3>1. CASE m \in ToSet(toClient[u])
      BY <3>1, <1>6 DEF OwnerInv
    <3>2. CASE m.type = "board.snapshot.request"
      BY <3>2 DEF IsPartOf
    <3>3. ASSUME NEW w \in Users, ~IsIdle(w), m = relaying[w].message
          PROVE  IsPartOf(m, onBoard'[Owner])
      BY <3>3, <1>6 DEF OwnerInv
    <3> QED BY <3>1, <3>2, <3>3, InboxOrigin
  <2>3. ASSUME ~IsIdle(u)' PROVE IsPartOf(relaying'[u].message, onBoard'[Owner])
    <3>1. \/ ~IsIdle(u) /\ relaying'[u].message = relaying[u].message
          \/ relaying'[u].message \in ToSet(toRelay[u])
          \/ relaying'[u].message.type = "error"
      BY <2>3, TaskOrigin
    <3>2. CASE relaying'[u].message.type = "error"
      BY <3>2 DEF IsPartOf
    <3> QED BY <3>1, <3>2, <1>6 DEF OwnerInv
  <2> QED BY <2>1, <2>2, <2>3
<1>8. \A u \in Ready' : u \in Users
  BY DEF Ready
<1> QED BY <1>1, <1>2, <1>3, <1>4, <1>7, <1>8 DEF OwnerInv

(***************************************************************************)
(* What is due.                                                            *)
(***************************************************************************)

\* What becomes due is an edit just made; what its author loses is no more due
\* to others.
LEMMA DueOrigin ==
  ASSUME CollabTypeOK, CollabNext, NEW u \in Users, NEW e \in due'[u]
  PROVE  /\ \/ e \in due[u]
            \/ \E v \in Users :
                 /\ Edit(v) /\ v \in Ready /\ e = <<v, edited[v] + 1>>
                 /\ Holds(toRelay'[v], e) /\ e \in onBoard'[v]
                 /\ u \in Opened \/ v = Owner
         /\ \A g \in Guests :
              LoseConnection(g) => IF u = g THEN e[1] = Owner ELSE ~Holds(toRelay[g], e)
<1>1. ASSUME NEW v \in Users, Edit(v)
      PROVE  \/ e \in due[u]
             \/ /\ v \in Ready /\ e = <<v, edited[v] + 1>>
                /\ Holds(toRelay'[v], e) /\ e \in onBoard'[v]
                /\ u \in Opened \/ v = Owner
  <2>1. CASE due' = due
    BY <2>1
  <2>2. CASE /\ v \in Ready
             /\ due' = [w \in Users |-> IF w \in Opened \/ v = Owner
                                        THEN due[w] \cup {<<v, edited[v] + 1>>} ELSE due[w]]
    <3>1. Holds(toRelay'[v], <<v, edited[v] + 1>>)
      BY <1>1, <2>2, EditSent
    <3>2. onBoard' = [onBoard EXCEPT ![v] = @ \cup {<<v, edited[v] + 1>>}]
      BY <1>1 DEF Edit
    <3> QED BY <2>2, <3>1, <3>2 DEF CollabTypeOK
  <2> QED BY <1>1, <2>1, <2>2 DEF Edit
<1>2. ASSUME NEW g \in Guests, LoseConnection(g)
      PROVE  /\ e \in due[u]
             /\ IF u = g THEN e[1] = Owner ELSE ~Holds(toRelay[g], e)
  <2>1. due'[u] = IF u = g THEN {x \in due[g] : x[1] = Owner} ELSE due[u] \ UnreadEdits(g)
    BY <1>2 DEF LoseConnection
  <2>2. Holds(toRelay[g], e) => e \in UnreadEdits(g)
    BY DEF Holds, IsAction, ToSet, UnreadEdits
  <2> QED BY <2>1, <2>2
<1>3. ASSUME NEW v \in Users, RelayAction(v) PROVE e \in due[u]
  BY <1>3 DEF RelayAction
<1> QED BY <1>1, <1>2, <1>3, Frames

\* To the owner.
LEMMA DueToOwnerStep ==
  ASSUME CollabTypeOK, CollabTypeOK', HandshakeInv, OwnerInv, DueInv, CollabNext,
         NEW e \in due'[Owner]
  PROVE  ReachesOwner(e)' \/ IsUnread(e)'
<1> USE UserFacts
<1>0. e \in Edits
  BY DEF CollabTypeOK
<1>1. ASSUME NEW v \in Users, Holds(toRelay'[v], e) PROVE IsUnread(e)'
  BY <1>1 DEF IsUnread
<1>2. CASE e \in due[Owner] /\ ReachesOwner(e)
  BY <1>2, ReachKept
<1>3. CASE e \in due[Owner] /\ IsUnread(e)
  <2>1. PICK v \in Users : Holds(toRelay[v], e)
    BY <1>3 DEF IsUnread
  <2>2. v \in Guests => ~LoseConnection(v)
    BY <2>1, DueOrigin
  <2> QED BY <1>0, <1>1, <2>1, <2>2, UnreadReaches
<1> QED BY <1>1, <1>2, <1>3, DueOrigin DEF DueInv

\* To guests, before their snapshot ...
LEMMA DueToOthersStep ==
  ASSUME CollabTypeOK, HandshakeInv, DueInv, CollabNext,
         NEW g \in Guests, g \notin Opened', NEW e \in due'[g]
  PROVE  e[1] = Owner
<1> USE UserFacts
<1>1. CASE LoseConnection(g)
  BY <1>1, DueOrigin
<1>2. CASE ~LoseConnection(g)
  <2>1. g \notin Opened
    BY <1>2, OpenedFate
  <2>2. CASE e \in due[g]
    BY <2>1, <2>2 DEF DueInv
  <2>3. ASSUME NEW v \in Users, e = <<v, edited[v] + 1>>, v = Owner PROVE e[1] = Owner
    BY <2>3
  <2> QED BY <2>1, <2>2, <2>3, DueOrigin
<1> QED BY <1>1, <1>2

\* ... and after it.
LEMMA DueToReadyStep ==
  ASSUME CollabTypeOK, CollabTypeOK', HandshakeInv, OneSnapshotInv, OwnerInv, DueInv, CollabNext,
         NEW g \in Guests, g \in Opened', NEW e \in due'[g]
  PROVE  e \in onBoard'[g] \/ IsUnread(e)' \/ IsRelayedTo(e, g)' \/ Holds(toClient'[g], e)
<1> USE UserFacts
<1>0. e \in Edits
  BY DEF CollabTypeOK
<1>1. ASSUME NEW v \in Users, Holds(toRelay'[v], e) PROVE IsUnread(e)'
  BY <1>1 DEF IsUnread
<1>2. CASE e \in due[g] /\ ReceiveSnapshot(g)
  <2>0. /\ toRelay' = toRelay /\ relaying' = relaying
        /\ toClient'[g] = Tail(toClient[g]) /\ onBoard'[g] = Head(toClient[g]).board
    BY <1>2, TakenOne DEF ReceiveSnapshot, relayVars, BoardFrom, CollabTypeOK
  <2>1. toClient[g] # << >> /\ toClient[g] \in Seq(Messages)
        /\ IsSnapshot(Head(toClient[g]), Actor(g)) /\ phase[g] = "awaiting_snapshot"
    BY <1>2, SnapshotTaken
  <2>2. e[1] = Owner
    BY <1>2, <2>1 DEF DueInv, Opened
  <2>3. CASE Covers(toClient[g], Actor(g), e)
    BY <2>0, <2>1, <2>3, CoversTaken
  <2>4. CASE Holds(toRelay[Owner], e)
    BY <1>1, <2>0, <2>4
  <2>5. CASE IsRelayedTo(e, g)
    BY <2>0, <2>5 DEF IsRelayedTo
  <2> QED BY <1>2, <2>2, <2>3, <2>4, <2>5 DEF DueInv, CoversInbox
<1>3. CASE e \in due[g] /\ ~ReceiveSnapshot(g)
  <2>1. g \in Opened /\ g \in attached /\ ~LoseConnection(g)
    BY <1>3, OpenedFate DEF HandshakeInv, Opened
  <2>2. CASE e \in onBoard[g]
    BY <1>3, <2>2, BoardFate
  <2>3. ASSUME NEW v \in Users, Holds(toRelay[v], e)
        PROVE  e \in onBoard'[g] \/ IsUnread(e)' \/ IsRelayedTo(e, g)'
    <3>1. ~(v \in Guests /\ LoseConnection(v))
      BY <2>1, <2>3, DueOrigin
    <3>2. CASE v = g
      BY <1>0, <1>3, <2>3, <3>2, AuthorsHave, BoardFate
    <3>3. CASE /\ v # g
               /\ IsAction(relaying'[v].message, e) /\ relaying'[v].recipients = Recipients(v)
      <4>1. g \in relaying'[v].recipients
        BY <2>1, <3>3 DEF Recipients
      <4> QED BY <3>3, <4>1 DEF IsRelayedTo
    <3> QED BY <1>1, <2>3, <3>1, <3>2, <3>3, UnreadFate
  <2>4. CASE IsRelayedTo(e, g)
    BY <2>1, <2>4, RelayedFate
  <2>5. CASE Holds(toClient[g], e)
    BY <2>1, <2>5, InboxFate
  <2> QED BY <1>3, <2>1, <2>2, <2>3, <2>4, <2>5 DEF DueInv, IsUnread
<1> QED BY <1>1, <1>2, <1>3, DueOrigin

LEMMA CoversUnreadStep ==
  ASSUME CollabTypeOK, OwnerInv, DueInv, CollabNext,
         NEW g \in Guests, Actor(g)' = Actor(g), NEW e \in due[g], e[1] = Owner
  PROVE  CoversUnread(g, e)'
<1> USE UserFacts
<1> DEFINE a == Actor(g)
<1>0. PICK b : b = a
  OBVIOUS
<1>a. Covers(toRelay[Owner], b, e) /\ e \in onBoard[Owner] /\ toRelay[Owner] \in Seq(Messages)
  BY <1>0, TaskFacts DEF DueInv, CoversUnread, CoversForwarded, CoversInbox
<1>b. SUFFICES Covers(toRelay'[Owner], b, e)
  BY <1>0 DEF CoversUnread
<1>1. ASSUME NEW v \in Users, Edit(v) PROVE Covers(toRelay'[Owner], b, e)
  <2>1. ASSUME NEW n \in Messages, toRelay' = Posted(toRelay, v, n), n.type = "board.action"
        PROVE  Covers(toRelay'[Owner], b, e)
    <3>1. toRelay'[Owner] = IF v = Owner THEN Append(toRelay[Owner], n) ELSE toRelay[Owner]
      BY <2>1 DEF Posted, CollabTypeOK
    <3>2. ~IsSnapshot(n, b)
      BY <2>1 DEF IsSnapshot
    <3> QED BY <1>a, <3>1, <3>2, CoversAppended
  <2> QED BY <1>1, <1>a, <2>1, EditSent
<1>2. CASE AnswerRequest
  <2>1. ASSUME NEW n \in Messages, toRelay' = Posted(toRelay, Owner, n), n.board = onBoard[Owner]
        PROVE  Covers(toRelay'[Owner], b, e)
    <3>1. toRelay'[Owner] = Append(toRelay[Owner], n)
      BY <2>1 DEF Posted, CollabTypeOK
    <3> QED BY <1>a, <2>1, <3>1, CoversAppended
  <2> QED BY <1>2, <1>a, <2>1, AnswerSent
<1>3. ASSUME NEW v \in Users, toRelay[v] # << >>, NextMessage(v) PROVE Covers(toRelay'[Owner], b, e)
  <2>1. toRelay'[Owner] = IF v = Owner THEN Tail(toRelay[Owner]) ELSE toRelay[Owner]
    BY <1>3 DEF NextMessage, CollabTypeOK
  <2> QED BY <1>a, <1>3, <2>1, CoversTaken
<1>4. ASSUME NEW v \in Users, RelayAction(v) PROVE Covers(toRelay'[Owner], b, e)
  BY <1>3, <1>4 DEF RelayAction, Reads
<1>5. CASE RelaySnapshot
  BY <1>3, <1>5 DEF RelaySnapshot, Reads
<1>6. ASSUME NEW h \in Guests, LoseConnection(h) PROVE Covers(toRelay'[Owner], b, e)
  <2>1. toRelay'[Owner] = toRelay[Owner]
    BY <1>6 DEF LoseConnection, CollabTypeOK
  <2> QED BY <1>a, <2>1
<1> QED BY <1>a, <1>1, <1>2, <1>4, <1>5, <1>6, Frames

LEMMA CoversForwardedStep ==
  ASSUME CollabTypeOK, DueInv, CollabNext,
         NEW g \in Guests, Actor(g)' = Actor(g), NEW e \in due[g], e[1] = Owner
  PROVE  CoversForwarded(g, e)'
<1> USE UserFacts
<1>0. PICK b : b = Actor(g)
  OBVIOUS
<1>a. /\ Covers(toRelay[Owner], b, e) /\ toRelay[Owner] \in Seq(Messages)
      /\ IsForwarding(b) => e \in relaying[Owner].message.board \/ Holds(toRelay[Owner], e)
  BY <1>0, TaskFacts DEF DueInv, CoversUnread, CoversForwarded, CoversInbox
<1>b. SUFFICES ASSUME IsForwarding(b)'
               PROVE  e \in relaying'[Owner].message.board \/ Holds(toRelay'[Owner], e)
  BY <1>0 DEF CoversForwarded
<1>c. ASSUME ~IsIdle(Owner), relaying'[Owner].message = relaying[Owner].message
      PROVE  e \in relaying'[Owner].message.board \/ Holds(toRelay'[Owner], e)
  <2>1. IsForwarding(b)
    BY <1>b, <1>c DEF IsForwarding
  <2>2. ASSUME Holds(toRelay[Owner], e), ~Holds(toRelay'[Owner], e) PROVE FALSE
    <3>1. IsAction(relaying'[Owner].message, e) \/ IsRefusing(Owner)'
      BY <2>2, UnreadFate
    <3> QED BY <1>b, <3>1 DEF IsForwarding, IsSnapshot, IsAction, IsRefusing
  <2> QED BY <1>a, <1>c, <2>1, <2>2
<1>1. CASE RelaySnapshot
  <2>1. toRelay[Owner] # << >> /\ toRelay'[Owner] = Tail(toRelay[Owner]) /\ IsIdle(Owner)
    BY <1>1 DEF RelaySnapshot, Reads, NextMessage, CollabTypeOK
  <2>2. relaying'[Owner].message.type = "error" \/ relaying'[Owner].message = Head(toRelay[Owner])
    BY <1>1, RefusalFacts DEF RelaySnapshot, CollabTypeOK
  <2>3. relaying'[Owner].message = Head(toRelay[Owner]) /\ IsSnapshot(Head(toRelay[Owner]), b)
    BY <1>b, <2>2 DEF IsForwarding, IsSnapshot
  <2> QED BY <1>a, <2>1, <2>3, CoversTaken
<1>2. ASSUME NEW v \in Users, RelayAction(v)
      PROVE  e \in relaying'[Owner].message.board \/ Holds(toRelay'[Owner], e)
  <2>1. CASE v = Owner
    <3>1. relaying'[Owner].message.type \in {"board.action", "error"}
      BY <1>2, <2>1, RefusalFacts DEF RelayAction, Reads, CollabTypeOK
    <3> QED BY <1>b, <3>1 DEF IsForwarding, IsSnapshot
  <2>2. CASE v # Owner
    <3>1. relaying'[Owner] = relaying[Owner]
      BY <1>2, <2>2 DEF RelayAction, CollabTypeOK
    <3> QED BY <1>b, <1>c, <3>1 DEF IsForwarding, IsIdle
  <2> QED BY <2>1, <2>2
<1>3. ASSUME NEW w \in Users, NEW x \in Users, WriteTo(w, x)
      PROVE  ~IsIdle(Owner) /\ relaying'[Owner].message = relaying[Owner].message
  BY <1>b, <1>3, WriteTasks DEF IsForwarding, IsIdle
<1>4. ASSUME NEW h \in Guests, LoseConnection(h)
      PROVE  ~IsIdle(Owner) /\ relaying'[Owner].message = relaying[Owner].message
  BY <1>b, <1>4, LossTasks DEF IsForwarding, IsSnapshot
<1>5. CASE relaying' = relaying
  BY <1>b, <1>c, <1>5 DEF IsForwarding, IsIdle
<1> QED BY <1>c, <1>1, <1>2, <1>3, <1>4, <1>5, Frames

LEMMA CoversInboxStep ==
  ASSUME CollabTypeOK, HandshakeInv, PastInv, OneSnapshotInv, DueInv, CollabNext,
         NEW g \in Guests, ~Join(g), Actor(g)' = Actor(g),
         NEW e \in due[g], e \in due'[g], e[1] = Owner
  PROVE  CoversInbox(g, e)'
<1> USE UserFacts
<1>0. PICK b : b = Actor(g)
  OBVIOUS
<1>a. g \in Users /\ toClient[g] \in Seq(Messages)
  BY TaskFacts
<1>b. SUFFICES Covers(toClient'[g], b, e) \/ Holds(toRelay'[Owner], e) \/ IsRelayedTo(e, g)'
  BY <1>0 DEF CoversInbox
<1>c. CASE LoseConnection(g)
  <2>1. toClient'[g] = << >>
    BY <1>c DEF LoseConnection, CollabTypeOK
  <2> QED BY <2>1, HoldsNothing, CoversNothing
<1>1. CASE Holds(toRelay[Owner], e)
  <2>1. CASE /\ IsAction(relaying'[Owner].message, e) /\ relaying'[Owner].recipients = Recipients(Owner)
    <3>1. CASE g \in attached
      <4>1. g \in relaying'[Owner].recipients
        BY <2>1, <3>1 DEF Recipients
      <4> QED BY <2>1, <4>1 DEF IsRelayedTo
    <3>2. CASE g \notin attached
      <4>1. phase[g] = "away"
        BY <3>2 DEF HandshakeInv
      <4>2. phase'[g] # "awaiting_snapshot"
        <5>1. ASSUME NEW h \in Guests, Join(h) PROVE phase'[g] = phase[g]
          BY <5>1 DEF Join, CollabTypeOK
        <5>2. ASSUME NEW h \in Guests, ReceiveSnapshot(h) \/ LoseConnection(h)
              PROVE  phase'[g] \in {phase[g], "ready", "away"}
          BY <5>2 DEF ReceiveSnapshot, LoseConnection, CollabTypeOK
        <5>3. ASSUME NEW u \in Users, ReceiveError(u) \/ RefuseOther(u)
              PROVE  phase'[g] \in {phase[g], "error"}
          BY <5>3 DEF ReceiveError, RefuseOther, CollabTypeOK
        <5> QED BY <4>1, <5>1, <5>2, <5>3, Frames
      <4>3. ~HoldsSnapshot(toClient'[g], b)
        BY <1>0, <4>2, OneSnapshotStep DEF OneSnapshotFor
      <4> QED BY <4>3, CoversNothing
    <3> QED BY <3>1, <3>2
  <2> QED BY <1>1, <2>1, UnreadFate
<1>2. CASE IsRelayedTo(e, g)
  BY <1>2, <1>a, <1>c, RelayedFate
<1>3. CASE Covers(toClient[g], b, e) /\ ~Holds(toRelay[Owner], e)
  <2>1. ASSUME NEW w \in Users, NEW x \in Users, WriteTo(w, x) PROVE Covers(toClient'[g], b, e)
    <3> DEFINE m == relaying[w].message
    <3>1. m \in Messages /\ ~IsIdle(w) /\ toClient'[g] = IF g = x THEN Append(toClient[g], m) ELSE toClient[g]
      BY <2>1, <1>a, WriteTasks, SentOne
    <3>2. ASSUME IsSnapshot(m, b) PROVE e \in m.board
      <4>1. w = Owner
        BY <3>1, <3>2 DEF HandshakeInv, IsSnapshot
      <4>2. IsForwarding(b)
        BY <3>1, <3>2, <4>1 DEF IsForwarding
      <4> QED BY <1>0, <1>3, <4>1, <4>2 DEF DueInv, CoversUnread, CoversForwarded, CoversInbox
    <3> HIDE DEF m
    <3> QED BY <1>a, <1>3, <3>1, <3>2, CoversAppended
  <2>2. ASSUME NEW v \in Users, toClient[v] # << >>, TakeMessage(v) PROVE Covers(toClient'[g], b, e)
    BY <1>a, <1>3, <2>2, TakenOne, CoversTaken
  <2>3. ASSUME NEW v \in Users, ReceiveAction(v) \/ ReceiveError(v)
        PROVE  Covers(toClient'[g], b, e)
    BY <2>2, <2>3 DEF ReceiveAction, ReceiveError, HasMessage
  <2>4. CASE AnswerRequest
    BY <2>2, <2>4 DEF AnswerRequest, HasMessage
  <2>5. ASSUME NEW h \in Guests, ReceiveSnapshot(h) PROVE Covers(toClient'[g], b, e)
    BY <2>2, <2>5 DEF ReceiveSnapshot, HasMessage
  <2>6. ASSUME NEW h \in Guests, AskOwner(h) PROVE Covers(toClient'[g], b, e)
    <3>1. toClient'[g] = toClient[g]
      BY <2>6 DEF AskOwner, Posted, CollabTypeOK
    <3> QED BY <1>3, <3>1
  <2>7. ASSUME NEW h \in Guests, h # g, LoseConnection(h) PROVE Covers(toClient'[g], b, e)
    <3>1. toClient'[g] = toClient[g]
      BY <2>7, <1>a DEF LoseConnection, CollabTypeOK
    <3> QED BY <1>3, <3>1
  <2> QED BY <1>c, <1>3, <2>1, <2>3, <2>4, <2>5, <2>6, <2>7, Frames
<1> QED BY <1>0, <1>1, <1>2, <1>3 DEF DueInv, CoversUnread, CoversForwarded, CoversInbox

\* An edit of the owner that is due to a guest, after a step.
LEMMA DueOfOwnerStep ==
  ASSUME CollabTypeOK, HandshakeInv, PastInv, OneSnapshotInv, OwnerInv, DueInv, CollabNext,
         NEW g \in Guests, NEW e \in due'[g], e[1] = Owner
  PROVE  /\ e \in onBoard'[Owner]
         /\ CoversUnread(g, e)' /\ CoversForwarded(g, e)' /\ CoversInbox(g, e)'
<1> USE UserFacts
<1>1. CASE e \in due[g]
  <2>1. e \in onBoard'[Owner]
    BY <1>1, BoardFate DEF DueInv, CoversUnread, CoversForwarded, CoversInbox
  <2>2. CASE Join(g)
    <3>1. toRelay' = toRelay /\ toClient' = toClient /\ relaying' = relaying
      BY <2>2 DEF Join
    <3>2. PICK a : /\ a = Actor(g)'
                   /\ ~HoldsSnapshot(toRelay[Owner], a) /\ ~HoldsSnapshot(toClient[g], a)
                   /\ ~IsForwarding(a)
      BY <2>2, FreshActor
    <3>3. Covers(toRelay'[Owner], a, e) /\ Covers(toClient'[g], a, e)
      BY <3>1, <3>2, CoversNothing
    <3>4. ~IsForwarding(a)'
      BY <3>1, <3>2 DEF IsForwarding, IsIdle
    <3> QED BY <2>1, <3>2, <3>3, <3>4 DEF CoversUnread, CoversForwarded, CoversInbox
  <2>3. CASE ~Join(g)
    <3>1. Actor(g)' = Actor(g)
      <4>1. ASSUME NEW h \in Guests, Join(h) PROVE visit'[g] = visit[g]
        BY <2>3, <4>1 DEF Join, CollabTypeOK
      <4> QED BY <4>1, Frames DEF Actor
    <3> QED BY <1>1, <2>1, <2>3, <3>1, CoversUnreadStep, CoversForwardedStep, CoversInboxStep
  <2> QED BY <2>2, <2>3
<1>2. ASSUME NEW v \in Users, Edit(v), v \in Ready, e = <<v, edited[v] + 1>>,
             e \in onBoard'[v], Holds(toRelay'[v], e)
      PROVE  /\ e \in onBoard'[Owner]
             /\ CoversUnread(g, e)' /\ CoversForwarded(g, e)' /\ CoversInbox(g, e)'
  <2>1. v = Owner
    BY <1>2
  <2>2. PICK n \in Messages : toRelay' = Posted(toRelay, v, n) /\ IsAction(n, e)
    BY <1>2, EditSent DEF IsAction
  <2>3. toRelay'[Owner] = Append(toRelay[Owner], n)
    BY <2>1, <2>2 DEF Posted, CollabTypeOK
  <2>4. \A a : Covers(toRelay'[Owner], a, e)
    BY <2>2, <2>3, TaskFacts, CoversBehind
  <2> QED BY <1>2, <2>1, <2>4 DEF CoversUnread, CoversForwarded, CoversInbox
<1> QED BY <1>1, <1>2, DueOrigin

LEMMA DueStep ==
  ASSUME CollabTypeOK, CollabTypeOK', HandshakeInv, PastInv, OneSnapshotInv, OwnerInv, DueInv,
         CollabNext
  PROVE  DueInv'
<1>1. (\A e \in due[Owner] : ReachesOwner(e) \/ IsUnread(e))'
  BY DueToOwnerStep
<1>2. (\A g \in Guests : g \notin Opened => \A e \in due[g] : e[1] = Owner)'
  BY DueToOthersStep
<1>3. (\A g \in Guests : g \in Opened => \A e \in due[g] :
         e \in onBoard[g] \/ IsUnread(e) \/ IsRelayedTo(e, g) \/ Holds(toClient[g], e))'
  BY DueToReadyStep
<1>4. ASSUME NEW g \in Guests, NEW e \in due'[g], e[1] = Owner
      PROVE  /\ e \in onBoard'[Owner]
             /\ CoversUnread(g, e)' /\ CoversForwarded(g, e)' /\ CoversInbox(g, e)'
  BY <1>4, DueOfOwnerStep
<1> QED BY <1>1, <1>2, <1>3, <1>4 DEF DueInv

(***************************************************************************)
(* The theorems.                                                           *)
(***************************************************************************)

LEMMA InitInv == CollabInit => CollabInv
<1> SUFFICES ASSUME CollabInit PROVE CollabInv
  OBVIOUS
<1> USE UserFacts
<1>0. << >> \in Seq(Messages)
  OBVIOUS
<1>a. /\ \A u \in Users : IsIdle(u) /\ toRelay[u] = << >> /\ toClient[u] = << >>
      /\ \A u \in Users : onBoard[u] = {} /\ due[u] = {}
  BY DEF CollabInit, Idle, IsIdle
<1>b. \A u \in Users : ToSet(toRelay[u]) = {} /\ ToSet(toClient[u]) = {}
  BY <1>a, EmptyContent
<1>1. CollabTypeOK
  <2>1. phase \in [Users -> {"away", "awaiting_snapshot", "ready", "error"}]
    BY DEF CollabInit
  <2>2. toRelay \in [Users -> Seq(Messages)] /\ toClient \in [Users -> Seq(Messages)]
    BY <1>0 DEF CollabInit
  <2>3. relaying \in [Users -> Tasks]
    BY DEF CollabInit, Tasks
  <2>4. visit \in [Guests -> 0 .. MaxVisits] /\ edited \in [Users -> 0 .. MaxEdits]
    BY CollabAssumption DEF CollabInit
  <2>5. onBoard \in [Users -> SUBSET Edits] /\ due \in [Users -> SUBSET Edits]
    BY DEF CollabInit
  <2>6. expired \in BOOLEAN /\ attached \subseteq Guests /\ awaited \subseteq Guests /\ toAsk \subseteq Guests
    BY DEF CollabInit
  <2> QED BY <2>1, <2>2, <2>3, <2>4, <2>5, <2>6 DEF CollabTypeOK
<1>2. HandshakeInv
  BY <1>a, <1>b, CollabAssumption
  DEF CollabInit, HandshakeInv, Opened, IsRefused, IsRefusing, HoldsError
<1>3. PastInv
  BY <1>a, <1>b DEF PastInv
<1>4. OneSnapshotInv
  BY <1>a, HoldsNothing DEF OneSnapshotInv, OneSnapshotFor, IsForwarding, HoldsOneSnapshot
<1>5. OwnerInv
  BY <1>a, <1>b DEF OwnerInv, Holds, Ready
<1>6. DueInv
  BY <1>a DEF DueInv
<1> QED BY <1>1, <1>2, <1>3, <1>4, <1>5, <1>6 DEF CollabInv

LEMMA StepInv == CollabInv /\ CollabNext => CollabInv'
<1> SUFFICES ASSUME CollabTypeOK, HandshakeInv, PastInv, OneSnapshotInv, OwnerInv, DueInv, CollabNext
             PROVE  CollabInv'
  BY DEF CollabInv
<1>1. CollabTypeOK'
  BY StepTypes
<1>2. HandshakeInv' /\ PastInv'
  BY HandshakeStep, PastStep
<1>3. OneSnapshotInv'
  <2>1. \A h \in Guests : OneSnapshotFor(h)'
    BY OneSnapshotStep
  <2> QED BY <2>1 DEF OneSnapshotInv
<1>4. OwnerInv'
  BY <1>1, OwnerStep
<1>5. DueInv'
  BY <1>1, DueStep
<1> QED BY <1>1, <1>2, <1>3, <1>4, <1>5 DEF CollabInv

LEMMA StutterInv == CollabInv /\ UNCHANGED collabVars => CollabInv'
<1> SUFFICES ASSUME CollabInv, UNCHANGED collabVars PROVE CollabInv'
  OBVIOUS
<1> USE DEF collabVars, relayVars, CollabInv
<1>1. CollabTypeOK'
  BY DEF CollabTypeOK
<1>2. HandshakeInv' /\ PastInv'
  BY DEF HandshakeInv, PastInv, IsIdle, Opened, IsRefused, IsRefusing
<1>3. OneSnapshotInv'
  BY DEF OneSnapshotInv, OneSnapshotFor, IsForwarding, IsIdle, Actor
<1>4. OwnerInv'
  BY DEF OwnerInv, ReachesOwner, IsRelayedTo, IsIdle, Ready, IsRefused, IsRefusing
<1>5. DueInv'
  <2>1. (\A e \in due[Owner] : ReachesOwner(e) \/ IsUnread(e))'
    BY DEF DueInv, ReachesOwner, IsRelayedTo, IsUnread
  <2>2. (\A g \in Guests : g \notin Opened => \A e \in due[g] : e[1] = Owner)'
    BY DEF DueInv, Opened
  <2>3. (\A g \in Guests : g \in Opened => \A e \in due[g] :
           e \in onBoard[g] \/ IsUnread(e) \/ IsRelayedTo(e, g) \/ Holds(toClient[g], e))'
    BY DEF DueInv, IsRelayedTo, IsUnread, Opened
  <2>4. (\A g \in Guests : \A e \in due[g] : e[1] = Owner =>
           e \in onBoard[Owner] /\ CoversUnread(g, e) /\ CoversForwarded(g, e) /\ CoversInbox(g, e))'
    BY DEF DueInv, CoversUnread, CoversForwarded, CoversInbox, IsForwarding, IsRelayedTo, IsIdle, Actor
  <2> QED BY <2>1, <2>2, <2>3, <2>4 DEF DueInv
<1> QED BY <1>1, <1>2, <1>3, <1>4, <1>5

(* The inductive invariant holds throughout. *)
THEOREM CollabAlwaysSound == CollabSpec => []CollabInv
<1>1. CollabInv /\ [CollabNext]_collabVars => CollabInv'
  BY StepInv, StutterInv
<1> QED BY <1>1, InitInv, PTL DEF CollabSpec

(* Once all has arrived, nobody sees an edit that the owner has not. *)
THEOREM OwnerAlwaysHasEverything == CollabSpec => []OwnerHasEverything
<1>1. CollabInv => OwnerHasEverything
  <2> SUFFICES ASSUME CollabInv, Settled, NEW u \in Ready, NEW e \in onBoard[u] PROVE e \in onBoard[Owner]
    BY DEF OwnerHasEverything
  <2>1. u \in Users /\ Owner \in Users
    BY UserFacts DEF Ready
  <2>2. ReachesOwner(e) \/ Holds(toRelay[u], e) \/ IsRefused(u)
    BY DEF CollabInv, OwnerInv
  <2>3. ~IsRefused(u)
    BY <2>1, EmptyContent DEF Settled, IsRefused, IsRefusing, HoldsError
  <2>4. ~Holds(toRelay[u], e) /\ ~Holds(toClient[Owner], e) /\ ~IsRelayedTo(e, Owner)
    BY <2>1, HoldsNothing DEF Settled, IsRelayedTo, IsIdle
  <2> QED BY <2>2, <2>3, <2>4 DEF ReachesOwner
<1> QED BY <1>1, CollabAlwaysSound, PTL

(* Once all has arrived, whoever has the board open sees every edit that was due
   to it: all that the owner has sent, and what others have sent while it had the
   board open, but for what was lost with its author's connection or refused
   because the board had expired. *)
THEOREM EditsAlwaysArrive == CollabSpec => []EditsArrive
<1>1. CollabInv => EditsArrive
  <2> SUFFICES ASSUME CollabInv, Settled, NEW u \in Opened, NEW e \in due[u] PROVE e \in onBoard[u]
    BY DEF EditsArrive
  <2>1. u \in Users /\ Owner \in Users
    BY UserFacts DEF Opened
  <2>2. \A v \in Users : ~Holds(toRelay[v], e) /\ ~Holds(toClient[v], e) /\ ~IsRelayedTo(e, v)
    BY HoldsNothing DEF Settled, IsRelayedTo, IsIdle
  <2>3. CASE u = Owner
    BY <2>1, <2>2, <2>3 DEF CollabInv, DueInv, ReachesOwner, IsUnread
  <2>4. CASE u # Owner
    <3>1. u \in Guests
      BY <2>1, <2>4, UserFacts
    <3>2. e \in onBoard[u] \/ IsUnread(e) \/ IsRelayedTo(e, u) \/ Holds(toClient[u], e)
      BY <3>1 DEF CollabInv, DueInv
    <3> QED BY <2>1, <2>2, <3>2 DEF IsUnread
  <2> QED BY <2>3, <2>4
<1> QED BY <1>1, CollabAlwaysSound, PTL
=============================================================================
