----------------------------- MODULE BoardsProofs ----------------------------
(***************************************************************************)
(* Theorems about the parts of a board at the relay, for any number of     *)
(* guests and clients and any limits.                                      *)
(*   How a guest joins (SnapshotHandshake): the owner's controller is told *)
(* only of errors that have a cause, a guest that is let in is not timed   *)
(* out, and the owner strikes it off its list.                             *)
(*   Who is shown to whom (Participants): the owner sees everybody, and of *)
(* two guests one sees the other.                                          *)
(*   The edge of the relay: the rate limits it lets clients in by, the     *)
(* settings it runs with, and the messages it and the controllers exchange. *)
(*   And all of these beside each other and the store, whose own theorems  *)
(* are in RoomStoreProofs.                                                 *)
(***************************************************************************)
EXTENDS MCBoards, RoomStoreProofs, Functions, SequenceTheorems, TLAPS

(***************************************************************************)
(* The snapshot handshake.                                                 *)
(***************************************************************************)

OwnerMessages == SnapshotRequests \cup Acks \cup ErrorMessages
GuestMessages == Snapshots \cup ErrorMessages

\* A request or a snapshot for a guest, among the messages of a queue.
IsFor(m, type, g) == m.type = type /\ m.target = g
Holds(q, type, g) == \E m \in Range(q) : IsFor(m, type, g)
HoldsOne(q, type, g) ==
  \A i, j \in DOMAIN q : IsFor(q[i], type, g) /\ IsFor(q[j], type, g) => i = j
HoldsType(q, type) == \E m \in Range(q) : m.type = type

Asked(g) == Holds(toOwner, "board.snapshot.request", g)
Answered(g) == Holds(fromOwner, "board.snapshot", g)
TimedOut(g) == Error("snapshot_timeout") \in Range(toGuest[g])

\* The relay still waits for a guest's snapshot, or the guest has gone.
IsOpen(g) == g \in pendingRequests \/ g \notin live

(***************************************************************************)
(* The inductive invariant.                                                *)
(***************************************************************************)

\* What the stage of a guest says of the relay's maps.
StageOf(g) ==
  /\ stage[g] = "away" =>
       /\ g \notin live /\ g \notin pendingRequests
       /\ toGuest[g] = << >> /\ guestPhase[g] = "connecting"
  /\ stage[g] \in {"joined", "asked"} <=> g \in registered
  /\ stage[g] \in {"unregistered", "gone"} => g \notin live
  /\ stage[g] = "joined" => IsOpen(g)

\* The owner is asked once for a guest, and answers once.
RequestOf(g) ==
  /\ HoldsOne(toOwner, "board.snapshot.request", g)
  /\ HoldsOne(fromOwner, "board.snapshot", g)
  /\ Asked(g) => ~Answered(g)
  /\ Asked(g) \/ Answered(g) => stage[g] \notin {"away", "joined"} /\ IsOpen(g)

\* The snapshot in handleBoardSnapshot is for somebody who waited for it.
ServingInv ==
  serving # Nothing =>
    /\ stage[serving.message.target] \notin {"away", "joined"}
    /\ serving.message.target \notin pendingRequests

\* Versions are those the relay accepts.
VersionsInv ==
  /\ \A m \in Range(fromOwner) : m.version > 0
  /\ \A g \in Newcomers : \A m \in Range(fromGuest[g]) : m.version > 0

\* A guest waits, or has its snapshot, or has been timed out.
LetInOf(g) ==
  /\ guestPhase[g] = "ready" => g \in unlocked
  /\ g \in pendingRequests \/ TimedOut(g) =>
       guestPhase[g] # "ready" /\ ~HoldsType(toGuest[g], "board.snapshot")
  /\ TimedOut(g) => g \notin live

\* The acknowledgement of a guest that the owner still awaits is on its way.
AckReturns(g) == \E v \in Versions : SnapshotAck(g, v) \in Range(toOwner)
AwaitedOf(g) ==
  g \in live /\ guestPhase[g] = "ready" /\ g \in pendingTargets =>
    Range(fromGuest[g]) # {} \/ HoldsType(toGuest[g], "error") \/ AckReturns(g)

GuestsInv ==
  \A g \in Newcomers : StageOf(g) /\ RequestOf(g) /\ LetInOf(g) /\ AwaitedOf(g)

HandshakeInv ==
  /\ HandshakeTypeOK
  /\ GuestsInv
  /\ ServingInv
  /\ VersionsInv
  /\ ErrorsHaveCause

(***************************************************************************)
(* Queues.                                                                 *)
(***************************************************************************)

\* A message sent joins the others, and comes last.
LEMMA AppendFacts ==
  ASSUME NEW S, NEW q \in Seq(S), NEW m \in S
  PROVE  /\ Append(q, m) \in Seq(S)
         /\ Len(q) \in Nat
         /\ DOMAIN Append(q, m) = 1 .. Len(q) + 1 /\ DOMAIN q = 1 .. Len(q)
         /\ \A k \in 1 .. Len(q) : Append(q, m)[k] = q[k]
         /\ Append(q, m)[Len(q) + 1] = m
OBVIOUS

LEMMA Appended ==
  ASSUME NEW S, NEW q \in Seq(S), NEW m \in S
  PROVE  Append(q, m) \in Seq(S) /\ Range(Append(q, m)) = Range(q) \cup {m}
<1>1. ASSUME NEW k \in 1 .. Len(q) + 1
      PROVE  Append(q, m)[k] \in Range(q) \cup {m}
  <2>1. CASE k = Len(q) + 1
    BY <2>1, AppendFacts
  <2>2. CASE k \in 1 .. Len(q)
    BY <2>2, AppendFacts DEF Range
  <2> QED BY <1>1, <2>1, <2>2, AppendFacts
<1>2. ASSUME NEW k \in DOMAIN q PROVE q[k] \in Range(Append(q, m))
  <2>1. k \in DOMAIN Append(q, m) /\ Append(q, m)[k] = q[k]
    BY <1>2, AppendFacts
  <2> QED BY <2>1 DEF Range
<1>3. m \in Range(Append(q, m))
  <2>1. Len(q) + 1 \in DOMAIN Append(q, m) /\ Append(q, m)[Len(q) + 1] = m
    BY AppendFacts
  <2> QED BY <2>1 DEF Range
<1>4. Range(Append(q, m)) \subseteq Range(q) \cup {m}
  BY <1>1, AppendFacts DEF Range
<1>5. Range(q) \subseteq Range(Append(q, m))
  BY <1>2 DEF Range
<1> QED BY <1>3, <1>4, <1>5, AppendFacts

\* A message taken was one of them, the first.
LEMMA TailFacts ==
  ASSUME NEW S, NEW q \in Seq(S), q # << >>
  PROVE  /\ Tail(q) \in Seq(S)
         /\ Head(q) = q[1] /\ 1 \in DOMAIN q
         /\ Len(q) \in Nat \ {0}
         /\ DOMAIN q = 1 .. Len(q) /\ DOMAIN Tail(q) = 1 .. Len(q) - 1
         /\ \A k \in 1 .. Len(q) - 1 : Tail(q)[k] = q[k + 1]
OBVIOUS

LEMMA Taken ==
  ASSUME NEW S, NEW q \in Seq(S), q # << >>
  PROVE  /\ Tail(q) \in Seq(S) /\ Head(q) \in S
         /\ Range(q) = Range(Tail(q)) \cup {Head(q)}
<1>1. ASSUME NEW k \in DOMAIN q PROVE q[k] \in Range(Tail(q)) \cup {Head(q)}
  <2>1. CASE k = 1
    BY <2>1, TailFacts
  <2>2. CASE k # 1
    <3>1. k - 1 \in DOMAIN Tail(q) /\ Tail(q)[k - 1] = q[k]
      BY <1>1, <2>2, TailFacts
    <3> QED BY <3>1 DEF Range
  <2> QED BY <2>1, <2>2
<1>2. ASSUME NEW k \in DOMAIN Tail(q) PROVE Tail(q)[k] \in Range(q)
  <2>1. k + 1 \in DOMAIN q /\ Tail(q)[k] = q[k + 1]
    BY <1>2, TailFacts
  <2> QED BY <2>1 DEF Range
<1>3. Head(q) \in Range(q)
  BY TailFacts DEF Range
<1>4. Tail(q) \in Seq(S) /\ Head(q) \in S
  OBVIOUS
<1> QED BY <1>1, <1>2, <1>3, <1>4 DEF Range

LEMMA EmptyQueue == Range(<< >>) = {}
BY DEF Range

LEMMA OneAppended ==
  ASSUME NEW S, NEW q \in Seq(S), NEW m \in S, NEW type, NEW g,
         HoldsOne(q, type, g), IsFor(m, type, g) => ~Holds(q, type, g)
  PROVE  HoldsOne(Append(q, m), type, g)
<1> DEFINE p == Append(q, m)
<1> SUFFICES ASSUME NEW i \in DOMAIN p, NEW j \in DOMAIN p,
                    IsFor(p[i], type, g), IsFor(p[j], type, g)
             PROVE  i = j
  BY DEF HoldsOne
<1>1. DOMAIN p = 1 .. Len(q) + 1 /\ DOMAIN q = 1 .. Len(q) /\ Len(q) \in Nat
  BY AppendFacts
<1>2. \A k \in 1 .. Len(q) : p[k] = q[k]
  BY AppendFacts
<1>3. p[Len(q) + 1] = m
  BY AppendFacts
<1>4. \A k \in 1 .. Len(q) : ~(IsFor(q[k], type, g) /\ IsFor(m, type, g))
  BY <1>1 DEF Holds, Range
<1> HIDE DEF p
<1>5. CASE i = Len(q) + 1 /\ j # Len(q) + 1
  BY <1>1, <1>2, <1>3, <1>4, <1>5
<1>6. CASE i # Len(q) + 1 /\ j = Len(q) + 1
  BY <1>1, <1>2, <1>3, <1>4, <1>6
<1>7. CASE i # Len(q) + 1 /\ j # Len(q) + 1
  BY <1>1, <1>2, <1>7 DEF HoldsOne
<1> QED BY <1>5, <1>6, <1>7

LEMMA OneTaken ==
  ASSUME NEW S, NEW q \in Seq(S), q # << >>, NEW type, NEW g, HoldsOne(q, type, g)
  PROVE  /\ HoldsOne(Tail(q), type, g)
         /\ IsFor(Head(q), type, g) => ~Holds(Tail(q), type, g)
<1>1. ASSUME NEW i \in DOMAIN Tail(q), NEW j \in DOMAIN Tail(q),
             IsFor(Tail(q)[i], type, g), IsFor(Tail(q)[j], type, g)
      PROVE  i = j
  <2>1. i + 1 \in DOMAIN q /\ q[i + 1] = Tail(q)[i] /\ j + 1 \in DOMAIN q /\ q[j + 1] = Tail(q)[j]
    BY <1>1, TailFacts
  <2>2. i + 1 = j + 1
    BY <1>1, <2>1 DEF HoldsOne
  <2> QED BY <1>1, <2>2, TailFacts
<1>2. ASSUME IsFor(Head(q), type, g), Holds(Tail(q), type, g) PROVE FALSE
  <2>1. PICK k \in DOMAIN Tail(q) : IsFor(Tail(q)[k], type, g)
    BY <1>2 DEF Holds, Range
  <2>2. k + 1 \in DOMAIN q /\ q[k + 1] = Tail(q)[k] /\ k + 1 # 1
    BY <2>1, TailFacts
  <2>3. 1 \in DOMAIN q /\ IsFor(q[1], type, g)
    BY <1>2, TailFacts
  <2> QED BY <2>1, <2>2, <2>3 DEF HoldsOne
<1> QED BY <1>1, <1>2 DEF HoldsOne

(***************************************************************************)
(* Messages.                                                               *)
(***************************************************************************)

LEMMA MessageTypes ==
  ASSUME NEW g \in Newcomers, NEW v \in Versions, NEW code \in HandshakeErrorCodes
  PROVE  /\ SnapshotRequest(g) \in OwnerMessages /\ SnapshotAck(g, v) \in OwnerMessages
         /\ Error(code) \in OwnerMessages /\ Error(code) \in GuestMessages
         /\ Snapshot(g, v) \in Snapshots /\ Snapshot(g, v) \in GuestMessages
         /\ SnapshotAck(g, v) \in Acks
BY DEF OwnerMessages, GuestMessages, SnapshotRequests, Snapshots, Acks, ErrorMessages

LEMMA OwnerMessageCases ==
  ASSUME NEW m \in OwnerMessages
  PROVE  \/ m.type = "board.snapshot.request" /\ m.target \in Newcomers
         \/ /\ m.type = "board.snapshot.ack" /\ m.actor \in Newcomers
            /\ m.version \in Versions /\ m = SnapshotAck(m.actor, m.version)
         \/ m.type = "error"
BY DEF OwnerMessages, SnapshotRequests, SnapshotRequest, Acks, SnapshotAck, ErrorMessages, Error

LEMMA GuestMessageCases ==
  ASSUME NEW m \in GuestMessages
  PROVE  \/ m.type = "board.snapshot" /\ m \in Snapshots
         \/ m.type = "error" /\ m.code \in HandshakeErrorCodes /\ m = Error(m.code)
BY DEF GuestMessages, Snapshots, Snapshot, ErrorMessages, Error

LEMMA SnapshotFacts ==
  ASSUME NEW m \in Snapshots
  PROVE  m.type = "board.snapshot" /\ m.target \in Newcomers /\ m.version \in Versions
BY DEF Snapshots, Snapshot

LEMMA AckFacts ==
  ASSUME NEW m \in Acks
  PROVE  m.type = "board.snapshot.ack" /\ m.actor \in Newcomers /\ m.version \in Versions
BY DEF Acks, SnapshotAck

LEMMA VersionFacts ==
  /\ \A v \in Versions : v \in Int
  /\ \A v \in Versions : ProtocolVersion(v) \in Versions /\ ProtocolVersion(v) > 0
  /\ \A v \in 0 .. MaxVersion : v \in Versions
BY HandshakeAssumption DEF Versions, ProtocolVersion

\* A snapshot that is being served.
LEMMA ServingFacts ==
  ASSUME HandshakeTypeOK, serving # Nothing
  PROVE  /\ serving.step \in {"taken", "found", "touched"}
         /\ serving.message \in Snapshots /\ serving.message.target \in Newcomers
         /\ \A to \in {"taken", "found", "touched"} :
              /\ [serving EXCEPT !.step = to] \in Steps
              /\ [serving EXCEPT !.step = to].message = serving.message
<1>1. serving \in [step : {"taken", "found", "touched"}, message : Snapshots]
  BY DEF HandshakeTypeOK, Steps
<1> QED BY <1>1, SnapshotFacts DEF Steps

\* handleBoardSnapshot looks for its target and touches the board: it goes on,
\* or it refuses the answer.
LEMMA Proceeding ==
  ASSUME HandshakeTypeOK, FindTarget \/ TouchForSnapshot
  PROVE  /\ serving # Nothing
         /\ \/ /\ serving' \in Steps /\ serving' # Nothing
               /\ serving'.message = serving.message /\ toOwner' = toOwner
            \/ /\ RefuseAnswer("board_unavailable")
               /\ expired \/ serving.message.target \notin registered
         /\ UNCHANGED <<stage, live, registered, pendingRequests, expired, ownerVars, guestVars,
                        fromOwner, toGuest, fromGuest, ignored>>
<1>1. serving # Nothing
  BY DEF FindTarget, TouchForSnapshot, Proceeds, Nothing
<1>2. \A to \in {"found", "touched"} : [serving EXCEPT !.step = to] # Nothing
  BY <1>1, ServingFacts DEF Nothing
<1>3. CASE FindTarget
  BY <1>1, <1>2, <1>3, ServingFacts DEF FindTarget, Proceeds
<1>4. CASE TouchForSnapshot
  BY <1>1, <1>2, <1>4, ServingFacts DEF TouchForSnapshot, Proceeds
<1> QED BY <1>3, <1>4

(***************************************************************************)
(* What a step does to the queues.                                         *)
(***************************************************************************)

LEMMA QueueTypes ==
  ASSUME HandshakeTypeOK
  PROVE  /\ toOwner \in Seq(OwnerMessages) /\ fromOwner \in Seq(Snapshots)
         /\ toGuest \in [Newcomers -> Seq(GuestMessages)]
         /\ fromGuest \in [Newcomers -> Seq(Acks)]
BY DEF HandshakeTypeOK, OwnerMessages, GuestMessages

LEMMA SentToOwner ==
  ASSUME HandshakeTypeOK, NEW m \in OwnerMessages, toOwner' = Append(toOwner, m)
  PROVE  toOwner' \in Seq(OwnerMessages) /\ Range(toOwner') = Range(toOwner) \cup {m}
<1>1. toOwner \in Seq(OwnerMessages)
  BY QueueTypes
<1> QED BY <1>1, Appended

LEMMA TakenByOwner ==
  ASSUME HandshakeTypeOK, NEW type, OwnerReceives(type)
  PROVE  /\ toOwner' \in Seq(OwnerMessages) /\ Head(toOwner) \in OwnerMessages
         /\ Head(toOwner).type = type
         /\ Range(toOwner) = Range(toOwner') \cup {Head(toOwner)}
<1>1. toOwner \in Seq(OwnerMessages)
  BY QueueTypes
<1>2. toOwner # << >> /\ toOwner' = Tail(toOwner) /\ Head(toOwner).type = type
  BY DEF OwnerReceives
<1> QED BY <1>1, <1>2, Taken

LEMMA DeliveredFacts ==
  ASSUME HandshakeTypeOK, NEW g \in Newcomers, NEW m \in GuestMessages,
         toGuest' = Delivered(g, m)
  PROVE  /\ toGuest' \in [Newcomers -> Seq(GuestMessages)]
         /\ \A h \in Newcomers : h # g => toGuest'[h] = toGuest[h]
         /\ g \in live => Range(toGuest'[g]) = Range(toGuest[g]) \cup {m}
         /\ g \notin live => toGuest' = toGuest
<1>1. toGuest \in [Newcomers -> Seq(GuestMessages)]
  BY QueueTypes
<1>2. CASE g \in live
  <2>1. toGuest' = [toGuest EXCEPT ![g] = Append(toGuest[g], m)]
    BY <1>2 DEF Delivered
  <2>2. toGuest[g] \in Seq(GuestMessages)
    BY <1>1
  <2>3. /\ Append(toGuest[g], m) \in Seq(GuestMessages)
        /\ Range(Append(toGuest[g], m)) = Range(toGuest[g]) \cup {m}
    BY <2>2, Appended
  <2> QED BY <1>1, <1>2, <2>1, <2>3
<1>3. CASE g \notin live
  BY <1>1, <1>3 DEF Delivered
<1> QED BY <1>2, <1>3

LEMMA TakenByGuest ==
  ASSUME HandshakeTypeOK, NEW g \in Newcomers, NEW type, GuestReceives(g, type)
  PROVE  /\ toGuest' \in [Newcomers -> Seq(GuestMessages)]
         /\ \A h \in Newcomers : h # g => toGuest'[h] = toGuest[h]
         /\ Head(toGuest[g]) \in GuestMessages /\ Head(toGuest[g]).type = type
         /\ Range(toGuest[g]) = Range(toGuest'[g]) \cup {Head(toGuest[g])}
<1>1. toGuest \in [Newcomers -> Seq(GuestMessages)]
  BY QueueTypes
<1>2. /\ toGuest[g] # << >> /\ Head(toGuest[g]).type = type
      /\ toGuest' = [toGuest EXCEPT ![g] = Tail(toGuest[g])]
  BY DEF GuestReceives
<1>3. toGuest[g] \in Seq(GuestMessages)
  BY <1>1
<1>4. /\ Tail(toGuest[g]) \in Seq(GuestMessages) /\ Head(toGuest[g]) \in GuestMessages
      /\ Range(toGuest[g]) = Range(Tail(toGuest[g])) \cup {Head(toGuest[g])}
  BY <1>2, <1>3, Taken
<1> QED BY <1>1, <1>2, <1>4

LEMMA AnswerTaken ==
  ASSUME HandshakeTypeOK, TakeSnapshot
  PROVE  /\ fromOwner' \in Seq(Snapshots) /\ Head(fromOwner) \in Snapshots
         /\ Range(fromOwner) = Range(fromOwner') \cup {Head(fromOwner)}
<1>1. fromOwner \in Seq(Snapshots)
  BY QueueTypes
<1>2. fromOwner # << >> /\ fromOwner' = Tail(fromOwner)
  BY DEF TakeSnapshot
<1> QED BY <1>1, <1>2, Taken

LEMMA AnswerSent ==
  ASSUME HandshakeTypeOK, NEW m \in Snapshots, fromOwner' = Append(fromOwner, m)
  PROVE  fromOwner' \in Seq(Snapshots) /\ Range(fromOwner') = Range(fromOwner) \cup {m}
<1>1. fromOwner \in Seq(Snapshots)
  BY QueueTypes
<1> QED BY <1>1, Appended

\* handleBoardSnapshotAck takes an acknowledgement of the guest.
LEMMA AckTaken ==
  ASSUME HandshakeTypeOK, NEW g \in Newcomers, ServeAck(g)
  PROVE  /\ fromGuest' \in [Newcomers -> Seq(Acks)]
         /\ \A h \in Newcomers : h # g => fromGuest'[h] = fromGuest[h]
         /\ Head(fromGuest[g]) \in Acks
         /\ Range(fromGuest[g]) = Range(fromGuest'[g]) \cup {Head(fromGuest[g])}
<1>1. fromGuest \in [Newcomers -> Seq(Acks)]
  BY QueueTypes
<1>2. fromGuest[g] # << >> /\ fromGuest' = [fromGuest EXCEPT ![g] = Tail(fromGuest[g])]
  BY DEF ServeAck
<1>3. fromGuest[g] \in Seq(Acks)
  BY <1>1
<1>4. /\ Tail(fromGuest[g]) \in Seq(Acks) /\ Head(fromGuest[g]) \in Acks
      /\ Range(fromGuest[g]) = Range(Tail(fromGuest[g])) \cup {Head(fromGuest[g])}
  BY <1>2, <1>3, Taken
<1> QED BY <1>1, <1>2, <1>4

\* handleBoardSnapshot of a guest's controller sends one.
LEMMA AckSent ==
  ASSUME HandshakeTypeOK, NEW g \in Newcomers, ReceiveSnapshot(g)
  PROVE  /\ fromGuest' \in [Newcomers -> Seq(Acks)]
         /\ \A h \in Newcomers : h # g => fromGuest'[h] = fromGuest[h]
         /\ \E v \in Versions :
              v > 0 /\ Range(fromGuest'[g]) = Range(fromGuest[g]) \cup {SnapshotAck(g, v)}
<1>1. fromGuest \in [Newcomers -> Seq(Acks)]
  BY QueueTypes
<1> DEFINE version == ProtocolVersion(Head(toGuest[g]).version)
<1>2. Head(toGuest[g]) \in Snapshots
  BY TakenByGuest, GuestMessageCases DEF ReceiveSnapshot
<1>3. version \in Versions /\ version > 0
  BY <1>2, SnapshotFacts, VersionFacts
<1>4. fromGuest' = [fromGuest EXCEPT ![g] = Append(fromGuest[g], SnapshotAck(g, version))]
  BY DEF ReceiveSnapshot
<1> HIDE DEF version
<1>5. fromGuest[g] \in Seq(Acks) /\ SnapshotAck(g, version) \in Acks
  <2>1. \A v \in Versions : SnapshotAck(g, v) \in Acks
    BY DEF Acks
  <2>2. fromGuest[g] \in Seq(Acks)
    BY <1>1
  <2> QED BY <1>3, <2>1, <2>2
<1>6. /\ Append(fromGuest[g], SnapshotAck(g, version)) \in Seq(Acks)
      /\ Range(Append(fromGuest[g], SnapshotAck(g, version)))
           = Range(fromGuest[g]) \cup {SnapshotAck(g, version)}
  BY <1>5, Appended
<1> QED BY <1>1, <1>3, <1>4, <1>6

(***************************************************************************)
(* Types.                                                                  *)
(***************************************************************************)

LEMMA TypeStep == HandshakeTypeOK /\ HandshakeNext => HandshakeTypeOK'
<1> SUFFICES ASSUME HandshakeTypeOK, HandshakeNext PROVE HandshakeTypeOK'
  OBVIOUS
<1>a. \A code \in HandshakeErrorCodes : Error(code) \in OwnerMessages /\ Error(code) \in GuestMessages
  BY DEF OwnerMessages, GuestMessages, ErrorMessages
<1>b. /\ "invalid_message" \in HandshakeErrorCodes /\ "board_unavailable" \in HandshakeErrorCodes
      /\ "internal_error" \in HandshakeErrorCodes /\ "snapshot_timeout" \in HandshakeErrorCodes
  BY DEF HandshakeErrorCodes
<1>c. ASSUME NEW code \in HandshakeErrorCodes, RefuseAnswer(code)
      PROVE  serving' \in Steps /\ toOwner' \in Seq(OwnerMessages)
  BY <1>c, <1>a, SentToOwner DEF RefuseAnswer, Steps
<1>d. HandshakeTypeOK' <=>
        /\ stage' \in [Newcomers -> HandshakeStages]
        /\ live' \subseteq Newcomers /\ registered' \subseteq Newcomers
        /\ pendingRequests' \subseteq Newcomers
        /\ expired' \in BOOLEAN
        /\ serving' \in Steps
        /\ toOwner' \in Seq(OwnerMessages)
        /\ fromOwner' \in Seq(Snapshots)
        /\ toGuest' \in [Newcomers -> Seq(GuestMessages)]
        /\ fromGuest' \in [Newcomers -> Seq(Acks)]
        /\ ownerPhase' \in {"ready", "error"}
        /\ snapshotVersion' \in 0 .. MaxVersion
        /\ pendingTargets' \subseteq Newcomers
        /\ guestPhase' \in [Newcomers -> {"connecting", "awaiting_snapshot", "ready", "error"}]
        /\ unlocked' \subseteq Newcomers
        /\ ignored' \subseteq Newcomers
  BY DEF HandshakeTypeOK, OwnerMessages, GuestMessages
<1> USE QueueTypes DEF relayVars, ownerVars, guestVars, wires
<1>1. ASSUME NEW g \in Newcomers, Enter(g) PROVE HandshakeTypeOK'
  BY <1>1, <1>d DEF Enter, HandshakeTypeOK, HandshakeStages
<1>2. ASSUME NEW g \in Newcomers, Ask(g) PROVE HandshakeTypeOK'
  <2>1. SnapshotRequest(g) \in OwnerMessages
    BY DEF OwnerMessages, SnapshotRequests
  <2>2. toOwner' \in Seq(OwnerMessages)
    BY <1>2, <2>1, SentToOwner DEF Ask
  <2> QED BY <1>2, <2>2, <1>d DEF Ask, HandshakeTypeOK, HandshakeStages
<1>3. ASSUME NEW g \in Newcomers, Timeout(g) PROVE HandshakeTypeOK'
  <2>1. toGuest' \in [Newcomers -> Seq(GuestMessages)]
    BY <1>3, <1>a, <1>b, DeliveredFacts DEF Timeout
  <2> QED BY <1>3, <2>1, <1>d DEF Timeout, HandshakeTypeOK
<1>4. ASSUME NEW g \in Newcomers, CloseGuest(g) PROVE HandshakeTypeOK'
  BY <1>4, <1>d DEF CloseGuest, HandshakeTypeOK
<1>5. ASSUME NEW g \in Newcomers, Unregister(g) PROVE HandshakeTypeOK'
  BY <1>5, <1>d DEF Unregister, HandshakeTypeOK, HandshakeStages
<1>6. ASSUME NEW g \in Newcomers, ClearPending(g) PROVE HandshakeTypeOK'
  BY <1>6, <1>d DEF ClearPending, HandshakeTypeOK, HandshakeStages
<1>7. ASSUME Expire PROVE HandshakeTypeOK'
  BY <1>7, <1>d DEF Expire, HandshakeTypeOK
<1>8. ASSUME TakeSnapshot PROVE HandshakeTypeOK'
  <2>1. Head(fromOwner) \in Snapshots /\ fromOwner' \in Seq(Snapshots)
    BY <1>8, AnswerTaken
  <2>2. serving' \in Steps /\ toOwner' \in Seq(OwnerMessages)
    BY <1>8, <2>1, <1>b, <1>c DEF TakeSnapshot, Steps
  <2>3. pendingRequests' \subseteq Newcomers
    BY <1>8 DEF TakeSnapshot, PendingWithout, HandshakeTypeOK
  <2> QED BY <1>8, <2>1, <2>2, <2>3, <1>d DEF TakeSnapshot, HandshakeTypeOK
<1>9. ASSUME FindTarget \/ TouchForSnapshot PROVE HandshakeTypeOK'
  <2>1. serving' \in Steps /\ toOwner' \in Seq(OwnerMessages)
    BY <1>9, <1>b, <1>c, Proceeding
  <2> QED BY <1>9, <2>1, <1>d, Proceeding DEF HandshakeTypeOK
<1>11. ASSUME ForwardSnapshot PROVE HandshakeTypeOK'
  <2>1. serving # Nothing
    BY <1>11 DEF ForwardSnapshot, Nothing
  <2>2. serving.message \in GuestMessages /\ serving.message.target \in Newcomers
    BY <2>1, ServingFacts DEF GuestMessages
  <2>3. toGuest' \in [Newcomers -> Seq(GuestMessages)]
    BY <1>11, <2>2, DeliveredFacts DEF ForwardSnapshot
  <2>4. serving' \in Steps /\ toOwner' \in Seq(OwnerMessages)
    BY <1>11, <1>b, <1>c DEF ForwardSnapshot, Steps
  <2> QED BY <1>11, <2>3, <2>4, <1>d DEF ForwardSnapshot, HandshakeTypeOK
<1>12. ASSUME NEW g \in Newcomers, ServeAck(g) PROVE HandshakeTypeOK'
  <2>1. fromGuest' \in [Newcomers -> Seq(Acks)] /\ Head(fromGuest[g]).version \in Versions
    BY <1>12, AckTaken, AckFacts
  <2>2. AckOf(g, Head(fromGuest[g]).version) \in OwnerMessages
    BY <2>1 DEF AckOf, OwnerMessages, Acks
  <2>3. toOwner' \in Seq(OwnerMessages)
    BY <1>12, <2>2, SentToOwner DEF ServeAck
  <2>4. toGuest' \in [Newcomers -> Seq(GuestMessages)]
    BY <1>12, <1>a, <1>b, DeliveredFacts DEF ServeAck
  <2> QED BY <1>12, <2>1, <2>3, <2>4, <1>d DEF ServeAck, HandshakeTypeOK
<1>13. ASSUME NEW g \in Newcomers, ReceiveSnapshot(g) PROVE HandshakeTypeOK'
  <2>1. toGuest' \in [Newcomers -> Seq(GuestMessages)] /\ fromGuest' \in [Newcomers -> Seq(Acks)]
    BY <1>13, TakenByGuest, AckSent DEF ReceiveSnapshot
  <2> QED BY <1>13, <2>1, <1>d DEF ReceiveSnapshot, GuestReceives, HandshakeTypeOK
<1>14. ASSUME NEW g \in Newcomers, GuestReceivesError(g) PROVE HandshakeTypeOK'
  <2>1. toGuest' \in [Newcomers -> Seq(GuestMessages)]
    BY <1>14, TakenByGuest DEF GuestReceivesError
  <2> QED BY <1>14, <2>1, <1>d DEF GuestReceivesError, GuestReceives, HandshakeTypeOK
<1>15. ASSUME LoadBoard PROVE HandshakeTypeOK'
  BY <1>15, <1>d DEF LoadBoard, HandshakeTypeOK
<1>16. ASSUME ReceiveRequest PROVE HandshakeTypeOK'
  <2>1. Head(toOwner).target \in Newcomers /\ toOwner' \in Seq(OwnerMessages)
    BY <1>16, TakenByOwner, OwnerMessageCases DEF ReceiveRequest
  <2>2. Snapshot(Head(toOwner).target, ProtocolVersion(snapshotVersion)) \in Snapshots
    BY <2>1, VersionFacts DEF Snapshots, HandshakeTypeOK
  <2>3. fromOwner' \in Seq(Snapshots)
    BY <1>16, <2>2, AnswerSent DEF ReceiveRequest
  <2> QED BY <1>16, <2>1, <2>3, <1>d DEF ReceiveRequest, OwnerReceives, HandshakeTypeOK
<1>17. ASSUME ReceiveAck PROVE HandshakeTypeOK'
  BY <1>17, TakenByOwner, <1>d DEF ReceiveAck, OwnerReceives, HandshakeTypeOK
<1>18. ASSUME OwnerReceivesError PROVE HandshakeTypeOK'
  BY <1>18, TakenByOwner, <1>d DEF OwnerReceivesError, OwnerReceives, HandshakeTypeOK
<1> QED
  BY <1>1, <1>2, <1>3, <1>4, <1>5, <1>6, <1>7, <1>8, <1>9, <1>11, <1>12, <1>13, <1>14, <1>15,
     <1>16, <1>17, <1>18 DEF HandshakeNext

(***************************************************************************)
(* Which steps move what.                                                  *)
(***************************************************************************)

RelayServes == TakeSnapshot \/ FindTarget \/ TouchForSnapshot \/ ForwardSnapshot
OwnerTakes == ReceiveRequest \/ ReceiveAck \/ OwnerReceivesError

LEMMA WireMoves ==
  ASSUME HandshakeNext
  PROVE  /\ \/ UNCHANGED toOwner
            \/ (\E g \in Newcomers : Ask(g) \/ ServeAck(g)) \/ RelayServes \/ OwnerTakes
         /\ UNCHANGED fromOwner \/ TakeSnapshot \/ ReceiveRequest
         /\ \/ UNCHANGED <<stage, registered>>
            \/ \E g \in Newcomers : Enter(g) \/ Ask(g) \/ Unregister(g) \/ ClearPending(g)
         /\ \/ UNCHANGED live
            \/ \E g \in Newcomers : Enter(g) \/ Timeout(g) \/ CloseGuest(g)
         /\ \/ UNCHANGED pendingRequests \/ TakeSnapshot
            \/ \E g \in Newcomers : Enter(g) \/ Timeout(g) \/ ClearPending(g)
         /\ UNCHANGED serving \/ RelayServes
         /\ UNCHANGED expired \/ Expire
         /\ UNCHANGED ownerPhase \/ OwnerReceivesError
         /\ UNCHANGED pendingTargets \/ ReceiveRequest \/ ReceiveAck
<1> USE DEF relayVars, ownerVars, guestVars, wires, OwnerReceives, GuestReceives, Proceeds
<1>1. ASSUME NEW g \in Newcomers, Enter(g) \/ Ask(g) \/ Timeout(g) \/ CloseGuest(g)
      PROVE  /\ UNCHANGED toOwner \/ Ask(g)
             /\ UNCHANGED <<fromOwner, serving, expired, ownerPhase, pendingTargets>>
             /\ UNCHANGED <<stage, registered>> \/ Enter(g) \/ Ask(g)
             /\ UNCHANGED live \/ Enter(g) \/ Timeout(g) \/ CloseGuest(g)
             /\ UNCHANGED pendingRequests \/ Enter(g) \/ Timeout(g)
  BY <1>1 DEF Enter, Ask, Timeout, CloseGuest
<1>2. ASSUME NEW g \in Newcomers, Unregister(g) \/ ClearPending(g) \/ ServeAck(g)
      PROVE  /\ UNCHANGED toOwner \/ ServeAck(g)
             /\ UNCHANGED <<fromOwner, serving, expired, ownerPhase, pendingTargets, live>>
             /\ UNCHANGED <<stage, registered>> \/ Unregister(g) \/ ClearPending(g)
             /\ UNCHANGED pendingRequests \/ ClearPending(g)
  BY <1>2 DEF Unregister, ClearPending, ServeAck
<1>3. ASSUME NEW g \in Newcomers, ReceiveSnapshot(g) \/ GuestReceivesError(g)
      PROVE  UNCHANGED <<toOwner, fromOwner, stage, registered, live, pendingRequests, serving,
                         expired, ownerPhase, pendingTargets>>
  BY <1>3 DEF ReceiveSnapshot, GuestReceivesError
<1>4. ASSUME Expire \/ LoadBoard
      PROVE  /\ UNCHANGED <<toOwner, fromOwner, stage, registered, live, pendingRequests, serving,
                            ownerPhase, pendingTargets>>
             /\ UNCHANGED expired \/ Expire
  BY <1>4 DEF Expire, LoadBoard
<1>5. ASSUME RelayServes
      PROVE  /\ UNCHANGED <<stage, registered, live, expired, ownerPhase, pendingTargets>>
             /\ UNCHANGED fromOwner \/ TakeSnapshot
             /\ UNCHANGED pendingRequests \/ TakeSnapshot
  BY <1>5 DEF RelayServes, TakeSnapshot, FindTarget, TouchForSnapshot, ForwardSnapshot
<1>6. ASSUME OwnerTakes
      PROVE  /\ UNCHANGED <<stage, registered, live, pendingRequests, serving, expired>>
             /\ UNCHANGED fromOwner \/ ReceiveRequest
             /\ UNCHANGED ownerPhase \/ OwnerReceivesError
             /\ UNCHANGED pendingTargets \/ ReceiveRequest \/ ReceiveAck
  BY <1>6 DEF OwnerTakes, ReceiveRequest, ReceiveAck, OwnerReceivesError
<1>7. CASE \E g \in Newcomers : Enter(g) \/ Ask(g) \/ Timeout(g) \/ CloseGuest(g)
  BY <1>1, <1>7
<1>8. CASE \E g \in Newcomers : Unregister(g) \/ ClearPending(g) \/ ServeAck(g)
  BY <1>2, <1>8
<1>9. CASE \E g \in Newcomers : ReceiveSnapshot(g) \/ GuestReceivesError(g)
  BY <1>3, <1>9
<1> QED BY <1>4, <1>5, <1>6, <1>7, <1>8, <1>9 DEF HandshakeNext, RelayServes, OwnerTakes

\* Which steps move what belongs to one guest.
LEMMA GuestMoves ==
  ASSUME HandshakeTypeOK, HandshakeNext, NEW h \in Newcomers
  PROVE  /\ \/ toGuest'[h] = toGuest[h]
            \/ Timeout(h) \/ CloseGuest(h) \/ ServeAck(h) \/ ReceiveSnapshot(h)
            \/ GuestReceivesError(h) \/ ForwardSnapshot
         /\ \/ fromGuest'[h] = fromGuest[h]
            \/ Unregister(h) \/ ServeAck(h) \/ ReceiveSnapshot(h)
         /\ \/ guestPhase'[h] = guestPhase[h] /\ (h \in unlocked' <=> h \in unlocked)
            \/ Enter(h) \/ ReceiveSnapshot(h) \/ GuestReceivesError(h)
<1> USE DEF relayVars, ownerVars, guestVars, wires, OwnerReceives, GuestReceives, Proceeds
<1> DEFINE Still == /\ toGuest'[h] = toGuest[h] /\ fromGuest'[h] = fromGuest[h]
                    /\ guestPhase'[h] = guestPhase[h] /\ (h \in unlocked' <=> h \in unlocked)
<1>a. /\ toGuest \in [Newcomers -> Seq(GuestMessages)] /\ fromGuest \in [Newcomers -> Seq(Acks)]
      /\ guestPhase \in [Newcomers -> {"connecting", "awaiting_snapshot", "ready", "error"}]
  BY QueueTypes DEF HandshakeTypeOK
<1>1. ASSUME NEW g \in Newcomers, g # h,
             \/ Enter(g) \/ Ask(g) \/ Timeout(g) \/ CloseGuest(g) \/ Unregister(g) \/ ClearPending(g)
             \/ ServeAck(g) \/ ReceiveSnapshot(g) \/ GuestReceivesError(g)
      PROVE  Still
  <2>1. ASSUME Enter(g) \/ Ask(g) \/ CloseGuest(g) \/ Unregister(g) \/ ClearPending(g) PROVE Still
    BY <1>1, <1>a, <2>1 DEF Enter, Ask, CloseGuest, Unregister, ClearPending
  <2>2. ASSUME Timeout(g) \/ ServeAck(g) PROVE Still
    BY <1>1, <1>a, <2>2 DEF Timeout, ServeAck, Delivered
  <2>3. ASSUME ReceiveSnapshot(g) \/ GuestReceivesError(g) PROVE Still
    BY <1>1, <1>a, <2>3 DEF ReceiveSnapshot, GuestReceivesError
  <2> QED BY <1>1, <2>1, <2>2, <2>3
<1>2. ASSUME Enter(h) \/ Ask(h) \/ ClearPending(h) \/ Unregister(h) \/ Timeout(h) \/ CloseGuest(h)
      PROVE  /\ toGuest'[h] = toGuest[h] \/ Timeout(h) \/ CloseGuest(h)
             /\ fromGuest'[h] = fromGuest[h] \/ Unregister(h)
             /\ guestPhase'[h] = guestPhase[h] \/ Enter(h)
             /\ unlocked' = unlocked
  BY <1>2 DEF Enter, Ask, ClearPending, Unregister, Timeout, CloseGuest
<1>3. ASSUME ServeAck(h) \/ ReceiveSnapshot(h) \/ GuestReceivesError(h)
      PROVE  /\ fromGuest'[h] = fromGuest[h] \/ ServeAck(h) \/ ReceiveSnapshot(h)
             /\ \/ guestPhase'[h] = guestPhase[h] /\ unlocked' = unlocked
                \/ ReceiveSnapshot(h) \/ GuestReceivesError(h)
  BY <1>3 DEF ServeAck, ReceiveSnapshot, GuestReceivesError
<1>4. ASSUME \/ Expire \/ TakeSnapshot \/ FindTarget \/ TouchForSnapshot \/ LoadBoard
             \/ ReceiveRequest \/ ReceiveAck \/ OwnerReceivesError
      PROVE  Still
  BY <1>4 DEF Expire, TakeSnapshot, FindTarget, TouchForSnapshot, LoadBoard, ReceiveRequest,
              ReceiveAck, OwnerReceivesError
<1>5. ASSUME ForwardSnapshot
      PROVE  fromGuest' = fromGuest /\ guestPhase' = guestPhase /\ unlocked' = unlocked
  BY <1>5 DEF ForwardSnapshot
<1>6. CASE \E g \in Newcomers :
             \/ Enter(g) \/ Ask(g) \/ Timeout(g) \/ CloseGuest(g) \/ Unregister(g) \/ ClearPending(g)
             \/ ServeAck(g) \/ ReceiveSnapshot(g) \/ GuestReceivesError(g)
  BY <1>1, <1>2, <1>3, <1>6
<1> QED BY <1>4, <1>5, <1>6 DEF HandshakeNext

(***************************************************************************)
(* How far a guest is.                                                     *)
(***************************************************************************)

\* The goroutine of a guest goes from stage to stage.
LEMMA StageMoves ==
  ASSUME HandshakeTypeOK, HandshakeNext, NEW h \in Newcomers
  PROVE  \/ Enter(h)
         \/ Ask(h) /\ stage'[h] = "asked" /\ (h \in registered' <=> h \in registered)
         \/ Unregister(h) /\ stage'[h] = "unregistered" /\ h \notin registered'
         \/ ClearPending(h) /\ stage'[h] = "gone" /\ (h \in registered' <=> h \in registered)
         \/ stage'[h] = stage[h] /\ (h \in registered' <=> h \in registered)
<1>1. CASE UNCHANGED <<stage, registered>>
  BY <1>1
<1>2. ASSUME NEW g \in Newcomers, Enter(g) \/ Ask(g) \/ Unregister(g) \/ ClearPending(g), g # h
      PROVE  stage'[h] = stage[h] /\ (h \in registered' <=> h \in registered)
  BY <1>2 DEF Enter, Ask, Unregister, ClearPending, HandshakeTypeOK
<1>3. CASE Ask(h) \/ Unregister(h) \/ ClearPending(h)
  BY <1>3 DEF Ask, Unregister, ClearPending, HandshakeTypeOK
<1> QED BY <1>1, <1>2, <1>3, WireMoves

\* No guest enters again, and who has left the relay's lists does not come back.
LEMMA StageOnward ==
  ASSUME HandshakeTypeOK, HandshakeNext, NEW h \in Newcomers
  PROVE  /\ stage[h] # "away" => stage'[h] # "away" /\ ~Enter(h)
         /\ stage[h] \notin {"away", "joined"} => stage'[h] \notin {"away", "joined"}
         /\ stage'[h] = "away" => stage[h] = "away" /\ ~Enter(h)
<1>1. Enter(h) => stage[h] = "away" /\ stage'[h] = "joined"
  BY DEF Enter, HandshakeTypeOK
<1>2. Ask(h) => stage[h] = "joined"
  BY DEF Ask
<1> QED BY <1>1, <1>2, StageMoves

LEMMA LiveMoves ==
  ASSUME HandshakeTypeOK, HandshakeNext, NEW h \in Newcomers
  PROVE  /\ h \in live' => h \in live \/ Enter(h)
         /\ h \in pendingRequests' => h \in pendingRequests \/ Enter(h)
         /\ Enter(h) => h \in pendingRequests' /\ guestPhase'[h] = "awaiting_snapshot"
                        /\ stage[h] = "away" /\ stage'[h] = "joined" /\ h \in registered'
                        /\ toGuest' = toGuest
<1>1. UNCHANGED live \/ \E g \in Newcomers : Enter(g) \/ Timeout(g) \/ CloseGuest(g)
  BY WireMoves
<1>2. h \in live' => h \in live \/ Enter(h)
  BY <1>1 DEF Enter, Timeout, CloseGuest
<1>3. \/ UNCHANGED pendingRequests \/ TakeSnapshot
      \/ \E g \in Newcomers : Enter(g) \/ Timeout(g) \/ ClearPending(g)
  BY WireMoves
<1>4. TakeSnapshot => pendingRequests' \subseteq pendingRequests
  BY DEF TakeSnapshot, PendingWithout
<1>5. h \in pendingRequests' => h \in pendingRequests \/ Enter(h)
  BY <1>3, <1>4 DEF Enter, Timeout, ClearPending
<1>6. Enter(h) => h \in pendingRequests' /\ guestPhase'[h] = "awaiting_snapshot"
                  /\ stage[h] = "away" /\ stage'[h] = "joined" /\ h \in registered'
                  /\ toGuest' = toGuest
  BY DEF Enter, HandshakeTypeOK, wires
<1> QED BY <1>2, <1>5, <1>6

\* The relay stops waiting for a guest that is there when it takes its snapshot.
LEMMA OpenMoves ==
  ASSUME HandshakeTypeOK, HandshakeNext, NEW h \in Newcomers, StageOf(h), IsOpen(h)
  PROVE  \/ IsOpen(h)'
         \/ /\ TakeSnapshot /\ UNCHANGED <<toOwner, stage>>
            /\ Head(fromOwner).target = h /\ ValidSnapshot(Head(fromOwner))
<1>1. CASE h \in pendingRequests
  <2>1. CASE UNCHANGED pendingRequests
    BY <1>1, <2>1 DEF IsOpen
  <2>2. CASE TakeSnapshot
    BY <1>1, <2>2 DEF IsOpen, TakeSnapshot, PendingWithout
  <2>3. CASE \E g \in Newcomers : Enter(g)
    BY <1>1, <2>3 DEF IsOpen, Enter
  <2>4. CASE \E g \in Newcomers : Timeout(g)
    BY <1>1, <2>4 DEF IsOpen, Timeout
  <2>5. CASE \E g \in Newcomers : ClearPending(g)
    <3>1. PICK g \in Newcomers : ClearPending(g)
      BY <2>5
    <3>2. CASE g = h
      BY <3>1, <3>2 DEF IsOpen, ClearPending, StageOf
    <3>3. CASE g # h
      BY <1>1, <3>1, <3>3 DEF IsOpen, ClearPending
    <3> QED BY <3>2, <3>3
  <2> QED BY <2>1, <2>2, <2>3, <2>4, <2>5, WireMoves
<1>2. CASE h \notin live
  BY <1>2, LiveMoves DEF IsOpen
<1> QED BY <1>1, <1>2 DEF IsOpen

(***************************************************************************)
(* Where messages come from, and what becomes of them.                     *)
(***************************************************************************)

LEMMA TypeOf ==
  ASSUME NEW g, NEW v, NEW code
  PROVE  /\ SnapshotRequest(g).type = "board.snapshot.request" /\ SnapshotRequest(g).target = g
         /\ SnapshotAck(g, v).type = "board.snapshot.ack"
         /\ SnapshotAck(g, v).version = v /\ SnapshotAck(g, v).actor = g
         /\ Snapshot(g, v).type = "board.snapshot" /\ Snapshot(g, v).target = g
         /\ Snapshot(g, v).version = v
         /\ Error(code).type = "error" /\ Error(code).code = code
BY DEF SnapshotRequest, SnapshotAck, Snapshot, Error

\* handleBoardSnapshot tells the owner nothing but a refusal.
LEMMA Refusals ==
  ASSUME HandshakeTypeOK, RelayServes
  PROVE  UNCHANGED toOwner \/ \E code \in HandshakeErrorCodes : RefuseAnswer(code)
<1> DEFINE Refusal == \E code \in HandshakeErrorCodes : RefuseAnswer(code)
<1>1. TakeSnapshot => UNCHANGED toOwner \/ Refusal
  BY DEF TakeSnapshot, HandshakeErrorCodes
<1>2. FindTarget \/ TouchForSnapshot => UNCHANGED toOwner \/ Refusal
  BY Proceeding DEF HandshakeErrorCodes
<1>3. ForwardSnapshot => UNCHANGED toOwner \/ Refusal
  BY DEF ForwardSnapshot, HandshakeErrorCodes
<1> QED BY <1>1, <1>2, <1>3 DEF RelayServes

\* What the owner gets.
LEMMA ToOwnerOrigin ==
  ASSUME HandshakeTypeOK, HandshakeNext, NEW m \in Range(toOwner'), m \notin Range(toOwner)
  PROVE  \/ \E g \in Newcomers : Ask(g) /\ m = SnapshotRequest(g)
         \/ m.type = "board.snapshot.ack"
         \/ m.type = "error" /\ RelayServes /\ \E code \in HandshakeErrorCodes : RefuseAnswer(code)
<1> DEFINE Refusal == \E code \in HandshakeErrorCodes : RefuseAnswer(code)
<1>1. CASE UNCHANGED toOwner
  BY <1>1
<1>2. ASSUME NEW g \in Newcomers, Ask(g) PROVE m = SnapshotRequest(g)
  <2>1. toOwner' = Append(toOwner, SnapshotRequest(g)) /\ SnapshotRequest(g) \in OwnerMessages
    BY <1>2 DEF Ask, OwnerMessages, SnapshotRequests
  <2> QED BY <2>1, SentToOwner
<1>3. ASSUME NEW g \in Newcomers, ServeAck(g) PROVE m.type = "board.snapshot.ack"
  <2> DEFINE v == Head(fromGuest[g]).version
  <2>1. v \in Versions
    BY <1>3, AckTaken, AckFacts
  <2>2. toOwner' = toOwner \/ toOwner' = Append(toOwner, AckOf(g, v))
    BY <1>3 DEF ServeAck
  <2> HIDE DEF v
  <2>3. AckOf(g, v) \in OwnerMessages /\ AckOf(g, v).type = "board.snapshot.ack"
    BY <2>1, TypeOf DEF AckOf, OwnerMessages, Acks
  <2> QED BY <2>2, <2>3, SentToOwner
<1>4. ASSUME RelayServes PROVE m.type = "error" /\ Refusal
  <2>1. UNCHANGED toOwner \/ Refusal
    BY <1>4, Refusals
  <2>2. Refusal
    BY <2>1
  <2>3. PICK code \in HandshakeErrorCodes : RefuseAnswer(code)
    BY <2>2
  <2>4. toOwner' = Append(toOwner, Error(code)) /\ Error(code) \in OwnerMessages
    BY <2>3 DEF RefuseAnswer, OwnerMessages, ErrorMessages
  <2>5. m = Error(code)
    BY <2>4, SentToOwner
  <2> QED BY <2>2, <2>5, TypeOf
<1>5. ASSUME OwnerTakes PROVE FALSE
  BY <1>5, TakenByOwner DEF OwnerTakes, ReceiveRequest, ReceiveAck, OwnerReceivesError
<1> QED BY <1>1, <1>2, <1>3, <1>4, <1>5, WireMoves

\* What the owner has not got any more, it has taken.
LEMMA ToOwnerFate ==
  ASSUME HandshakeTypeOK, HandshakeNext, NEW m \in Range(toOwner), m \notin Range(toOwner')
  PROVE  m = Head(toOwner) /\ OwnerTakes
<1>1. ASSUME OwnerTakes PROVE m = Head(toOwner)
  BY <1>1, TakenByOwner DEF OwnerTakes, ReceiveRequest, ReceiveAck, OwnerReceivesError
<1>2. ASSUME NEW n \in OwnerMessages, toOwner' = Append(toOwner, n) PROVE FALSE
  BY <1>2, SentToOwner
<1>3. ASSUME NEW g \in Newcomers, Ask(g) \/ ServeAck(g) PROVE FALSE
  <2>1. Ask(g) => SnapshotRequest(g) \in OwnerMessages /\ toOwner' = Append(toOwner, SnapshotRequest(g))
    BY DEF Ask, OwnerMessages, SnapshotRequests
  <2> DEFINE v == Head(fromGuest[g]).version
  <2>2. ServeAck(g) => /\ v \in Versions
                       /\ toOwner' = toOwner \/ toOwner' = Append(toOwner, AckOf(g, v))
    BY AckTaken, AckFacts DEF ServeAck
  <2> HIDE DEF v
  <2>3. v \in Versions => AckOf(g, v) \in OwnerMessages
    BY DEF AckOf, OwnerMessages, Acks
  <2> QED BY <1>2, <1>3, <2>1, <2>2, <2>3
<1>4. ASSUME RelayServes PROVE FALSE
  <2>1. \A code \in HandshakeErrorCodes : RefuseAnswer(code) =>
          Error(code) \in OwnerMessages /\ toOwner' = Append(toOwner, Error(code))
    BY DEF RefuseAnswer, OwnerMessages, ErrorMessages
  <2>2. UNCHANGED toOwner \/ \E code \in HandshakeErrorCodes : RefuseAnswer(code)
    BY <1>4, Refusals
  <2> QED BY <1>2, <2>1, <2>2
<1> QED BY <1>1, <1>3, <1>4, WireMoves

\* What the relay gets of the owner.
LEMMA FromOwnerOrigin ==
  ASSUME HandshakeTypeOK, HandshakeNext, NEW m \in Range(fromOwner'), m \notin Range(fromOwner)
  PROVE  /\ ReceiveRequest /\ m.version > 0
         /\ m.target = Head(toOwner).target
<1>1. ASSUME TakeSnapshot PROVE FALSE
  BY <1>1, AnswerTaken
<1>2. CASE ReceiveRequest
  <2> DEFINE g == Head(toOwner).target
             v == ProtocolVersion(snapshotVersion)
  <2>1. g \in Newcomers /\ v \in Versions /\ v > 0
    <3>1. g \in Newcomers
      BY <1>2, TakenByOwner, OwnerMessageCases DEF ReceiveRequest
    <3>2. snapshotVersion \in Versions
      BY VersionFacts DEF HandshakeTypeOK
    <3> QED BY <3>1, <3>2, VersionFacts
  <2>2. fromOwner' = fromOwner \/ fromOwner' = Append(fromOwner, Snapshot(g, v))
    BY <1>2 DEF ReceiveRequest
  <2> HIDE DEF g, v
  <2>3. Snapshot(g, v) \in Snapshots
    BY <2>1 DEF Snapshots
  <2>4. m = Snapshot(g, v)
    BY <2>2, <2>3, AnswerSent
  <2>5. m.version = v /\ m.target = g
    BY <2>4, TypeOf
  <2> QED BY <1>2, <2>1, <2>5 DEF g
<1> QED BY <1>1, <1>2, WireMoves

\* What a guest gets.
LEMMA ToGuestOrigin ==
  ASSUME HandshakeTypeOK, HandshakeNext, NEW h \in Newcomers,
         NEW m \in Range(toGuest'[h]), m \notin Range(toGuest[h])
  PROVE  /\ h \in live
         /\ \/ Timeout(h) /\ m = Error("snapshot_timeout")
            \/ ForwardSnapshot /\ serving # Nothing /\ m = serving.message
               /\ serving.message.target = h
            \/ ServeAck(h) /\ m.type = "error" /\ m.code # "snapshot_timeout"
<1>a. \A code \in HandshakeErrorCodes : Error(code) \in GuestMessages
  BY DEF GuestMessages, ErrorMessages
<1>b. /\ "invalid_message" \in HandshakeErrorCodes /\ "board_unavailable" \in HandshakeErrorCodes
      /\ "snapshot_timeout" \in HandshakeErrorCodes
  BY DEF HandshakeErrorCodes
<1>1. CASE toGuest'[h] = toGuest[h]
  BY <1>1
<1>2. CASE Timeout(h)
  BY <1>2, <1>a, <1>b, DeliveredFacts DEF Timeout
<1>3. ASSUME CloseGuest(h) PROVE FALSE
  BY <1>3, QueueTypes, EmptyQueue DEF CloseGuest
<1>4. CASE ServeAck(h)
  <2>1. h \in live
    BY <1>4 DEF ServeAck
  <2>2. ASSUME NEW code \in {"invalid_message", "board_unavailable"}, toGuest' = Delivered(h, Error(code))
        PROVE  m.type = "error" /\ m.code # "snapshot_timeout"
    <3>1. Range(toGuest'[h]) = Range(toGuest[h]) \cup {Error(code)}
      BY <1>a, <1>b, <2>1, <2>2, DeliveredFacts
    <3>2. m = Error(code)
      BY <3>1
    <3> QED BY <3>2, TypeOf
  <2>3. \/ toGuest' = toGuest \/ toGuest' = Delivered(h, Error("invalid_message"))
        \/ toGuest' = Delivered(h, Error("board_unavailable"))
    BY <1>4 DEF ServeAck
  <2> QED BY <1>4, <2>1, <2>2, <2>3
<1>5. ASSUME ReceiveSnapshot(h) \/ GuestReceivesError(h) PROVE FALSE
  BY <1>5, TakenByGuest DEF ReceiveSnapshot, GuestReceivesError
<1>6. CASE ForwardSnapshot
  <2> DEFINE g == serving.message.target
  <2>1. serving # Nothing
    BY <1>6 DEF ForwardSnapshot, Nothing
  <2>2. g \in Newcomers /\ serving.message \in GuestMessages
    BY <2>1, ServingFacts DEF GuestMessages
  <2>3. toGuest' = Delivered(g, serving.message)
    BY <1>6 DEF ForwardSnapshot
  <2> HIDE DEF g
  <2>4. g = h
    BY <2>2, <2>3, DeliveredFacts
  <2>5. h \in live /\ m = serving.message
    BY <2>2, <2>3, <2>4, DeliveredFacts
  <2> QED BY <1>6, <2>1, <2>4, <2>5 DEF g
<1> QED BY <1>1, <1>2, <1>3, <1>4, <1>5, <1>6, GuestMoves

\* What a guest has not got any more, it has taken, or it has gone.
LEMMA ToGuestFate ==
  ASSUME HandshakeTypeOK, HandshakeNext, NEW h \in Newcomers,
         NEW m \in Range(toGuest[h]), m \notin Range(toGuest'[h])
  PROVE  \/ h \notin live'
         \/ ReceiveSnapshot(h) /\ m.type = "board.snapshot"
         \/ GuestReceivesError(h) /\ m.type = "error"
<1>a. \A code \in HandshakeErrorCodes : Error(code) \in GuestMessages
  BY DEF GuestMessages, ErrorMessages
<1>b. /\ "invalid_message" \in HandshakeErrorCodes /\ "board_unavailable" \in HandshakeErrorCodes
      /\ "snapshot_timeout" \in HandshakeErrorCodes
  BY DEF HandshakeErrorCodes
<1>1. ASSUME NEW g \in Newcomers, NEW n \in GuestMessages, toGuest' = Delivered(g, n) PROVE FALSE
  <2>1. CASE g = h
    BY <1>1, <2>1, DeliveredFacts
  <2>2. CASE g # h
    BY <1>1, <2>2, DeliveredFacts
  <2> QED BY <2>1, <2>2
<1>2. ASSUME Timeout(h) PROVE FALSE
  BY <1>1, <1>2, <1>a, <1>b DEF Timeout
<1>3. ASSUME ServeAck(h) PROVE FALSE
  BY <1>1, <1>3, <1>a, <1>b DEF ServeAck
<1>4. ASSUME ForwardSnapshot PROVE FALSE
  <2>1. serving # Nothing
    BY <1>4 DEF ForwardSnapshot, Nothing
  <2>2. serving.message \in GuestMessages /\ serving.message.target \in Newcomers
    BY <2>1, ServingFacts DEF GuestMessages
  <2> QED BY <1>1, <1>4, <2>2 DEF ForwardSnapshot
<1>5. CloseGuest(h) => h \notin live'
  BY DEF CloseGuest
<1>6. CASE ReceiveSnapshot(h)
  BY <1>6, TakenByGuest DEF ReceiveSnapshot
<1>7. CASE GuestReceivesError(h)
  BY <1>7, TakenByGuest DEF GuestReceivesError
<1> QED BY <1>2, <1>3, <1>4, <1>5, <1>6, <1>7, GuestMoves

(***************************************************************************)
(* The invariant, conjunct by conjunct.                                    *)
(***************************************************************************)

LEMMA HandshakeFacts ==
  ASSUME HandshakeInv
  PROVE  /\ HandshakeTypeOK /\ ServingInv /\ VersionsInv /\ ErrorsHaveCause
         /\ \A g \in Newcomers : StageOf(g) /\ RequestOf(g) /\ LetInOf(g) /\ AwaitedOf(g)
BY DEF HandshakeInv, GuestsInv

\* A request for a guest is made when it is asked for.
LEMMA AskedMoves ==
  ASSUME HandshakeTypeOK, HandshakeNext, NEW h \in Newcomers, Asked(h)'
  PROVE  Asked(h) \/ Ask(h)
<1>1. PICK m \in Range(toOwner') : IsFor(m, "board.snapshot.request", h)
  BY DEF Asked, Holds
<1>2. CASE m \in Range(toOwner)
  BY <1>1, <1>2 DEF Asked, Holds
<1>3. CASE m \notin Range(toOwner)
  <2>1. PICK g \in Newcomers : Ask(g) /\ m = SnapshotRequest(g)
    BY <1>1, <1>3, ToOwnerOrigin DEF IsFor
  <2>2. g = h
    BY <1>1, <2>1, TypeOf DEF IsFor
  <2> QED BY <2>1, <2>2
<1> QED BY <1>2, <1>3

\* A snapshot for a guest is sent upon a request for it.
LEMMA AnsweredMoves ==
  ASSUME HandshakeTypeOK, HandshakeNext, NEW h \in Newcomers, Answered(h)'
  PROVE  Answered(h) \/ (ReceiveRequest /\ IsFor(Head(toOwner), "board.snapshot.request", h))
<1>1. PICK m \in Range(fromOwner') : IsFor(m, "board.snapshot", h)
  BY DEF Answered, Holds
<1>2. CASE m \in Range(fromOwner)
  BY <1>1, <1>2 DEF Answered, Holds
<1>3. CASE m \notin Range(fromOwner)
  <2>1. ReceiveRequest /\ m.target = Head(toOwner).target
    BY <1>3, FromOwnerOrigin
  <2>2. Head(toOwner).type = "board.snapshot.request"
    BY <2>1 DEF ReceiveRequest, OwnerReceives
  <2> QED BY <1>1, <2>1, <2>2 DEF IsFor
<1> QED BY <1>2, <1>3

LEMMA HeadAsked ==
  ASSUME HandshakeTypeOK, ReceiveRequest, NEW h, IsFor(Head(toOwner), "board.snapshot.request", h)
  PROVE  Asked(h)
<1>1. Head(toOwner) \in Range(toOwner)
  BY TakenByOwner DEF ReceiveRequest
<1> QED BY <1>1 DEF Asked, Holds

LEMMA HeadAnswered ==
  ASSUME HandshakeTypeOK, TakeSnapshot
  PROVE  /\ Answered(Head(fromOwner).target) /\ Head(fromOwner) \in Range(fromOwner)
         /\ Head(fromOwner).target \in Newcomers
<1>1. Head(fromOwner) \in Range(fromOwner) /\ Head(fromOwner) \in Snapshots
  BY AnswerTaken
<1>2. Head(fromOwner).type = "board.snapshot" /\ Head(fromOwner).target \in Newcomers
  BY <1>1, SnapshotFacts
<1> QED BY <1>1, <1>2 DEF Answered, Holds, IsFor

\* One request and one snapshot of each guest at a time.
LEMMA OneRequestStep ==
  ASSUME HandshakeTypeOK, HandshakeNext, NEW h \in Newcomers, StageOf(h), RequestOf(h)
  PROVE  HoldsOne(toOwner, "board.snapshot.request", h)'
<1>a. toOwner \in Seq(OwnerMessages) /\ HoldsOne(toOwner, "board.snapshot.request", h)
  BY QueueTypes DEF RequestOf
<1>1. CASE UNCHANGED toOwner
  BY <1>a, <1>1 DEF HoldsOne
<1>2. CASE OwnerTakes
  <2>1. toOwner # << >> /\ toOwner' = Tail(toOwner)
    BY <1>2 DEF OwnerTakes, ReceiveRequest, ReceiveAck, OwnerReceivesError, OwnerReceives
  <2>2. HoldsOne(Tail(toOwner), "board.snapshot.request", h)
    BY <1>a, <2>1, OneTaken
  <2> QED BY <2>1, <2>2
<1>3. ASSUME NEW n \in OwnerMessages, toOwner' = Append(toOwner, n),
             ~IsFor(n, "board.snapshot.request", h) \/ ~Asked(h)
      PROVE  HoldsOne(toOwner, "board.snapshot.request", h)'
  <2>1. HoldsOne(Append(toOwner, n), "board.snapshot.request", h)
    BY <1>a, <1>3, OneAppended DEF Asked
  <2> QED BY <1>3, <2>1
<1>4. ASSUME NEW g \in Newcomers, Ask(g) PROVE HoldsOne(toOwner, "board.snapshot.request", h)'
  <2>1. SnapshotRequest(g) \in OwnerMessages /\ toOwner' = Append(toOwner, SnapshotRequest(g))
    BY <1>4 DEF Ask, OwnerMessages, SnapshotRequests
  <2>2. g # h => ~IsFor(SnapshotRequest(g), "board.snapshot.request", h)
    BY TypeOf DEF IsFor
  <2>3. g = h => ~Asked(h)
    BY <1>4 DEF Ask, RequestOf
  <2> QED BY <1>3, <2>1, <2>2, <2>3
<1>5. ASSUME NEW g \in Newcomers, ServeAck(g) PROVE HoldsOne(toOwner, "board.snapshot.request", h)'
  <2> DEFINE v == Head(fromGuest[g]).version
  <2>1. v \in Versions
    BY <1>5, AckTaken, AckFacts
  <2>2. toOwner' = toOwner \/ toOwner' = Append(toOwner, AckOf(g, v))
    BY <1>5 DEF ServeAck
  <2> HIDE DEF v
  <2>3. AckOf(g, v) \in OwnerMessages /\ ~IsFor(AckOf(g, v), "board.snapshot.request", h)
    BY <2>1, TypeOf DEF AckOf, OwnerMessages, Acks, IsFor
  <2> QED BY <1>1, <1>3, <2>2, <2>3
<1>6. ASSUME RelayServes PROVE HoldsOne(toOwner, "board.snapshot.request", h)'
  <2>1. UNCHANGED toOwner \/ \E code \in HandshakeErrorCodes : RefuseAnswer(code)
    BY <1>6, Refusals
  <2>2. ASSUME NEW code \in HandshakeErrorCodes, RefuseAnswer(code)
        PROVE  HoldsOne(toOwner, "board.snapshot.request", h)'
    <3>1. /\ Error(code) \in OwnerMessages /\ toOwner' = Append(toOwner, Error(code))
          /\ ~IsFor(Error(code), "board.snapshot.request", h)
      BY <2>2, TypeOf DEF RefuseAnswer, OwnerMessages, ErrorMessages, IsFor
    <3> QED BY <1>3, <3>1
  <2> QED BY <1>1, <2>1, <2>2
<1> QED BY <1>1, <1>2, <1>4, <1>5, <1>6, WireMoves

\* Once the owner has taken the request for a guest, there is none left.
LEMMA RequestTaken ==
  ASSUME HandshakeTypeOK, NEW h \in Newcomers, RequestOf(h), ReceiveRequest,
         IsFor(Head(toOwner), "board.snapshot.request", h)
  PROVE  ~Asked(h)'
<1>1. toOwner \in Seq(OwnerMessages) /\ toOwner # << >> /\ toOwner' = Tail(toOwner)
  BY QueueTypes DEF ReceiveRequest, OwnerReceives
<1>2. ~Holds(Tail(toOwner), "board.snapshot.request", h)
  BY <1>1, OneTaken DEF RequestOf
<1> QED BY <1>1, <1>2 DEF Asked

LEMMA AnswerTakenOnce ==
  ASSUME HandshakeTypeOK, NEW h \in Newcomers, RequestOf(h), TakeSnapshot
  PROVE  /\ HoldsOne(fromOwner, "board.snapshot", h)'
         /\ Head(fromOwner).target = h => ~Answered(h)'
<1>1. fromOwner \in Seq(Snapshots) /\ fromOwner # << >> /\ fromOwner' = Tail(fromOwner)
  BY QueueTypes DEF TakeSnapshot
<1>2. Head(fromOwner).target = h => IsFor(Head(fromOwner), "board.snapshot", h)
  BY AnswerTaken, SnapshotFacts DEF IsFor
<1>3. /\ HoldsOne(Tail(fromOwner), "board.snapshot", h)
      /\ Head(fromOwner).target = h => ~Holds(Tail(fromOwner), "board.snapshot", h)
  BY <1>1, <1>2, OneTaken DEF RequestOf
<1> QED BY <1>1, <1>3 DEF Answered

LEMMA OneAnswerStep ==
  ASSUME HandshakeTypeOK, HandshakeNext, NEW h \in Newcomers, RequestOf(h)
  PROVE  HoldsOne(fromOwner, "board.snapshot", h)'
<1>1. CASE UNCHANGED fromOwner
  BY <1>1 DEF HoldsOne, RequestOf
<1>2. CASE TakeSnapshot
  BY <1>2, AnswerTakenOnce
<1>3. CASE ReceiveRequest
  <2> DEFINE g == Head(toOwner).target
             v == ProtocolVersion(snapshotVersion)
  <2>1. g \in Newcomers /\ IsFor(Head(toOwner), "board.snapshot.request", g)
    BY <1>3, TakenByOwner, OwnerMessageCases DEF ReceiveRequest, IsFor
  <2>2. v \in Versions
    BY VersionFacts DEF HandshakeTypeOK
  <2>3. fromOwner' = fromOwner \/ fromOwner' = Append(fromOwner, Snapshot(g, v))
    BY <1>3 DEF ReceiveRequest
  <2>4. g = h => ~Answered(h)
    BY <1>3, <2>1, HeadAsked DEF RequestOf
  <2> HIDE DEF g, v
  <2>5. Snapshot(g, v) \in Snapshots /\ (g # h => ~IsFor(Snapshot(g, v), "board.snapshot", h))
    BY <2>1, <2>2, TypeOf DEF Snapshots, IsFor
  <2>6. fromOwner \in Seq(Snapshots) /\ HoldsOne(fromOwner, "board.snapshot", h)
    BY QueueTypes DEF RequestOf
  <2>7. HoldsOne(Append(fromOwner, Snapshot(g, v)), "board.snapshot", h)
    BY <2>4, <2>5, <2>6, OneAppended DEF Answered
  <2> QED BY <1>1, <2>3, <2>7
<1> QED BY <1>1, <1>2, <1>3, WireMoves

\* StageOf, RequestOf.
LEMMA StageStep ==
  ASSUME HandshakeInv, HandshakeNext, NEW h \in Newcomers
  PROVE  StageOf(h)'
<1>0. HandshakeTypeOK /\ StageOf(h) /\ RequestOf(h)
  BY HandshakeFacts
<1>1. stage'[h] = "away" =>
        /\ h \notin live' /\ h \notin pendingRequests'
        /\ toGuest'[h] = << >> /\ guestPhase'[h] = "connecting"
  <2> SUFFICES ASSUME stage'[h] = "away"
               PROVE  /\ h \notin live' /\ h \notin pendingRequests'
                      /\ toGuest'[h] = << >> /\ guestPhase'[h] = "connecting"
    OBVIOUS
  <2>1. stage[h] = "away" /\ ~Enter(h)
    BY <1>0, StageOnward
  <2>2. /\ h \notin live /\ h \notin pendingRequests
        /\ toGuest[h] = << >> /\ guestPhase[h] = "connecting"
    BY <1>0, <2>1 DEF StageOf
  <2>3. ~ReceiveSnapshot(h) /\ ~GuestReceivesError(h)
    BY <2>2 DEF ReceiveSnapshot, GuestReceivesError, GuestReceives
  <2>4. ~Timeout(h) /\ ~CloseGuest(h) /\ ~ServeAck(h)
    BY <2>2 DEF Timeout, CloseGuest, ServeAck
  <2>5. ForwardSnapshot => toGuest'[h] = toGuest[h]
    <3> SUFFICES ASSUME ForwardSnapshot PROVE toGuest'[h] = toGuest[h]
      OBVIOUS
    <3>1. serving # Nothing
      BY DEF ForwardSnapshot, Nothing
    <3>2. serving.message \in GuestMessages /\ serving.message.target \in Newcomers
      BY <1>0, <3>1, ServingFacts DEF GuestMessages
    <3>3. toGuest' = Delivered(serving.message.target, serving.message)
      BY DEF ForwardSnapshot
    <3>4. CASE serving.message.target = h
      BY <1>0, <2>2, <3>2, <3>3, <3>4, DeliveredFacts
    <3>5. CASE serving.message.target # h
      BY <1>0, <3>2, <3>3, <3>5, DeliveredFacts
    <3> QED BY <3>4, <3>5
  <2>6. h \notin live' /\ h \notin pendingRequests'
    BY <1>0, <2>1, <2>2, LiveMoves
  <2>7. toGuest'[h] = toGuest[h] /\ guestPhase'[h] = guestPhase[h]
    BY <1>0, <2>1, <2>3, <2>4, <2>5, GuestMoves
  <2> QED BY <2>2, <2>6, <2>7
<1>2. stage'[h] \in {"joined", "asked"} <=> h \in registered'
  BY <1>0, StageMoves, LiveMoves DEF StageOf, Ask, ClearPending
<1>3. stage'[h] \in {"unregistered", "gone"} => h \notin live'
  <2>1. CASE Unregister(h)
    BY <1>0, <2>1, LiveMoves DEF Unregister, Enter
  <2>2. CASE ClearPending(h)
    BY <1>0, <2>2, LiveMoves DEF ClearPending, Enter, StageOf
  <2>3. CASE Enter(h) \/ Ask(h)
    BY <1>0, <2>3, LiveMoves DEF Ask, HandshakeTypeOK
  <2>4. CASE stage'[h] = stage[h] /\ ~Enter(h)
    BY <1>0, <2>4, LiveMoves DEF StageOf
  <2> QED BY <1>0, <2>1, <2>2, <2>3, <2>4, StageMoves
<1>4. stage'[h] = "joined" => IsOpen(h)'
  <2> SUFFICES ASSUME stage'[h] = "joined" PROVE IsOpen(h)'
    OBVIOUS
  <2>1. CASE Enter(h)
    BY <1>0, <2>1, LiveMoves DEF IsOpen
  <2>2. CASE ~Enter(h)
    <3>1. stage[h] = "joined"
      BY <1>0, <2>2, StageMoves
    <3>2. IsOpen(h) /\ ~Answered(h)
      BY <1>0, <3>1 DEF StageOf, RequestOf
    <3> QED BY <1>0, <3>2, OpenMoves, HeadAnswered
  <2> QED BY <2>1, <2>2
<1> QED BY <1>1, <1>2, <1>3, <1>4 DEF StageOf

LEMMA RequestStep ==
  ASSUME HandshakeInv, HandshakeNext, NEW h \in Newcomers
  PROVE  RequestOf(h)'
<1>0. HandshakeTypeOK /\ StageOf(h) /\ RequestOf(h)
  BY HandshakeFacts
<1>1. HoldsOne(toOwner, "board.snapshot.request", h)' /\ HoldsOne(fromOwner, "board.snapshot", h)'
  BY <1>0, OneRequestStep, OneAnswerStep
<1>2. Ask(h) => stage[h] = "joined" /\ stage'[h] = "asked" /\ fromOwner' = fromOwner
                /\ live' = live /\ pendingRequests' = pendingRequests
  BY <1>0 DEF Ask, HandshakeTypeOK
<1>3. Asked(h)' => ~Answered(h)'
  <2> SUFFICES ASSUME Asked(h)', Answered(h)' PROVE FALSE
    OBVIOUS
  <2>1. ~(ReceiveRequest /\ IsFor(Head(toOwner), "board.snapshot.request", h))
    BY <1>0, RequestTaken
  <2>2. Answered(h)
    BY <1>0, <2>1, AnsweredMoves
  <2>3. Ask(h)
    BY <1>0, <2>2, AskedMoves DEF RequestOf
  <2> QED BY <1>0, <1>2, <2>2, <2>3 DEF RequestOf
<1>4. Asked(h)' \/ Answered(h)' => stage'[h] \notin {"away", "joined"} /\ IsOpen(h)'
  <2> SUFFICES ASSUME Asked(h)' \/ Answered(h)'
               PROVE  stage'[h] \notin {"away", "joined"} /\ IsOpen(h)'
    OBVIOUS
  <2>1. CASE Ask(h)
    BY <1>0, <1>2, <2>1 DEF StageOf, IsOpen
  <2>2. CASE ~Ask(h)
    <3>1. Asked(h) \/ Answered(h)
      BY <1>0, <2>2, AskedMoves, AnsweredMoves, HeadAsked
    <3>2. stage[h] \notin {"away", "joined"} /\ IsOpen(h)
      BY <1>0, <3>1 DEF RequestOf
    <3>3. stage'[h] \notin {"away", "joined"}
      BY <1>0, <3>2, StageOnward
    <3>4. CASE TakeSnapshot /\ UNCHANGED toOwner /\ Head(fromOwner).target = h
      <4>1. Answered(h) /\ ~Answered(h)' /\ (Asked(h)' <=> Asked(h))
        BY <1>0, <3>4, HeadAnswered, AnswerTakenOnce DEF Asked
      <4> QED BY <1>0, <4>1 DEF RequestOf
    <3> QED BY <1>0, <3>2, <3>3, <3>4, OpenMoves
  <2> QED BY <2>1, <2>2
<1> QED BY <1>1, <1>3, <1>4 DEF RequestOf

\* ServingInv, VersionsInv.
LEMMA ServingStep ==
  ASSUME HandshakeInv, HandshakeNext
  PROVE  ServingInv'
<1>0. HandshakeTypeOK /\ ServingInv
  BY HandshakeFacts
<1> SUFFICES ASSUME serving' # Nothing
             PROVE  /\ stage'[serving'.message.target] \notin {"away", "joined"}
                    /\ serving'.message.target \notin pendingRequests'
  BY DEF ServingInv
<1>1. CASE TakeSnapshot
  <2> DEFINE g == Head(fromOwner).target
  <2>1. /\ stage' = stage /\ pendingRequests' = pendingRequests \ {g}
        /\ serving'.message = Head(fromOwner)
    BY <1>1 DEF TakeSnapshot, RefuseAnswer, PendingWithout
  <2>2. g \in Newcomers /\ Answered(g)
    BY <1>0, <1>1, HeadAnswered
  <2>3. stage[g] \notin {"away", "joined"}
    BY <2>2, HandshakeFacts DEF RequestOf
  <2> QED BY <2>1, <2>3
<1>2. ASSUME serving # Nothing, serving'.message = serving.message
      PROVE  /\ stage'[serving'.message.target] \notin {"away", "joined"}
             /\ serving'.message.target \notin pendingRequests'
  <2> DEFINE g == serving.message.target
  <2>1. g \in Newcomers /\ stage[g] \notin {"away", "joined"} /\ g \notin pendingRequests
    BY <1>0, <1>2, ServingFacts DEF ServingInv
  <2> HIDE DEF g
  <2>2. stage'[g] \notin {"away", "joined"} /\ g \notin pendingRequests'
    BY <1>0, <2>1, StageOnward, LiveMoves
  <2> QED BY <1>2, <2>2 DEF g
<1>3. CASE FindTarget \/ TouchForSnapshot
  BY <1>0, <1>2, <1>3, Proceeding DEF RefuseAnswer
<1>4. CASE ForwardSnapshot
  BY <1>4 DEF ForwardSnapshot, RefuseAnswer
<1>5. CASE UNCHANGED serving
  BY <1>2, <1>5
<1> QED BY <1>1, <1>3, <1>4, <1>5, WireMoves DEF RelayServes

LEMMA VersionsStep ==
  ASSUME HandshakeInv, HandshakeNext
  PROVE  VersionsInv'
<1>0. HandshakeTypeOK /\ VersionsInv
  BY HandshakeFacts
<1>1. ASSUME NEW m \in Range(fromOwner') PROVE m.version > 0
  BY <1>0, <1>1, FromOwnerOrigin DEF VersionsInv
<1>2. ASSUME NEW h \in Newcomers, NEW m \in Range(fromGuest'[h]) PROVE m.version > 0
  <2>1. CASE fromGuest'[h] = fromGuest[h]
    BY <1>0, <1>2, <2>1 DEF VersionsInv
  <2>2. CASE Unregister(h)
    <3>1. fromGuest'[h] = << >>
      BY <1>0, <2>2, QueueTypes DEF Unregister
    <3> QED BY <1>2, <3>1, EmptyQueue
  <2>3. CASE ServeAck(h)
    BY <1>0, <1>2, <2>3, AckTaken DEF VersionsInv
  <2>4. CASE ReceiveSnapshot(h)
    <3>1. PICK v \in Versions :
            v > 0 /\ Range(fromGuest'[h]) = Range(fromGuest[h]) \cup {SnapshotAck(h, v)}
      BY <1>0, <2>4, AckSent
    <3> QED BY <1>0, <1>2, <3>1, TypeOf DEF VersionsInv
  <2> QED BY <1>0, <2>1, <2>2, <2>3, <2>4, GuestMoves
<1> QED BY <1>1, <1>2 DEF VersionsInv

\* LetInOf.
LEMMA LetInStep ==
  ASSUME HandshakeInv, HandshakeNext, NEW h \in Newcomers
  PROVE  LetInOf(h)'
<1>0. HandshakeTypeOK /\ StageOf(h) /\ LetInOf(h) /\ ServingInv
  BY HandshakeFacts
<1> DEFINE HasSnapshot == HoldsType(toGuest[h], "board.snapshot")
<1>a. Enter(h) => /\ toGuest[h] = << >> /\ toGuest'[h] = << >> /\ guestPhase'[h] # "ready"
  BY <1>0, LiveMoves DEF StageOf
<1>b. TimedOut(h)' => TimedOut(h) \/ Timeout(h)
  <2> SUFFICES ASSUME TimedOut(h)', ~TimedOut(h) PROVE Timeout(h)
    OBVIOUS
  <2>1. Error("snapshot_timeout") \in Range(toGuest'[h]) /\ Error("snapshot_timeout") \notin Range(toGuest[h])
    BY DEF TimedOut
  <2>2. Error("snapshot_timeout").type = "error" /\ Error("snapshot_timeout").code = "snapshot_timeout"
    BY TypeOf
  <2>3. serving # Nothing => serving.message.type = "board.snapshot"
    BY <1>0, ServingFacts, SnapshotFacts
  <2> QED BY <1>0, <2>1, <2>2, <2>3, ToGuestOrigin
<1>c. TimedOut(h)' => h \notin live'
  <2>1. ASSUME TimedOut(h) PROVE h \notin live'
    <3>1. h \notin live
      BY <1>0, <2>1 DEF LetInOf
    <3>2. ~Enter(h)
      BY <1>a, <2>1, EmptyQueue DEF TimedOut
    <3> QED BY <1>0, <3>1, <3>2, LiveMoves
  <2>2. Timeout(h) => h \notin live'
    BY DEF Timeout
  <2> QED BY <1>b, <2>1, <2>2
<1>d. HasSnapshot' => HasSnapshot \/ (h \in live /\ h \notin pendingRequests /\ ForwardSnapshot)
  <2> SUFFICES ASSUME HasSnapshot', ~HasSnapshot
               PROVE  h \in live /\ h \notin pendingRequests /\ ForwardSnapshot
    OBVIOUS
  <2>1. PICK m \in Range(toGuest'[h]) : m.type = "board.snapshot"
    BY DEF HoldsType
  <2>2. m \notin Range(toGuest[h])
    BY <2>1 DEF HoldsType
  <2>3. h \in live /\ ForwardSnapshot /\ serving # Nothing /\ serving.message.target = h
    BY <1>0, <2>1, <2>2, ToGuestOrigin, TypeOf
  <2> QED BY <1>0, <2>3 DEF ServingInv
<1>e. ReceiveSnapshot(h) => HasSnapshot
  BY <1>0, TakenByGuest DEF ReceiveSnapshot, HoldsType
<1>f. guestPhase'[h] = "ready" => guestPhase[h] = "ready" \/ ReceiveSnapshot(h)
  <2>1. GuestReceivesError(h) => guestPhase'[h] = "error"
    BY <1>0 DEF GuestReceivesError, HandshakeTypeOK
  <2> QED BY <1>0, <1>a, <2>1, GuestMoves
<1> HIDE DEF HasSnapshot
<1>1. guestPhase'[h] = "ready" => h \in unlocked'
  <2> SUFFICES ASSUME guestPhase'[h] = "ready" PROVE h \in unlocked'
    OBVIOUS
  <2>1. CASE ReceiveSnapshot(h)
    BY <2>1 DEF ReceiveSnapshot
  <2>2. CASE ~ReceiveSnapshot(h)
    <3>1. guestPhase[h] = "ready" /\ h \in unlocked
      BY <1>0, <1>f, <2>2 DEF LetInOf
    <3>2. ~GuestReceivesError(h)
      BY <1>0 DEF GuestReceivesError, HandshakeTypeOK
    <3> QED BY <1>0, <1>a, <2>2, <3>1, <3>2, GuestMoves
  <2> QED BY <2>1, <2>2
<1>2. h \in pendingRequests' \/ TimedOut(h)' => guestPhase'[h] # "ready" /\ ~HasSnapshot'
  <2> SUFFICES ASSUME h \in pendingRequests' \/ TimedOut(h)'
               PROVE  guestPhase'[h] # "ready" /\ ~HasSnapshot'
    OBVIOUS
  <2>1. CASE Enter(h)
    BY <1>a, <2>1, EmptyQueue DEF HasSnapshot, HoldsType
  <2>2. CASE ~Enter(h)
    <3>1. h \in pendingRequests \/ TimedOut(h) \/ Timeout(h)
      BY <1>0, <1>b, <2>2, LiveMoves
    <3>2. h \in pendingRequests \/ TimedOut(h)
      BY <3>1 DEF Timeout
    <3>3. guestPhase[h] # "ready" /\ ~HasSnapshot
      BY <1>0, <3>2 DEF LetInOf, HasSnapshot
    <3>4. h \notin live \/ h \in pendingRequests
      BY <1>0, <3>2 DEF LetInOf
    <3> QED BY <1>d, <1>e, <1>f, <3>3, <3>4
  <2> QED BY <2>1, <2>2
<1> QED BY <1>1, <1>2, <1>c DEF LetInOf, HasSnapshot

\* AwaitedOf.
LEMMA AwaitedStep ==
  ASSUME HandshakeInv, HandshakeNext, NEW h \in Newcomers
  PROVE  AwaitedOf(h)'
<1>0. HandshakeTypeOK /\ LetInOf(h) /\ RequestOf(h) /\ AwaitedOf(h) /\ VersionsInv
  BY HandshakeFacts
<1> SUFFICES ASSUME h \in live', guestPhase'[h] = "ready", h \in pendingTargets'
             PROVE  (Range(fromGuest[h]) # {} \/ HoldsType(toGuest[h], "error") \/ AckReturns(h))'
  BY DEF AwaitedOf
<1>1. CASE ReceiveSnapshot(h)
  BY <1>0, <1>1, AckSent
<1>2. CASE ~ReceiveSnapshot(h)
  <2>1. ~Enter(h) /\ ~GuestReceivesError(h)
    BY <1>0, LiveMoves DEF GuestReceivesError, HandshakeTypeOK
  <2>2. guestPhase[h] = "ready" /\ h \in live
    BY <1>0, <1>2, <2>1, GuestMoves, LiveMoves
  <2>3. h \in pendingTargets
    <3>1. CASE ReceiveRequest
      <4>1. ~IsFor(Head(toOwner), "board.snapshot.request", h)
        BY <1>0, <2>2, <3>1, HeadAsked DEF RequestOf, IsOpen, LetInOf
      <4>2. Head(toOwner).target # h
        BY <3>1, <4>1 DEF ReceiveRequest, OwnerReceives, IsFor
      <4> QED BY <3>1, <4>2 DEF ReceiveRequest
    <3>2. CASE ReceiveAck
      BY <3>2 DEF ReceiveAck
    <3> QED BY <3>1, <3>2, WireMoves
  <2>4. CASE \E v \in Versions : SnapshotAck(h, v) \in Range(toOwner)
    <3>1. PICK v \in Versions : SnapshotAck(h, v) \in Range(toOwner)
      BY <2>4
    <3>2. CASE SnapshotAck(h, v) \in Range(toOwner')
      BY <3>2 DEF AckReturns
    <3>3. ASSUME SnapshotAck(h, v) \notin Range(toOwner') PROVE FALSE
      <4>1. SnapshotAck(h, v) = Head(toOwner) /\ OwnerTakes
        BY <1>0, <3>1, <3>3, ToOwnerFate
      <4>2. Head(toOwner).type = "board.snapshot.ack" /\ Head(toOwner).actor = h
        BY <4>1, TypeOf
      <4>3. ReceiveAck
        BY <4>1, <4>2 DEF OwnerTakes, ReceiveRequest, OwnerReceivesError, OwnerReceives
      <4> QED BY <4>2, <4>3 DEF ReceiveAck
    <3> QED BY <3>2, <3>3
  <2>5. CASE HoldsType(toGuest[h], "error")
    <3>1. PICK m \in Range(toGuest[h]) : m.type = "error"
      BY <2>5 DEF HoldsType
    <3>2. m \in Range(toGuest'[h])
      BY <1>0, <1>2, <2>1, <3>1, ToGuestFate
    <3> QED BY <3>1, <3>2 DEF HoldsType
  <2>6. CASE Range(fromGuest[h]) # {}
    <3>1. CASE fromGuest'[h] = fromGuest[h]
      BY <2>6, <3>1
    <3>2. ~Unregister(h)
      BY <2>2 DEF Unregister
    <3>3. CASE ServeAck(h)
      <4> DEFINE v == Head(fromGuest[h]).version
      <4>1. v \in Versions
        BY <1>0, <3>3, AckTaken, AckFacts
      <4>2. \/ toOwner' = Append(toOwner, SnapshotAck(h, v))
            \/ toGuest' = Delivered(h, Error("board_unavailable"))
            \/ toGuest' = Delivered(h, Error("invalid_message"))
        BY <3>3 DEF ServeAck, AckOf
      <4> HIDE DEF v
      <4>3. CASE toOwner' = Append(toOwner, SnapshotAck(h, v))
        <5>1. SnapshotAck(h, v) \in OwnerMessages
          BY <4>1 DEF OwnerMessages, Acks
        <5>2. SnapshotAck(h, v) \in Range(toOwner')
          BY <1>0, <4>3, <5>1, SentToOwner
        <5> QED BY <4>1, <5>2 DEF AckReturns
      <4>4. ASSUME NEW code \in {"board_unavailable", "invalid_message"},
                   toGuest' = Delivered(h, Error(code))
            PROVE  HoldsType(toGuest'[h], "error")
        <5>1. Error(code) \in GuestMessages
          BY <4>4 DEF GuestMessages, ErrorMessages, HandshakeErrorCodes
        <5>2. Error(code) \in Range(toGuest'[h])
          BY <1>0, <2>2, <4>4, <5>1, DeliveredFacts
        <5> QED BY <5>2, TypeOf DEF HoldsType
      <4> QED BY <4>2, <4>3, <4>4
    <3> QED BY <1>0, <1>2, <3>1, <3>2, <3>3, GuestMoves
  <2> QED BY <1>0, <2>2, <2>3, <2>4, <2>5, <2>6 DEF AwaitedOf, AckReturns
<1> QED BY <1>1, <1>2

(***************************************************************************)
(* Errors.                                                                 *)
(***************************************************************************)

HasLeft(g) == g \notin live /\ stage[g] \in {"asked", "unregistered", "gone"}
Cause == expired \/ \E g \in Newcomers : HasLeft(g)

LEMMA ErrorsByCause ==
  ErrorsHaveCause <=> (ownerPhase = "error" \/ HoldsType(toOwner, "error") => Cause)
<1>1. OnItsWay(toOwner, "error") <=> HoldsType(toOwner, "error")
  BY DEF OnItsWay, HoldsType, Range
<1> QED BY <1>1 DEF ErrorsHaveCause, Cause, HasLeft

\* Whoever has left does not come back, and the board stays expired.
LEMMA CauseStays ==
  ASSUME HandshakeTypeOK, HandshakeNext, Cause
  PROVE  Cause'
<1>1. CASE expired
  BY <1>1, WireMoves DEF Cause, Expire
<1>2. ASSUME NEW g \in Newcomers, HasLeft(g) PROVE HasLeft(g)'
  <2>1. stage'[g] \notin {"away", "joined"} /\ ~Enter(g)
    BY <1>2, StageOnward DEF HasLeft
  <2>2. stage'[g] \in HandshakeStages
    BY TypeStep DEF HandshakeTypeOK
  <2>3. g \notin live'
    BY <1>2, <2>1, LiveMoves DEF HasLeft
  <2> QED BY <2>1, <2>2, <2>3 DEF HasLeft, HandshakeStages
<1> QED BY <1>1, <1>2 DEF Cause

\* Whoever is not awaited any more and was asked about has left.
LEMMA HasLeftWhen ==
  ASSUME HandshakeTypeOK, NEW g \in Newcomers, stage[g] \notin {"away", "joined"}, g \notin live
  PROVE  Cause
BY DEF Cause, HasLeft, HandshakeTypeOK, HandshakeStages

\* The relay refuses an answer of the owner for a cause.
LEMMA RefusalHasCause ==
  ASSUME HandshakeInv, RelayServes, NEW code, RefuseAnswer(code)
  PROVE  Cause
<1>0. HandshakeTypeOK /\ ServingInv /\ VersionsInv
  BY HandshakeFacts
<1>1. CASE TakeSnapshot
  <2> DEFINE g == Head(fromOwner).target
  <2>1. g \in Newcomers /\ Answered(g) /\ Head(fromOwner) \in Range(fromOwner)
    BY <1>0, <1>1, HeadAnswered
  <2>2. ValidSnapshot(Head(fromOwner))
    BY <1>0, <2>1 DEF VersionsInv, ValidSnapshot
  <2>3. stage[g] \notin {"away", "joined"} /\ IsOpen(g)
    BY <2>1, HandshakeFacts DEF RequestOf
  <2>4. g \notin pendingRequests
    BY <1>1, <2>2 DEF TakeSnapshot, RefuseAnswer, Nothing
  <2> QED BY <1>0, <2>1, <2>3, <2>4, HasLeftWhen DEF IsOpen
<1>2. ASSUME serving # Nothing
      PROVE  /\ serving.message.target \in Newcomers
             /\ stage[serving.message.target] \notin {"away", "joined"}
             /\ StageOf(serving.message.target)
  BY <1>0, <1>2, ServingFacts, HandshakeFacts DEF ServingInv
<1>3. CASE FindTarget \/ TouchForSnapshot
  <2> DEFINE g == serving.message.target
  <2>1. serving # Nothing /\ (expired \/ g \notin registered)
    BY <1>0, <1>3, Proceeding DEF RefuseAnswer
  <2>2. CASE expired
    BY <2>2 DEF Cause
  <2>3. CASE g \notin registered
    <3>1. g \in Newcomers /\ stage[g] \notin {"away", "joined"} /\ StageOf(g)
      BY <1>2, <2>1
    <3> HIDE DEF g
    <3>2. stage[g] \in {"unregistered", "gone"} /\ g \notin live
      BY <1>0, <2>3, <3>1 DEF StageOf, HandshakeTypeOK, HandshakeStages
    <3> QED BY <1>0, <3>1, <3>2, HasLeftWhen
  <2> QED BY <2>1, <2>2, <2>3
<1>4. CASE ForwardSnapshot
  <2>1. serving # Nothing
    BY <1>4 DEF ForwardSnapshot, Nothing
  <2>2. serving.message.target \notin live
    <3>1. toOwner # Append(toOwner, Error(code))
      <4>1. toOwner \in Seq(OwnerMessages)
        BY <1>0, QueueTypes
      <4> QED BY <4>1
    <3> QED BY <1>4, <3>1 DEF ForwardSnapshot, RefuseAnswer
  <2> QED BY <1>0, <1>2, <2>1, <2>2, HasLeftWhen
<1> QED BY <1>1, <1>3, <1>4 DEF RelayServes

LEMMA ErrorsStep ==
  ASSUME HandshakeInv, HandshakeNext
  PROVE  ErrorsHaveCause'
<1>0. HandshakeTypeOK /\ ErrorsHaveCause
  BY HandshakeFacts
<1>1. ASSUME ownerPhase = "error" \/ HoldsType(toOwner, "error") PROVE Cause'
  BY <1>0, <1>1, ErrorsByCause, CauseStays
<1>2. ASSUME ownerPhase' = "error", ownerPhase # "error" PROVE Cause'
  <2>1. OwnerReceivesError
    BY <1>2, WireMoves
  <2>2. Head(toOwner) \in Range(toOwner) /\ Head(toOwner).type = "error"
    BY <1>0, <2>1, TakenByOwner DEF OwnerReceivesError
  <2> QED BY <1>1, <2>2 DEF HoldsType
<1>3. ASSUME HoldsType(toOwner, "error")', ~HoldsType(toOwner, "error") PROVE Cause'
  <2>1. PICK m \in Range(toOwner') : m.type = "error"
    BY <1>3 DEF HoldsType
  <2>2. m \notin Range(toOwner)
    BY <1>3, <2>1 DEF HoldsType
  <2>3. RelayServes /\ \E code \in HandshakeErrorCodes : RefuseAnswer(code)
    BY <1>0, <2>1, <2>2, ToOwnerOrigin, TypeOf
  <2> QED BY <1>0, <2>3, RefusalHasCause, CauseStays
<1>4. ownerPhase' = "error" \/ HoldsType(toOwner, "error")' => Cause'
  BY <1>1, <1>2, <1>3
<1>5. OnItsWay(toOwner, "error")' <=> HoldsType(toOwner, "error")'
  BY DEF OnItsWay, HoldsType, Range
<1> QED BY <1>4, <1>5 DEF ErrorsHaveCause, Cause, HasLeft

(***************************************************************************)
(* The theorems.                                                           *)
(***************************************************************************)

LEMMA HandshakeInvInit == HandshakeInit => HandshakeInv
<1> SUFFICES ASSUME HandshakeInit PROVE HandshakeInv
  OBVIOUS
<1>1. HandshakeTypeOK
  <2>1. \A S : << >> \in Seq(S)
    OBVIOUS
  <2>2. serving \in Steps /\ toOwner = << >> /\ fromOwner = << >>
    BY DEF HandshakeInit, Steps
  <2>3. /\ toGuest \in [Newcomers -> Seq(Snapshots \cup ErrorMessages)]
        /\ fromGuest \in [Newcomers -> Seq(Acks)]
    BY <2>1 DEF HandshakeInit
  <2>4. snapshotVersion \in 0 .. MaxVersion
    BY HandshakeAssumption DEF HandshakeInit
  <2> QED BY <2>1, <2>2, <2>3, <2>4 DEF HandshakeInit, HandshakeTypeOK, HandshakeStages
<1>2. ASSUME NEW g \in Newcomers PROVE StageOf(g) /\ RequestOf(g) /\ LetInOf(g) /\ AwaitedOf(g)
  <2>1. StageOf(g)
    BY DEF HandshakeInit, StageOf
  <2>2. RequestOf(g)
    BY EmptyQueue DEF HandshakeInit, RequestOf, HoldsOne, Asked, Answered, Holds
  <2>3. LetInOf(g) /\ AwaitedOf(g)
    BY EmptyQueue DEF HandshakeInit, LetInOf, AwaitedOf, TimedOut
  <2> QED BY <2>1, <2>2, <2>3
<1>3. ServingInv /\ VersionsInv
  BY EmptyQueue DEF HandshakeInit, ServingInv, VersionsInv
<1>4. ErrorsHaveCause
  BY DEF HandshakeInit, ErrorsHaveCause, OnItsWay
<1> QED BY <1>1, <1>2, <1>3, <1>4 DEF HandshakeInv, GuestsInv

LEMMA HandshakeInvStutter ==
  ASSUME HandshakeInv, UNCHANGED handshakeVars
  PROVE  HandshakeInv'
<1> USE DEF handshakeVars, relayVars, ownerVars, guestVars, wires
<1>1. HandshakeTypeOK' /\ ServingInv' /\ VersionsInv' /\ ErrorsHaveCause'
  BY DEF HandshakeInv, HandshakeTypeOK, ServingInv, VersionsInv, ErrorsHaveCause
<1>2. ASSUME NEW g \in Newcomers PROVE (StageOf(g) /\ RequestOf(g) /\ LetInOf(g) /\ AwaitedOf(g))'
  BY HandshakeFacts
     DEF StageOf, RequestOf, LetInOf, AwaitedOf, IsOpen, Asked, Answered, TimedOut, AckReturns
<1> QED BY <1>1, <1>2 DEF HandshakeInv, GuestsInv

LEMMA HandshakeInvStep ==
  ASSUME HandshakeInv, HandshakeNext
  PROVE  HandshakeInv'
<1>1. HandshakeTypeOK'
  BY HandshakeFacts, TypeStep
<1>2. GuestsInv'
  BY StageStep, RequestStep, LetInStep, AwaitedStep DEF GuestsInv
<1> QED BY <1>1, <1>2, ServingStep, VersionsStep, ErrorsStep DEF HandshakeInv

(* What holds of the handshake at all times, whatever the number of guests and
   however their joining, timing out and leaving falls together. *)
THEOREM HandshakeAlwaysSound == HandshakeSpec => []HandshakeInv
<1>1. HandshakeInv /\ [HandshakeNext]_handshakeVars => HandshakeInv'
  BY HandshakeInvStep, HandshakeInvStutter
<1> QED BY <1>1, HandshakeInvInit, PTL DEF HandshakeSpec

(* The owner's controller is told of an error only if the board has expired or a
   guest that it was asked about has gone (createProtocolSnapshot,
   handleBoardSnapshot). *)
THEOREM ErrorsAlwaysHaveCause == HandshakeSpec => []ErrorsHaveCause
<1>1. HandshakeInv => ErrorsHaveCause
  BY DEF HandshakeInv
<1> QED BY <1>1, HandshakeAlwaysSound, PTL

(* A guest that was let in is neither waited for nor timed out
   (completePendingSnapshotRequest, failPendingSnapshotRequest). *)
THEOREM AlwaysLetInOnce == HandshakeSpec => []LetInOnce
<1>1. ASSUME HandshakeInv PROVE LetInOnce
  <2> SUFFICES ASSUME NEW g \in Newcomers, guestPhase[g] = "ready"
               PROVE  /\ g \in unlocked
                      /\ g \notin pendingRequests
                      /\ \A k \in DOMAIN toGuest[g] :
                           toGuest[g][k].type = "error" => toGuest[g][k].code # "snapshot_timeout"
    BY DEF LetInOnce
  <2>1. g \in unlocked /\ g \notin pendingRequests /\ ~TimedOut(g)
    BY <1>1, HandshakeFacts DEF LetInOf
  <2>2. ASSUME NEW k \in DOMAIN toGuest[g], toGuest[g][k].type = "error"
        PROVE  toGuest[g][k].code # "snapshot_timeout"
    <3>1. toGuest[g] \in Seq(GuestMessages)
      BY <1>1, HandshakeFacts, QueueTypes
    <3>2. toGuest[g][k] \in GuestMessages /\ toGuest[g][k] \in Range(toGuest[g])
      BY <3>1 DEF Range
    <3>3. toGuest[g][k] = Error(toGuest[g][k].code)
      BY <2>2, <3>2, GuestMessageCases
    <3> QED BY <2>1, <3>2, <3>3 DEF TimedOut
  <2> QED BY <2>1, <2>2
<1> QED BY <1>1, HandshakeAlwaysSound, PTL

(* Once all has arrived, the owner awaits nobody who was let in
   (handleBoardSnapshotAck of relay and owner). *)
THEOREM TargetsAlwaysAwaited == HandshakeSpec => []TargetsAreAwaited
<1>1. ASSUME HandshakeInv PROVE TargetsAreAwaited
  <2> SUFFICES ASSUME AllSettled, NEW g \in live, guestPhase[g] = "ready", g \in pendingTargets
               PROVE  FALSE
    BY DEF TargetsAreAwaited
  <2>1. g \in Newcomers /\ AwaitedOf(g)
    BY <1>1, HandshakeFacts DEF HandshakeTypeOK
  <2>2. toOwner = << >> /\ toGuest[g] = << >> /\ fromGuest[g] = << >>
    BY <2>1 DEF AllSettled
  <2> QED BY <2>1, <2>2, EmptyQueue DEF AwaitedOf, HoldsType, AckReturns
<1> QED BY <1>1, HandshakeAlwaysSound, PTL

(***************************************************************************)
(* The participant panels.                                                 *)
(***************************************************************************)

USE ParticipantsAssumption DEF Users

\* The kinds of messages are told apart.
LEMMA MessageKinds ==
  ASSUME NEW g \in Guests, NEW h \in Guests, NEW list
  PROVE  /\ Arrival(g) # Departure(h) /\ Arrival(g) # Roll(list) /\ Departure(g) # Roll(list)
         /\ Arrival(g) = Arrival(h) => g = h
         /\ Departure(g) = Departure(h) => g = h
         /\ Arrival(g) \in Messages /\ Departure(g) \in Messages
BY DEF Arrival, Departure, Roll, Messages

\* A message is of one of three kinds.
LEMMA MessageCases ==
  ASSUME NEW m \in Messages
  PROVE  \/ m.type = "session.joined" /\ m.list \in SUBSET Users /\ m = Roll(m.list)
         \/ m.type = "participant.joined" /\ m.actor \in Guests /\ m = Arrival(m.actor)
         \/ m.type = "participant.left" /\ m.actor \in Guests /\ m = Departure(m.actor)
BY DEF Messages, Arrival, Departure, Roll

\* What waits after a message has been posted.
LEMMA PostedWaits ==
  ASSUME inbox \in [Users -> Seq(Messages)], NEW u \in Users, NEW m \in Messages,
         inbox' = Posted(inbox, u, m)
  PROVE  /\ inbox' \in [Users -> Seq(Messages)]
         /\ \A v \in Users : v # u => inbox'[v] = inbox[v]
         /\ u \in open \cup {Owner} =>
              /\ Len(inbox'[u]) = Len(inbox[u]) + 1
              /\ DOMAIN inbox'[u] = DOMAIN inbox[u] \cup {Len(inbox[u]) + 1}
              /\ \A k \in DOMAIN inbox[u] : inbox'[u][k] = inbox[u][k]
              /\ inbox'[u][Len(inbox[u]) + 1] = m
         /\ u \notin open \cup {Owner} => inbox' = inbox
         /\ \A v \in Users : \A w : Waits(v, w)' => Waits(v, w) \/ (v = u /\ w = m)
         /\ \A v \in Users : \A w : Waits(v, w) => Waits(v, w)'
         /\ u \in open \cup {Owner} => Waits(u, m)'
<1>1. CASE u \notin open \cup {Owner}
  <2>1. inbox' = inbox
    BY <1>1 DEF Posted
  <2> QED BY <2>1, <1>1 DEF Waits
<1>2. CASE u \in open \cup {Owner}
  <2>1. inbox' = [inbox EXCEPT ![u] = Append(@, m)]
    BY <1>2 DEF Posted
  <2>2. inbox[u] \in Seq(Messages) /\ inbox'[u] = Append(inbox[u], m)
    BY <2>1
  <2>3. /\ inbox'[u] \in Seq(Messages)
        /\ Len(inbox'[u]) = Len(inbox[u]) + 1
        /\ DOMAIN inbox'[u] = DOMAIN inbox[u] \cup {Len(inbox[u]) + 1}
        /\ \A k \in DOMAIN inbox[u] : inbox'[u][k] = inbox[u][k]
        /\ inbox'[u][Len(inbox[u]) + 1] = m
    BY <2>2, AppendProperties
  <2>4. inbox' \in [Users -> Seq(Messages)] /\ \A v \in Users : v # u => inbox'[v] = inbox[v]
    BY <2>1, <2>3
  <2>5. \A v \in Users : \A w : Waits(v, w)' => Waits(v, w) \/ (v = u /\ w = m)
    BY <2>3, <2>4 DEF Waits
  <2>6. \A v \in Users : \A w : Waits(v, w) => Waits(v, w)'
    <3> SUFFICES ASSUME NEW v \in Users, NEW w, NEW k \in DOMAIN inbox[v], inbox[v][k] = w
                 PROVE  \E n \in DOMAIN inbox'[v] : inbox'[v][n] = w
      BY DEF Waits
    <3>1. CASE v = u
      BY <3>1, <2>3
    <3>2. CASE v # u
      BY <3>2, <2>4
    <3> QED BY <3>1, <3>2
  <2>7. Waits(u, m)'
    BY <2>3 DEF Waits
  <2> QED BY <1>2, <2>3, <2>4, <2>5, <2>6, <2>7
<1> QED BY <1>1, <1>2

\* What waits after the first message has been taken.
LEMMA TailWaits ==
  ASSUME inbox \in [Users -> Seq(Messages)], NEW u \in Users, inbox[u] # << >>,
         inbox' = [inbox EXCEPT ![u] = Tail(@)]
  PROVE  /\ inbox' \in [Users -> Seq(Messages)]
         /\ \A v \in Users : v # u => inbox'[v] = inbox[v]
         /\ Head(inbox[u]) \in Messages
         /\ \A k \in DOMAIN inbox'[u] : k + 1 \in DOMAIN inbox[u] /\ inbox'[u][k] = inbox[u][k + 1]
         /\ \A k \in DOMAIN inbox[u] : k = 1 \/ k - 1 \in DOMAIN inbox'[u]
         /\ \A v \in Users : \A w : Waits(v, w)' => Waits(v, w)
         /\ \A v \in Users : \A w : Waits(v, w) => Waits(v, w)' \/ (v = u /\ w = Head(inbox[u]))
         /\ 1 \in DOMAIN inbox[u] /\ Head(inbox[u]) = inbox[u][1]
<1>1. inbox[u] \in Seq(Messages) /\ inbox'[u] = Tail(inbox[u])
  OBVIOUS
<1>2. /\ Tail(inbox[u]) \in Seq(Messages) /\ Head(inbox[u]) \in Messages
      /\ Len(Tail(inbox[u])) = Len(inbox[u]) - 1 /\ Len(inbox[u]) \in Nat
      /\ Len(inbox[u]) > 0
      /\ \A k \in 1 .. Len(Tail(inbox[u])) : Tail(inbox[u])[k] = inbox[u][k + 1]
      /\ Head(inbox[u]) = inbox[u][1]
  BY <1>1, HeadTailProperties, EmptySeq, LenProperties
<1>3. DOMAIN inbox[u] = 1 .. Len(inbox[u]) /\ DOMAIN inbox'[u] = 1 .. (Len(inbox[u]) - 1)
  BY <1>1, <1>2
<1>4. /\ inbox' \in [Users -> Seq(Messages)]
      /\ \A v \in Users : v # u => inbox'[v] = inbox[v]
  BY <1>1, <1>2
<1>5. /\ \A k \in DOMAIN inbox'[u] : k + 1 \in DOMAIN inbox[u] /\ inbox'[u][k] = inbox[u][k + 1]
      /\ \A k \in DOMAIN inbox[u] : k = 1 \/ (k - 1 \in DOMAIN inbox'[u] /\ inbox'[u][k - 1] = inbox[u][k])
      /\ 1 \in DOMAIN inbox[u]
  BY <1>1, <1>2, <1>3
<1>6. \A v \in Users : \A w : Waits(v, w)' => Waits(v, w)
  BY <1>4, <1>5 DEF Waits
<1>7. \A v \in Users : \A w : Waits(v, w) => Waits(v, w)' \/ (v = u /\ w = Head(inbox[u]))
  <2> SUFFICES ASSUME NEW v \in Users, NEW w, NEW k \in DOMAIN inbox[v], inbox[v][k] = w,
                      ~(v = u /\ w = Head(inbox[u]))
               PROVE  \E n \in DOMAIN inbox'[v] : inbox'[v][n] = w
    BY DEF Waits
  <2>1. CASE v = u
    BY <2>1, <1>2, <1>5
  <2>2. CASE v # u
    BY <2>2, <1>4
  <2> QED BY <2>1, <2>2
<1> QED BY <1>2, <1>4, <1>5, <1>6, <1>7

\* Where the goroutine of a guest may be next.
LEMMA GoesOn ==
  ASSUME NEW g \in Guests, NEW from \in Stages, NEW to \in Stages,
         pc \in [Guests -> Stages], Goes(g, from, to)
  PROVE  /\ pc' \in [Guests -> Stages] /\ pc[g] = from /\ pc'[g] = to /\ IsIdle(g)
         /\ \A h \in Guests : h # g => pc'[h] = pc[h]
BY DEF Goes

LEMMA TypeInductive == ParticipantsTypeOK /\ PanelsNext => ParticipantsTypeOK'
<1> SUFFICES ASSUME ParticipantsTypeOK, PanelsNext
             PROVE  ParticipantsTypeOK'
  OBVIOUS
<1> USE DEF ParticipantsTypeOK
<1>1. ASSUME NEW g \in Guests, JoinLookup(g)
      PROVE  ParticipantsTypeOK'
  BY <1>1, GoesOn DEF JoinLookup, Stages
<1>2. ASSUME NEW g \in Guests, JoinStore(g)
      PROVE  ParticipantsTypeOK'
  BY <1>2, GoesOn DEF JoinStore, Joined, Stages
<1>3. ASSUME NEW g \in Guests, JoinRegister(g)
      PROVE  ParticipantsTypeOK'
  BY <1>3, GoesOn DEF JoinRegister, Stages
<1>4. ASSUME NEW g \in Guests, JoinReply(g)
      PROVE  ParticipantsTypeOK'
  <2>1. pc' \in [Guests -> Stages]
    BY <1>4, GoesOn DEF JoinReply, Stages
  <2>2. Roll(told[g]) \in Messages
    BY DEF Messages
  <2>3. inbox' \in [Users -> Seq(Messages)]
    BY <1>4, <2>2, PostedWaits DEF JoinReply
  <2> QED BY <1>4, <2>1, <2>3 DEF JoinReply
<1>5. ASSUME NEW g \in Guests, JoinAnnounce(g)
      PROVE  ParticipantsTypeOK'
  <2>1. [message |-> Arrival(g), recipients |-> Others(g)] \in Broadcasts
    BY MessageKinds DEF Broadcasts, Others
  <2> QED BY <1>5, <2>1, GoesOn DEF JoinAnnounce, Broadcast, Stages
<1>6. ASSUME NEW g \in Guests, Close(g)
      PROVE  ParticipantsTypeOK'
  BY <1>6 DEF Close
<1>7. ASSUME NEW g \in Guests, Leave(g)
      PROVE  ParticipantsTypeOK'
  BY <1>7, GoesOn DEF Leave, Stages
<1>8. ASSUME NEW g \in Guests, LeaveStore(g)
      PROVE  ParticipantsTypeOK'
  BY <1>8, GoesOn DEF LeaveStore, Stages
<1>9. ASSUME NEW g \in Guests, LeaveBroadcast(g)
      PROVE  ParticipantsTypeOK'
  <2>1. [message |-> Departure(g), recipients |-> Others(g)] \in Broadcasts
    BY MessageKinds DEF Broadcasts, Others
  <2> QED BY <1>9, <2>1, GoesOn DEF LeaveBroadcast, Broadcast, Stages
<1>10. ASSUME NEW g \in Guests, NEW u \in Users, Write(g, u)
       PROVE  ParticipantsTypeOK'
  <2>1. sending[g] \in Broadcasts /\ sending[g].recipients # {}
    BY <1>10 DEF Write
  <2>2. sending[g].message \in Messages /\ sending[g].recipients \subseteq Users
    BY <2>1 DEF Broadcasts, Idle
  <2>3. inbox' \in [Users -> Seq(Messages)]
    BY <1>10, <2>2, PostedWaits DEF Write
  <2>4. Without(sending[g], u) \in Broadcasts
    BY <2>1, <2>2 DEF Broadcasts, Idle, Without
  <2>5. sending' \in [Guests -> Broadcasts]
    BY <1>10, <2>4 DEF Write, Broadcasts
  <2> QED BY <1>10, <2>3, <2>5 DEF Write
<1>11. ASSUME NEW u \in Users, Receive(u)
       PROVE  ParticipantsTypeOK'
  <2>1. inbox[u] # << >> /\ inbox' = [inbox EXCEPT ![u] = Tail(@)]
    BY <1>11 DEF Receive
  <2>2. inbox' \in [Users -> Seq(Messages)] /\ Head(inbox[u]) \in Messages
    BY <2>1, TailWaits
  <2>3. Shown(panel[u], Head(inbox[u])) \in SUBSET Users
    BY <2>2, MessageCases DEF Shown
  <2> QED BY <1>11, <2>2, <2>3 DEF Receive
<1> QED
  BY <1>1, <1>2, <1>3, <1>4, <1>5, <1>6, <1>7, <1>8, <1>9, <1>10, <1>11 DEF PanelsNext

\* What a broadcast that goes on looks like.
LEMMA WriteFacts ==
  ASSUME ParticipantsTypeOK, NEW g \in Guests, NEW u \in Users, Write(g, u)
  PROVE  /\ sending[g].message \in Messages /\ ~IsIdle(g) /\ u \in sending[g].recipients
         /\ inbox' = Posted(inbox, u, sending[g].message)
         /\ sending'[g].recipients = sending[g].recipients \ {u}
         /\ ~IsIdle(g)' => sending'[g].message = sending[g].message
         /\ \A h \in Guests : h # g => sending'[h] = sending[h]
<1>1. sending[g] \in Broadcasts /\ sending[g].recipients # {} /\ u \in sending[g].recipients
  BY DEF Write, ParticipantsTypeOK
<1>2. sending[g] \in [message : Messages, recipients : SUBSET Users]
  BY <1>1 DEF Broadcasts, Idle
<1>3. /\ sending'[g] = Without(sending[g], u)
      /\ \A h \in Guests : h # g => sending'[h] = sending[h]
  BY DEF Write, ParticipantsTypeOK
<1>4. /\ Without(sending[g], u).recipients = sending[g].recipients \ {u}
      /\ Without(sending[g], u).recipients # {} =>
           Without(sending[g], u).message = sending[g].message
  BY <1>2 DEF Without, Idle
<1> QED BY <1>1, <1>2, <1>3, <1>4 DEF Write, IsIdle

\* What waits in queues comes from broadcasts and answers.
LEMMA DeparturesInductive == PanelsInv /\ PanelsNext => DeparturesAreTrue'
<1> SUFFICES ASSUME PanelsInv, PanelsNext, NEW v \in Users, NEW h \in Guests, Waits(v, Departure(h))'
             PROVE  pc'[h] = "gone"
  BY DEF DeparturesAreTrue
<1> USE DEF PanelsInv, ParticipantsTypeOK
<1>1. Waits(v, Departure(h)) => pc[h] = "gone"
  BY DEF DeparturesAreTrue
<1>2. pc[h] = "gone" => pc'[h] = "gone"
  BY DEF PanelsNext, JoinLookup, JoinStore, JoinRegister, JoinReply, JoinAnnounce, Close, Leave,
         LeaveStore, LeaveBroadcast, Write, Receive, Goes
<1>3. ASSUME NEW g \in Guests, JoinReply(g)
      PROVE  Waits(v, Departure(h))
  <2>1. Roll(told[g]) \in Messages
    BY DEF Messages
  <2> QED BY <1>3, <2>1, PostedWaits, MessageKinds DEF JoinReply
<1>4. ASSUME NEW g \in Guests, NEW u \in Users, Write(g, u), ~Waits(v, Departure(h))
      PROVE  pc[h] = "gone"
  <2>1. sending[g].message = Departure(h) /\ ~IsIdle(g)
    BY <1>4, WriteFacts, PostedWaits
  <2>2. pc[g] = "gone" /\ sending[g].message = Departure(g)
    BY <2>1, MessageKinds DEF OwnerHears, Stages, Early
  <2> QED BY <2>1, <2>2, MessageKinds
<1>5. ASSUME NEW u \in Users, Receive(u)
      PROVE  Waits(v, Departure(h))
  BY <1>5, TailWaits DEF Receive
<1>6. ASSUME NEW g \in Guests, Close(g)
      PROVE  Waits(v, Departure(h))
  BY <1>6 DEF Close, Waits
<1>7. inbox' = inbox => Waits(v, Departure(h))
  BY DEF Waits
<1> QED
  BY <1>1, <1>2, <1>3, <1>4, <1>5, <1>6, <1>7
     DEF PanelsNext, JoinLookup, JoinStore, JoinRegister, JoinAnnounce, Leave, LeaveStore, LeaveBroadcast

LEMMA StoreInductive == PanelsInv /\ PanelsNext => StoreOrders'
<1> SUFFICES ASSUME PanelsInv, PanelsNext
             PROVE  StoreOrders'
  OBVIOUS
<1> USE DEF PanelsInv, ParticipantsTypeOK, StoreOrders
<1>1. ASSUME NEW g \in Guests, JoinStore(g)
      PROVE  StoreOrders'
  <2>1. /\ pc[g] = "looked" /\ pc'[g] = "stored"
        /\ \A h \in Guests : h # g => pc'[h] = pc[h]
        /\ participants' = participants \cup {g}
        /\ told'[g] = participants \cup {g}
        /\ \A h \in Guests : h # g => told'[h] = told[h]
    BY <1>1 DEF JoinStore, Goes, Joined
  <2> QED BY <2>1 DEF Inside
<1>2. ASSUME NEW g \in Guests, LeaveStore(g)
      PROVE  StoreOrders'
  <2>1. /\ pc[g] = "unregistered" /\ pc'[g] = "removed"
        /\ \A h \in Guests : h # g => pc'[h] = pc[h]
        /\ participants' = participants \ {g} /\ told' = told
    BY <1>2 DEF LeaveStore, Goes
  <2> QED BY <2>1 DEF Inside
<1>3. ASSUME UNCHANGED <<participants, told>>,
             \A h \in Guests : pc'[h] \in Inside => pc[h] \in Inside
      PROVE  StoreOrders'
  BY <1>3
<1>4. ASSUME NEW g \in Guests,
             \/ JoinLookup(g) \/ JoinRegister(g) \/ JoinReply(g) \/ JoinAnnounce(g) \/ Close(g)
             \/ Leave(g) \/ LeaveBroadcast(g) \/ \E u \in Users : Write(g, u)
      PROVE  StoreOrders'
  BY <1>3, <1>4 DEF JoinLookup, JoinRegister, JoinReply, JoinAnnounce, Close, Leave, LeaveBroadcast,
                    Write, Goes, Inside
<1>5. ASSUME NEW u \in Users, Receive(u)
      PROVE  StoreOrders'
  BY <1>3, <1>5 DEF Receive
<1> QED BY <1>1, <1>2, <1>4, <1>5 DEF PanelsNext

\* The owner's part of OwnerHears, for one guest.
Heard(g) ==
  /\ pc[g] \in Early =>
       IsIdle(g) /\ g \notin panel[Owner] /\ ~Waits(Owner, Arrival(g))
  /\ pc[g] \in {"joined", "unregistered", "removed"} =>
       /\ IsIdle(g) \/ sending[g].message = Arrival(g)
       /\ g \in open =>
            \/ g \in panel[Owner] \/ Waits(Owner, Arrival(g))
            \/ Owner \in sending[g].recipients
  /\ pc[g] = "gone" =>
       /\ IsIdle(g) \/ sending[g].message = Departure(g)
       /\ \/ Owner \in sending[g].recipients
          \/ \E k \in DOMAIN inbox[Owner] :
               /\ inbox[Owner][k] = Departure(g)
               /\ \A n \in DOMAIN inbox[Owner] : n > k => inbox[Owner][n] # Arrival(g)
          \/ g \notin panel[Owner] /\ ~Waits(Owner, Arrival(g))

Minded == Owner \in connections /\ Owner \in panel[Owner]
NoRollForOwner == \A k \in DOMAIN inbox[Owner] : inbox[Owner][k].type # "session.joined"

LEMMA HeardIs == OwnerHears <=> Minded /\ NoRollForOwner /\ \A g \in Guests : Heard(g)
BY DEF OwnerHears, Heard, Minded, NoRollForOwner

\* A guest of whom nothing changes is heard of as before.
LEMMA HeardKept ==
  ASSUME NEW g \in Guests, Heard(g), pc'[g] = pc[g], sending'[g] = sending[g],
         g \in open' => g \in open,
         inbox'[Owner] = inbox[Owner], panel'[Owner] = panel[Owner]
  PROVE  Heard(g)'
BY DEF Heard, IsIdle, Waits

\* A message about somebody else, or to somebody else, changes nothing.
LEMMA HeardPosted ==
  ASSUME ParticipantsTypeOK, NEW g \in Guests, Heard(g), NEW u \in Users, NEW m \in Messages,
         inbox' = Posted(inbox, u, m), u # Owner \/ m # Arrival(g),
         UNCHANGED <<open, panel>>, pc'[g] = pc[g], sending'[g] = sending[g]
  PROVE  Heard(g)'
<1> USE DEF ParticipantsTypeOK
<1>1. CASE u # Owner
  <2>1. inbox'[Owner] = inbox[Owner]
    BY <1>1, PostedWaits
  <2> QED BY <2>1, HeardKept
<1>2. CASE u = Owner /\ m # Arrival(g)
  <2>1. /\ Waits(Owner, Arrival(g))' <=> Waits(Owner, Arrival(g))
        /\ DOMAIN inbox'[Owner] = DOMAIN inbox[Owner] \cup {Len(inbox[Owner]) + 1}
        /\ \A k \in DOMAIN inbox[Owner] : inbox'[Owner][k] = inbox[Owner][k]
        /\ inbox'[Owner][Len(inbox[Owner]) + 1] = m
    BY <1>2, PostedWaits
  <2>2. ASSUME NEW k \in DOMAIN inbox[Owner], inbox[Owner][k] = Departure(g),
               \A n \in DOMAIN inbox[Owner] : n > k => inbox[Owner][n] # Arrival(g)
        PROVE  \E j \in DOMAIN inbox'[Owner] :
                 /\ inbox'[Owner][j] = Departure(g)
                 /\ \A n \in DOMAIN inbox'[Owner] : n > j => inbox'[Owner][n] # Arrival(g)
    <3>1. k \in DOMAIN inbox'[Owner] /\ inbox'[Owner][k] = Departure(g)
      BY <2>1, <2>2
    <3>2. ASSUME NEW n \in DOMAIN inbox'[Owner], n > k
          PROVE  inbox'[Owner][n] # Arrival(g)
      BY <1>2, <2>1, <2>2, <3>2
    <3> QED BY <3>1, <3>2
  <2>3. IsIdle(g)' <=> IsIdle(g)
    BY DEF IsIdle
  <2> QED BY <2>1, <2>2, <2>3 DEF Heard
<1> QED BY <1>1, <1>2

LEMMA OwnerInductive == PanelsInv /\ PanelsNext => OwnerHears'
<1> SUFFICES ASSUME PanelsInv, PanelsNext
             PROVE  Minded' /\ NoRollForOwner' /\ \A h \in Guests : Heard(h)'
  BY HeardIs DEF OwnerHears, Heard, Minded, NoRollForOwner
<1>0. ParticipantsTypeOK /\ Minded /\ NoRollForOwner /\ \A h \in Guests : Heard(h)
  BY HeardIs DEF PanelsInv
<1> USE DEF ParticipantsTypeOK
<1>1. ASSUME NEW g \in Guests,
             \/ JoinLookup(g) \/ JoinStore(g) \/ JoinRegister(g)
      PROVE  Minded' /\ NoRollForOwner' /\ \A h \in Guests : Heard(h)'
  <2>1. /\ pc[g] \in Early /\ pc'[g] \in Early
        /\ \A h \in Guests : h # g => pc'[h] = pc[h] /\ (h \in open' => h \in open)
        /\ UNCHANGED <<sending, inbox, panel>>
    BY <1>0, <1>1 DEF JoinLookup, JoinStore, JoinRegister, Goes, Early
  <2>2. Heard(g)'
    BY <1>0, <2>1 DEF Heard, Early, IsIdle, Waits
  <2>3. \A h \in Guests : h # g => Heard(h)'
    BY <1>0, <2>1, HeardKept
  <2>4. Minded' /\ NoRollForOwner'
    BY <1>0, <1>1, <2>1 DEF Minded, NoRollForOwner, JoinLookup, JoinStore, JoinRegister
  <2> QED BY <2>2, <2>3, <2>4
<1>2. ASSUME NEW g \in Guests, JoinReply(g)
      PROVE  Minded' /\ NoRollForOwner' /\ \A h \in Guests : Heard(h)'
  <2>1. /\ pc[g] = "registered" /\ IsIdle(g)
        /\ pc'[g] = "replied" \/ (pc'[g] = "joined" /\ g \notin open)
        /\ \A h \in Guests : h # g => pc'[h] = pc[h]
        /\ inbox' = Posted(inbox, g, Roll(told[g]))
        /\ UNCHANGED <<open, connections, sending, panel>>
    BY <1>0, <1>2 DEF JoinReply, Goes
  <2>2. inbox'[Owner] = inbox[Owner]
    <3>1. Roll(told[g]) \in Messages
      BY <1>0 DEF Messages
    <3> QED BY <1>0, <2>1, <3>1, PostedWaits
  <2>3. Heard(g)'
    BY <1>0, <2>1, <2>2 DEF Heard, Early, IsIdle, Waits
  <2>4. \A h \in Guests : h # g => Heard(h)'
    BY <1>0, <2>1, <2>2, HeardKept
  <2> QED BY <1>0, <2>1, <2>2, <2>3, <2>4 DEF Minded, NoRollForOwner
<1>3. ASSUME NEW g \in Guests, JoinAnnounce(g)
      PROVE  Minded' /\ NoRollForOwner' /\ \A h \in Guests : Heard(h)'
  <2>1. /\ pc[g] = "replied" /\ pc'[g] = "joined"
        /\ \A h \in Guests : h # g => pc'[h] = pc[h] /\ sending'[h] = sending[h]
        /\ sending'[g].message = Arrival(g) /\ sending'[g].recipients = Others(g)
        /\ UNCHANGED <<open, connections, inbox, panel>>
    BY <1>0, <1>3 DEF JoinAnnounce, Broadcast, Goes
  <2>2. Owner \in Others(g)
    BY <1>0 DEF Minded, Others
  <2>3. Heard(g)'
    BY <2>1, <2>2 DEF Heard, Early
  <2>4. \A h \in Guests : h # g => Heard(h)'
    BY <1>0, <2>1, HeardKept
  <2> QED BY <1>0, <2>1, <2>3, <2>4 DEF Minded, NoRollForOwner
<1>4. ASSUME NEW g \in Guests, Close(g)
      PROVE  Minded' /\ NoRollForOwner' /\ \A h \in Guests : Heard(h)'
  <2>1. /\ inbox'[Owner] = inbox[Owner] /\ open' \subseteq open
        /\ UNCHANGED <<pc, connections, sending, panel>>
    BY <1>0, <1>4 DEF Close
  <2>2. \A h \in Guests : Heard(h)'
    BY <1>0, <2>1, HeardKept
  <2> QED BY <1>0, <2>1, <2>2 DEF Minded, NoRollForOwner
<1>5. ASSUME NEW g \in Guests, Leave(g) \/ LeaveStore(g)
      PROVE  Minded' /\ NoRollForOwner' /\ \A h \in Guests : Heard(h)'
  <2>1. /\ pc[g] \in {"joined", "unregistered"} /\ pc'[g] \in {"unregistered", "removed"}
        /\ g \notin open \/ (pc[g] = "unregistered" /\ pc'[g] = "removed") 
        /\ \A h \in Guests : h # g => pc'[h] = pc[h]
        /\ UNCHANGED <<open, sending, inbox, panel>>
        /\ Owner \in connections' 
    BY <1>0, <1>5 DEF Leave, LeaveStore, Goes, Minded
  <2>2. Heard(g)'
    BY <1>0, <2>1 DEF Heard, Early, IsIdle, Waits
  <2>3. \A h \in Guests : h # g => Heard(h)'
    BY <1>0, <2>1, HeardKept
  <2> QED BY <1>0, <2>1, <2>2, <2>3 DEF Minded, NoRollForOwner
<1>6. ASSUME NEW g \in Guests, LeaveBroadcast(g)
      PROVE  Minded' /\ NoRollForOwner' /\ \A h \in Guests : Heard(h)'
  <2>1. /\ pc[g] = "removed" /\ pc'[g] = "gone"
        /\ \A h \in Guests : h # g => pc'[h] = pc[h] /\ sending'[h] = sending[h]
        /\ sending'[g].message = Departure(g) /\ sending'[g].recipients = Others(g)
        /\ UNCHANGED <<open, connections, inbox, panel>>
    BY <1>0, <1>6 DEF LeaveBroadcast, Broadcast, Goes
  <2>2. Owner \in Others(g)
    BY <1>0 DEF Minded, Others
  <2>3. Heard(g)'
    BY <2>1, <2>2 DEF Heard, Early
  <2>4. \A h \in Guests : h # g => Heard(h)'
    BY <1>0, <2>1, HeardKept
  <2> QED BY <1>0, <2>1, <2>3, <2>4 DEF Minded, NoRollForOwner
<1>7. ASSUME NEW g \in Guests, NEW u \in Users, Write(g, u)
      PROVE  Minded' /\ NoRollForOwner' /\ \A h \in Guests : Heard(h)'
  <2>1. /\ sending[g].message \in Messages /\ ~IsIdle(g) /\ u \in sending[g].recipients
        /\ inbox' = Posted(inbox, u, sending[g].message)
        /\ sending'[g].recipients = sending[g].recipients \ {u}
        /\ ~IsIdle(g)' => sending'[g].message = sending[g].message
        /\ \A h \in Guests : h # g => sending'[h] = sending[h]
        /\ UNCHANGED <<pc, open, connections, panel>>
    BY <1>0, <1>7, WriteFacts DEF Write
  <2>2. \/ pc[g] \in {"joined", "unregistered", "removed"} /\ sending[g].message = Arrival(g)
        \/ pc[g] = "gone" /\ sending[g].message = Departure(g)
    BY <1>0, <2>1 DEF Heard, Stages, Early
  <2>3. \A h \in Guests : h # g => Heard(h)'
    <3> SUFFICES ASSUME NEW h \in Guests, h # g
                 PROVE  Heard(h)'
      OBVIOUS
    <3>1. sending[g].message # Arrival(h)
      BY <2>2, MessageKinds
    <3> QED BY <1>0, <2>1, <3>1, HeardPosted
  <2>4. Heard(g)'
    <3>1. CASE u # Owner
      <4>1. inbox'[Owner] = inbox[Owner]
        BY <1>0, <2>1, <3>1, PostedWaits
      <4>2. Owner \in sending[g].recipients <=> Owner \in sending'[g].recipients
        BY <2>1, <3>1
      <4> QED BY <1>0, <2>1, <2>2, <4>1, <4>2 DEF Heard, Early, Waits
    <3>2. CASE u = Owner /\ pc[g] # "gone"
      <4>1. Waits(Owner, Arrival(g))'
        BY <1>0, <2>1, <2>2, <3>2, PostedWaits
      <4> QED BY <2>1, <2>2, <3>2, <4>1 DEF Heard, Early
    <3>3. CASE u = Owner /\ pc[g] = "gone"
      <4>1. /\ DOMAIN inbox'[Owner] = DOMAIN inbox[Owner] \cup {Len(inbox[Owner]) + 1}
            /\ inbox'[Owner][Len(inbox[Owner]) + 1] = Departure(g)
        BY <1>0, <2>1, <2>2, <3>3, PostedWaits
      <4>2. DOMAIN inbox[Owner] = 1 .. Len(inbox[Owner]) /\ Len(inbox[Owner]) \in Nat
        BY <1>0
      <4>3. \A n \in DOMAIN inbox'[Owner] : ~(n > Len(inbox[Owner]) + 1)
        BY <4>1, <4>2
      <4> QED BY <2>1, <2>2, <3>3, <4>1, <4>3 DEF Heard, Early
    <3> QED BY <3>1, <3>2, <3>3
  <2>5. NoRollForOwner'
    <3>1. sending[g].message.type # "session.joined"
      BY <2>2 DEF Arrival, Departure
    <3>2. CASE u = Owner
      <4>1. /\ DOMAIN inbox'[Owner] = DOMAIN inbox[Owner] \cup {Len(inbox[Owner]) + 1}
            /\ \A k \in DOMAIN inbox[Owner] : inbox'[Owner][k] = inbox[Owner][k]
            /\ inbox'[Owner][Len(inbox[Owner]) + 1] = sending[g].message
        BY <1>0, <2>1, <3>2, PostedWaits
      <4> QED BY <1>0, <3>1, <4>1 DEF NoRollForOwner
    <3>3. CASE u # Owner
      BY <1>0, <2>1, <3>3, PostedWaits DEF NoRollForOwner
    <3> QED BY <3>2, <3>3
  <2> QED BY <1>0, <2>1, <2>3, <2>4, <2>5 DEF Minded
<1>8. ASSUME NEW u \in Users, Receive(u), u # Owner
      PROVE  Minded' /\ NoRollForOwner' /\ \A h \in Guests : Heard(h)'
  <2>1. /\ inbox'[Owner] = inbox[Owner] /\ panel'[Owner] = panel[Owner]
        /\ UNCHANGED <<pc, open, connections, sending>>
    BY <1>0, <1>8 DEF Receive
  <2>2. \A h \in Guests : Heard(h)'
    BY <1>0, <2>1, HeardKept
  <2> QED BY <1>0, <2>1, <2>2 DEF Minded, NoRollForOwner
<1>9. ASSUME Receive(Owner)
      PROVE  Minded' /\ NoRollForOwner' /\ \A h \in Guests : Heard(h)'
  <2> DEFINE first == Head(inbox[Owner])
  <2>1. /\ inbox[Owner] # << >> /\ inbox' = [inbox EXCEPT ![Owner] = Tail(@)]
        /\ panel'[Owner] = Shown(panel[Owner], first)
        /\ UNCHANGED <<pc, open, connections, sending>>
    BY <1>0, <1>9 DEF Receive
  <2>2. /\ first \in Messages
        /\ \A k \in DOMAIN inbox'[Owner] :
             k + 1 \in DOMAIN inbox[Owner] /\ inbox'[Owner][k] = inbox[Owner][k + 1]
        /\ \A k \in DOMAIN inbox[Owner] : k = 1 \/ k - 1 \in DOMAIN inbox'[Owner]
        /\ \A w : Waits(Owner, w)' => Waits(Owner, w)
        /\ \A w : Waits(Owner, w) => Waits(Owner, w)' \/ w = first
        /\ 1 \in DOMAIN inbox[Owner] /\ first = inbox[Owner][1]
    BY <1>0, <2>1, TailWaits
  <2>3. /\ DOMAIN inbox[Owner] \subseteq Nat \ {0}
        /\ DOMAIN inbox'[Owner] \subseteq Nat \ {0}
    <3>1. inbox[Owner] \in Seq(Messages) /\ inbox'[Owner] \in Seq(Messages)
      BY <1>0, <2>1, TailWaits
    <3> QED BY <3>1
  <2>4. NoRollForOwner'
    BY <1>0, <2>2 DEF NoRollForOwner
  <2>5. PICK a \in Guests : first = Arrival(a) \/ first = Departure(a)
    BY <1>0, <2>2, MessageCases DEF NoRollForOwner
  <2>6. /\ first = Arrival(a) => panel'[Owner] = panel[Owner] \cup {a}
        /\ first = Departure(a) => panel'[Owner] = panel[Owner] \ {a}
    BY <2>1 DEF Shown, Arrival, Departure
  <2>7. Minded'
    BY <1>0, <2>1, <2>5, <2>6 DEF Minded
  <2>8. ASSUME NEW h \in Guests
        PROVE  Heard(h)'
    <3>1. IsIdle(h)' <=> IsIdle(h)
      BY <2>1 DEF IsIdle
    <3>2. /\ h \in panel[Owner] /\ h \notin panel'[Owner] => first = Departure(h)
          /\ h \notin panel[Owner] /\ h \in panel'[Owner] => first = Arrival(h)
      BY <2>5, <2>6
    <3>3. first = Departure(h) => Waits(Owner, Departure(h)) /\ h \notin panel'[Owner]
      BY <2>2, <2>5, <2>6, MessageKinds DEF Waits
    <3>4. first = Arrival(h) => Waits(Owner, Arrival(h)) /\ h \in panel'[Owner]
      BY <2>2, <2>5, <2>6, MessageKinds DEF Waits
    <3>5. Waits(Owner, Departure(h)) => pc[h] = "gone"
      BY DEF PanelsInv, DeparturesAreTrue
    <3>6. CASE pc[h] \in Early
      BY <1>0, <2>1, <2>2, <3>1, <3>2, <3>4, <3>6 DEF Heard, Early
    <3>7. CASE pc[h] \in {"joined", "unregistered", "removed"}
      <4>1. h \in panel[Owner] => h \in panel'[Owner]
        BY <3>2, <3>3, <3>5, <3>7
      <4>2. Waits(Owner, Arrival(h)) => Waits(Owner, Arrival(h))' \/ h \in panel'[Owner]
        BY <2>2, <3>4
      <4> QED BY <1>0, <2>1, <3>1, <3>7, <4>1, <4>2 DEF Heard, Early
    <3>8. CASE pc[h] = "gone"
      <4>1. CASE Owner \in sending[h].recipients
        BY <1>0, <2>1, <3>1, <3>8, <4>1 DEF Heard, Early
      <4>2. ASSUME NEW k \in DOMAIN inbox[Owner], inbox[Owner][k] = Departure(h),
                   \A n \in DOMAIN inbox[Owner] : n > k => inbox[Owner][n] # Arrival(h)
            PROVE  Heard(h)'
        <5>1. CASE k = 1
          <6>1. first = Departure(h)
            BY <2>2, <4>2, <5>1
          <6>2. ~Waits(Owner, Arrival(h))'
            BY <2>2, <2>3, <4>2, <5>1 DEF Waits
          <6> QED BY <1>0, <2>1, <3>1, <3>3, <3>8, <6>1, <6>2 DEF Heard, Early
        <5>2. CASE k # 1
          <6>1. k - 1 \in DOMAIN inbox'[Owner] /\ inbox'[Owner][k - 1] = Departure(h)
            BY <2>2, <2>3, <4>2, <5>2
          <6>2. \A n \in DOMAIN inbox'[Owner] : n > k - 1 => inbox'[Owner][n] # Arrival(h)
            BY <2>2, <2>3, <4>2
          <6> QED BY <1>0, <2>1, <3>1, <3>8, <6>1, <6>2 DEF Heard, Early
        <5> QED BY <5>1, <5>2
      <4>3. CASE h \notin panel[Owner] /\ ~Waits(Owner, Arrival(h))
        BY <1>0, <2>1, <2>2, <3>1, <3>2, <3>4, <3>8, <4>3 DEF Heard, Early
      <4> QED BY <1>0, <3>8, <4>1, <4>2, <4>3 DEF Heard
    <3> QED BY <1>0, <3>6, <3>7, <3>8 DEF Stages, Early
  <2> QED BY <2>4, <2>7, <2>8
<1> QED BY <1>1, <1>2, <1>3, <1>4, <1>5, <1>6, <1>7, <1>8, <1>9 DEF PanelsNext

\* PanelHasRoll, for one guest.
RollsTrue(g) ==
  \A k \in DOMAIN inbox[g] :
    inbox[g][k].type = "session.joined" =>
      inbox[g][k] = Roll(told[g]) /\ pc[g] \notin {"away", "looked"}

Remembers(g) ==
  pc[g] \in {"replied", "joined"} /\ g \in open =>
    \A h \in told[g] \cap Guests :
      h \in panel[g] \/ pc[h] = "gone" \/ Waits(g, Roll(told[g]))

LEMMA RollInductive == PanelsInv /\ PanelsNext => PanelHasRoll'
<1> SUFFICES ASSUME PanelsInv, PanelsNext, NEW g \in Guests
             PROVE  RollsTrue(g)' /\ Remembers(g)'
  BY DEF PanelHasRoll, RollsTrue, Remembers
<1>0. ParticipantsTypeOK /\ RollsTrue(g) /\ Remembers(g) /\ DeparturesAreTrue
  BY DEF PanelsInv, PanelHasRoll, RollsTrue, Remembers
<1> USE DEF ParticipantsTypeOK
<1>1. \A h \in Guests : pc[h] = "gone" => pc'[h] = "gone"
  BY <1>0 DEF PanelsNext, JoinLookup, JoinStore, JoinRegister, JoinReply, JoinAnnounce, Close, Leave,
              LeaveStore, LeaveBroadcast, Write, Receive, Goes
<1>2. ASSUME UNCHANGED <<told, panel>>, inbox'[g] = inbox[g],
             pc[g] \notin {"away", "looked"} => pc'[g] \notin {"away", "looked"},
             pc'[g] \in {"replied", "joined"} /\ g \in open' =>
               pc[g] \in {"replied", "joined"} /\ g \in open
      PROVE  RollsTrue(g)' /\ Remembers(g)'
  BY <1>0, <1>1, <1>2 DEF RollsTrue, Remembers, Waits
<1>3. ASSUME NEW f \in Guests,
             \/ JoinLookup(f) \/ JoinRegister(f) \/ JoinAnnounce(f) \/ Leave(f) \/ LeaveStore(f)
             \/ LeaveBroadcast(f)
      PROVE  RollsTrue(g)' /\ Remembers(g)'
  <2>1. UNCHANGED <<told, panel, inbox>>
    BY <1>3 DEF JoinLookup, JoinRegister, JoinAnnounce, Leave, LeaveStore, LeaveBroadcast
  <2>2. pc[g] \notin {"away", "looked"} => pc'[g] \notin {"away", "looked"}
    BY <1>0, <1>3 DEF JoinLookup, JoinRegister, JoinAnnounce, Leave, LeaveStore, LeaveBroadcast, Goes
  <2>3. pc'[g] \in {"replied", "joined"} /\ g \in open' =>
          pc[g] \in {"replied", "joined"} /\ g \in open
    BY <1>0, <1>3 DEF JoinLookup, JoinRegister, JoinAnnounce, Leave, LeaveStore, LeaveBroadcast, Goes
  <2> QED BY <1>2, <2>1, <2>2, <2>3
<1>4. ASSUME NEW f \in Guests, JoinStore(f)
      PROVE  RollsTrue(g)' /\ Remembers(g)'
  <2>1. CASE f = g
    <3>1. /\ pc[g] = "looked" /\ pc'[g] = "stored" /\ inbox' = inbox
      BY <1>0, <1>4, <2>1 DEF JoinStore, Goes
    <3> QED BY <1>0, <3>1 DEF RollsTrue, Remembers
  <2>2. CASE f # g
    <3>1. pc'[g] = pc[g] /\ told'[g] = told[g] /\ UNCHANGED <<open, inbox, panel>>
      BY <1>0, <1>4, <2>2 DEF JoinStore, Goes
    <3> QED BY <1>0, <1>1, <3>1 DEF RollsTrue, Remembers, Waits
  <2> QED BY <2>1, <2>2
<1>5. ASSUME NEW f \in Guests, JoinReply(f)
      PROVE  RollsTrue(g)' /\ Remembers(g)'
  <2>1. Roll(told[f]) \in Messages
    BY <1>0 DEF Messages
  <2>2. inbox' = Posted(inbox, f, Roll(told[f])) /\ UNCHANGED <<told, panel, open>>
    BY <1>5 DEF JoinReply
  <2>3. CASE f # g
    <3>1. inbox'[g] = inbox[g]
      BY <1>0, <2>1, <2>2, <2>3, PostedWaits
    <3>2. pc'[g] = pc[g]
      BY <1>0, <1>5, <2>3 DEF JoinReply, Goes
    <3> QED BY <1>2, <2>2, <3>1, <3>2
  <2>4. CASE f = g /\ g \notin open
    <3>1. inbox' = inbox
      BY <1>0, <2>1, <2>2, <2>4, PostedWaits
    <3>2. pc'[g] \in {"replied", "joined"}
      BY <1>0, <1>5, <2>4 DEF JoinReply, Goes
    <3> QED BY <1>0, <2>2, <2>4, <3>1, <3>2 DEF RollsTrue, Remembers
  <2>5. CASE f = g /\ g \in open
    <3>1. pc'[g] = "replied"
      BY <1>0, <1>5, <2>5 DEF JoinReply, Goes
    <3>2. /\ DOMAIN inbox'[g] = DOMAIN inbox[g] \cup {Len(inbox[g]) + 1}
          /\ \A k \in DOMAIN inbox[g] : inbox'[g][k] = inbox[g][k]
          /\ inbox'[g][Len(inbox[g]) + 1] = Roll(told[g])
          /\ Waits(g, Roll(told[g]))'
      BY <1>0, <2>1, <2>2, <2>5, PostedWaits
    <3>3. RollsTrue(g)'
      BY <1>0, <2>2, <3>1, <3>2 DEF RollsTrue
    <3>4. Remembers(g)'
      BY <2>2, <3>2 DEF Remembers, Waits
    <3> QED BY <3>3, <3>4
  <2> QED BY <2>3, <2>4, <2>5
<1>6. ASSUME NEW f \in Guests, Close(f)
      PROVE  RollsTrue(g)' /\ Remembers(g)'
  <2>1. CASE f = g
    <3>1. inbox'[g] = << >> /\ g \notin open'
      BY <1>0, <1>6, <2>1 DEF Close
    <3> QED BY <3>1 DEF RollsTrue, Remembers
  <2>2. CASE f # g
    <3>1. /\ inbox'[g] = inbox[g] /\ (g \in open' => g \in open)
          /\ UNCHANGED <<pc, told, panel>>
      BY <1>0, <1>6, <2>2 DEF Close
    <3> QED BY <1>2, <3>1
  <2> QED BY <2>1, <2>2
<1>7. ASSUME NEW f \in Guests, NEW u \in Users, Write(f, u)
      PROVE  RollsTrue(g)' /\ Remembers(g)'
  <2> DEFINE m == sending[f].message
  <2>1. m \in Messages /\ ~IsIdle(f) /\ inbox' = Posted(inbox, u, m)
    BY <1>0, <1>7, WriteFacts
  <2>2. UNCHANGED <<pc, open, told, panel>>
    BY <1>7 DEF Write
  <2>3. m.type # "session.joined"
    <3>1. m = Arrival(f) \/ m = Departure(f)
      BY <1>0, <2>1 DEF PanelsInv, OwnerHears, Stages, Early
    <3> QED BY <3>1 DEF Arrival, Departure
  <2>4. CASE u # g \/ g \notin open
    <3>1. inbox'[g] = inbox[g]
      BY <1>0, <2>1, <2>4, PostedWaits
    <3> QED BY <1>2, <2>2, <3>1
  <2>5. CASE u = g /\ g \in open
    <3>1. /\ DOMAIN inbox'[g] = DOMAIN inbox[g] \cup {Len(inbox[g]) + 1}
          /\ \A k \in DOMAIN inbox[g] : inbox'[g][k] = inbox[g][k]
          /\ inbox'[g][Len(inbox[g]) + 1] = m
          /\ \A w : Waits(g, w) => Waits(g, w)'
      BY <1>0, <2>1, <2>5, PostedWaits
    <3>2. RollsTrue(g)'
      BY <1>0, <2>2, <2>3, <3>1 DEF RollsTrue
    <3>3. Remembers(g)'
      BY <1>0, <2>2, <3>1 DEF Remembers, Waits
    <3> QED BY <3>2, <3>3
  <2> QED BY <2>4, <2>5
<1>8. ASSUME NEW u \in Users, Receive(u)
      PROVE  RollsTrue(g)' /\ Remembers(g)'
  <2>1. CASE u # g
    <3>1. /\ inbox'[g] = inbox[g] /\ panel'[g] = panel[g]
          /\ UNCHANGED <<pc, open, told>>
      BY <1>0, <1>8, <2>1 DEF Receive
    <3> QED BY <1>0, <3>1 DEF RollsTrue, Remembers, Waits
  <2>2. CASE u = g
    <3> DEFINE first == Head(inbox[g])
    <3>1. /\ inbox[g] # << >> /\ inbox' = [inbox EXCEPT ![g] = Tail(@)]
          /\ panel'[g] = Shown(panel[g], first)
          /\ UNCHANGED <<pc, open, told>>
      BY <1>0, <1>8, <2>2 DEF Receive
    <3>2. /\ first \in Messages
          /\ \A k \in DOMAIN inbox'[g] : k + 1 \in DOMAIN inbox[g] /\ inbox'[g][k] = inbox[g][k + 1]
          /\ \A w : Waits(g, w) => Waits(g, w)' \/ w = first
          /\ 1 \in DOMAIN inbox[g] /\ first = inbox[g][1]
      BY <1>0, <3>1, TailWaits
    <3>3. RollsTrue(g)'
      BY <1>0, <3>1, <3>2 DEF RollsTrue
    <3>4. ASSUME NEW h \in told[g] \cap Guests,
                 h \in panel[g] \/ pc[h] = "gone" \/ Waits(g, Roll(told[g]))
          PROVE  h \in panel'[g] \/ pc[h] = "gone" \/ Waits(g, Roll(told[g]))'
      <4>1. CASE first.type = "session.joined"
        <5>1. first = Roll(told[g])
          BY <1>0, <3>2, <4>1 DEF RollsTrue
        <5>2. panel'[g] = told[g]
          BY <3>1, <4>1, <5>1 DEF Shown, Roll
        <5> QED BY <5>2
      <4>2. CASE first.type = "participant.joined"
        <5>1. panel[g] \subseteq panel'[g] /\ first # Roll(told[g])
          BY <3>1, <4>2 DEF Shown, Roll
        <5> QED BY <3>1, <3>2, <3>4, <5>1 DEF Waits
      <4>3. CASE first.type = "participant.left"
        <5>1. PICK a \in Guests : first = Departure(a)
          BY <3>2, <4>3, MessageCases
        <5>2. panel'[g] = panel[g] \ {a} /\ first # Roll(told[g])
          BY <3>1, <5>1 DEF Shown, Departure, Roll
        <5>3. pc[a] = "gone"
          BY <1>0, <3>2, <5>1 DEF DeparturesAreTrue, Waits
        <5> QED BY <3>1, <3>2, <3>4, <5>2, <5>3 DEF Waits
      <4> QED BY <3>2, <4>1, <4>2, <4>3, MessageCases
    <3>5. Remembers(g)'
      BY <1>0, <3>1, <3>4 DEF Remembers
    <3> QED BY <3>3, <3>5
  <2> QED BY <2>1, <2>2
<1> QED BY <1>3, <1>4, <1>5, <1>6, <1>7, <1>8 DEF PanelsNext

LEMMA PanelsHoldInitially == PanelsInit => PanelsInv
<1> SUFFICES ASSUME PanelsInit
             PROVE  PanelsInv
  OBVIOUS
<1> USE DEF PanelsInit
<1>1. ParticipantsTypeOK
  BY DEF ParticipantsTypeOK, Stages, Broadcasts
<1>2. OwnerHears
  BY DEF OwnerHears, Early, IsIdle, Idle, Waits
<1>3. DeparturesAreTrue /\ StoreOrders /\ PanelHasRoll
  BY DEF DeparturesAreTrue, Waits, StoreOrders, Inside, PanelHasRoll
<1> QED BY <1>1, <1>2, <1>3 DEF PanelsInv

(* What panels show is what their users were told: the inductive invariant. *)
THEOREM PanelsAlwaysSound == PanelsSpec => []PanelsInv
<1>1. PanelsInv /\ [PanelsNext]_panelsVars => PanelsInv'
  <2> SUFFICES ASSUME PanelsInv, [PanelsNext]_panelsVars
               PROVE  PanelsInv'
    OBVIOUS
  <2>1. CASE PanelsNext
    <3>1. ParticipantsTypeOK' /\ OwnerHears'
      BY <2>1, TypeInductive, OwnerInductive DEF PanelsInv
    <3>2. DeparturesAreTrue' /\ StoreOrders' /\ PanelHasRoll'
      BY <2>1, DeparturesInductive, StoreInductive, RollInductive
    <3> QED BY <3>1, <3>2 DEF PanelsInv
  <2>2. CASE UNCHANGED panelsVars
    BY <2>2 DEF panelsVars, PanelsInv, ParticipantsTypeOK, OwnerHears, DeparturesAreTrue, StoreOrders,
                PanelHasRoll, Waits, IsIdle
  <2> QED BY <2>1, <2>2
<1> QED BY <1>1, PanelsHoldInitially, PTL DEF PanelsSpec

(* Whoever is on the board is in the owner's panel, and nobody else is, once all
   messages have arrived. *)
THEOREM OwnerAlwaysSeesEverybody == PanelsSpec => []OwnerSeesEverybody
<1>1. PanelsInv => OwnerSeesEverybody
  <2> SUFFICES ASSUME PanelsInv, Settled
               PROVE  panel[Owner] = Present \cup {Owner}
    BY DEF OwnerSeesEverybody
  <2>1. \A w : ~Waits(Owner, w)
    BY DEF Settled, Waits
  <2>2. panel[Owner] \subseteq Users /\ Owner \in panel[Owner] /\ Owner \in Users
    BY DEF PanelsInv, ParticipantsTypeOK, OwnerHears
  <2>3. ASSUME NEW g \in Guests
        PROVE  g \in panel[Owner] <=> g \in Present
    <3>1. Heard(g) /\ IsIdle(g) /\ Owner \notin sending[g].recipients
      BY HeardIs DEF PanelsInv, Settled, IsIdle
    <3>2. CASE pc[g] = "away"
      BY <3>1, <3>2 DEF Heard, Early, Present
    <3>3. CASE pc[g] = "gone"
      <4>1. DOMAIN inbox[Owner] = {}
        BY DEF Settled
      <4> QED BY <3>1, <3>3, <4>1 DEF Heard, Present
    <3>4. CASE g \in Present
      BY <2>1, <3>1, <3>4 DEF Heard, Early, Present
    <3> QED BY <3>2, <3>3, <3>4 DEF Settled
  <2> QED BY <2>2, <2>3 DEF Present, PanelsInv, ParticipantsTypeOK
<1> QED BY <1>1, PanelsAlwaysSound, PTL

(* Of two guests on the board one sees the other, once all messages have
   arrived. *)
THEOREM OneOfTwoAlwaysSees == PanelsSpec => []OneOfTwoSees
<1>1. PanelsInv => OneOfTwoSees
  <2> SUFFICES ASSUME PanelsInv, Settled, NEW g \in Present, NEW h \in Present, g # h
               PROVE  g \in panel[h] \/ h \in panel[g]
    BY DEF OneOfTwoSees
  <2>1. /\ g \in Guests /\ h \in Guests /\ g \in open /\ h \in open
        /\ pc[g] = "joined" /\ pc[h] = "joined"
    BY DEF Present, PanelsInv, ParticipantsTypeOK
  <2>2. ~Waits(g, Roll(told[g])) /\ ~Waits(h, Roll(told[h]))
    BY <2>1 DEF Settled, Waits
  <2>3. Remembers(g) /\ Remembers(h)
    BY <2>1 DEF PanelsInv, PanelHasRoll, Remembers
  <2>4. g \in told[h] \/ h \in told[g]
    BY <2>1 DEF PanelsInv, StoreOrders, Inside
  <2> QED BY <2>1, <2>2, <2>3, <2>4 DEF Remembers
<1> QED BY <1>1, PanelsAlwaysSound, PTL

(***************************************************************************)
(* The rate limits.  The inductive invariant relates the two numbers a     *)
(* limiter keeps for a key to the history g of that key: the last c        *)
(* admissions are those of the current window, its first one is the        *)
(* request that began it, and whatever lies a further limit back came at   *)
(* least Window - MaxDelay ticks before that request.                      *)
(***************************************************************************)
Ordered(g, now) ==
  /\ \A i \in 1 .. Len(g) : g[i] <= now
  /\ \A i, j \in 1 .. Len(g) : i <= j => g[i] <= g[j]

\* Where, in the history g, a window with c admissions begins.
First(g, c) == Len(g) - c + 1

\* A window with c admissions that began with the reading s.
InWindow(g, c, s, limit) ==
  /\ c \in 1 .. limit
  /\ c <= Len(g)
  /\ s <= g[First(g, c)]
  /\ g[First(g, c)] - s <= MaxDelay
  /\ \A i \in 1 .. Len(g) :
       i + limit < First(g, c) => g[First(g, c)] - g[i] >= Window - MaxDelay

Spread(g, limit) ==
  \A i \in 1 .. Len(g) :
    i + 2 * limit <= Len(g) => g[i + 2 * limit] - g[i] >= Window - MaxDelay

Caused(g, refused, limit) ==
  refused # NeverRefused =>
    \E last \in 1 .. Len(g) :
      /\ last >= limit
      /\ g[last] <= refused
      /\ refused - g[last - limit + 1] < Window + MaxDelay

\* The history g of a key whose count is c in a window that began at s.
Known(g, c, s, refused, limit, now) ==
  /\ Ordered(g, now)
  /\ s = NoWindow => g = << >>
  /\ s # NoWindow => InWindow(g, c, s, limit)
  /\ Spread(g, limit)
  /\ Caused(g, refused, limit)

RateInv ==
  /\ RateTypeOK
  /\ \A k \in Counters :
       /\ ~Limited(k) => granted[k] = << >> /\ refusedAt[k] = NeverRefused
       /\ Limited(k) => Known(granted[k], counts[k], windowStart[k], refusedAt[k],
                              Limit[k[1]], time)

(***************************************************************************)
(* Lemmas about histories.                                                 *)
(***************************************************************************)
LEMMA GrantFacts ==
  ASSUME NEW g \in Seq(Nat), NEW now \in Nat
  PROVE  /\ Append(g, now) \in Seq(Nat)
         /\ Len(g) \in Nat
         /\ Len(Append(g, now)) = Len(g) + 1
         /\ Append(g, now)[Len(g) + 1] = now
         /\ \A i \in 1 .. Len(g) : Append(g, now)[i] = g[i] /\ g[i] \in Nat
  OBVIOUS

LEMMA AppendOrdered ==
  ASSUME NEW g \in Seq(Nat), NEW now \in Nat, Ordered(g, now)
  PROVE  Ordered(Append(g, now), now)
<1> DEFINE a == Append(g, now)
           h == Len(g)
<1>1. /\ h \in Nat /\ Len(a) = h + 1 /\ a[h + 1] = now
      /\ \A i \in 1 .. h : a[i] = g[i] /\ g[i] \in Nat
  BY GrantFacts
<1>2. /\ \A i \in 1 .. h : g[i] <= now
      /\ \A i, j \in 1 .. h : i <= j => g[i] <= g[j]
  BY DEF Ordered
<1> HIDE DEF a, h
<1>3. \A i \in 1 .. h + 1 : i \in 1 .. h \/ i = h + 1
  BY <1>1
<1>4. \A i \in 1 .. h + 1 : a[i] <= now
  BY <1>1, <1>2, <1>3
<1>5. \A i, j \in 1 .. h + 1 : i <= j => a[i] <= a[j]
  <2> SUFFICES ASSUME NEW i \in 1 .. h + 1, NEW j \in 1 .. h + 1, i <= j
               PROVE  a[i] <= a[j]
    OBVIOUS
  <2>1. (i \in 1 .. h /\ j \in 1 .. h) \/ j = h + 1
    BY <1>1
  <2> QED
    BY <1>1, <1>2, <1>4, <2>1
<1>6. Ordered(a, now)
  BY <1>1, <1>4, <1>5 DEF Ordered
<1> QED
  BY <1>6 DEF a

\* An admission that begins a window: the window before it held at most
\* limit admissions and began at least Window - MaxDelay ticks ago.
LEMMA AppendBeginsWindow ==
  ASSUME NEW g \in Seq(Nat), NEW now \in Nat, NEW c \in Nat, NEW s \in Nat \cup {NoWindow},
         NEW limit \in Nat \ {0}, NEW reading \in Nat, Window \in Nat, MaxDelay \in Nat,
         reading <= now, now - reading <= MaxDelay,
         Ordered(g, now),
         s = NoWindow => g = << >>,
         s # NoWindow => InWindow(g, c, s, limit) /\ reading - s >= Window
  PROVE  InWindow(Append(g, now), 1, reading, limit)
<1> DEFINE a == Append(g, now)
           h == Len(g)
<1>1. /\ h \in Nat /\ Len(a) = h + 1 /\ a[h + 1] = now
      /\ \A i \in 1 .. h : a[i] = g[i] /\ g[i] \in Nat
  BY GrantFacts
<1>2. First(a, 1) = h + 1
  BY <1>1 DEF First
<1>3. ASSUME NEW i \in 1 .. h + 1, i + limit < h + 1
      PROVE  now - a[i] >= Window - MaxDelay
  <2>1. i \in 1 .. h
    BY <1>1, <1>3
  <2>2. s # NoWindow
    BY <1>1, <2>1
  <2>3. /\ c \in 1 .. limit /\ c <= h
        /\ g[h - c + 1] - s <= MaxDelay
        /\ reading - s >= Window
    BY <2>2 DEF InWindow, First
  <2> DEFINE f == h - c + 1
  <2>4. f \in 1 .. h /\ i <= f
    BY <1>1, <1>3, <2>1, <2>3
  <2>5. g[i] <= g[f] /\ a[i] = g[i] /\ g[i] \in Nat /\ g[f] \in Nat /\ g[f] - s <= MaxDelay
    BY <1>1, <2>1, <2>3, <2>4 DEF Ordered
  <2>6. s \in Nat
    BY <2>2
  <2> HIDE DEF a, h, f
  <2> QED
    BY <2>3, <2>5, <2>6
<1> HIDE DEF a, h
<1>4. InWindow(a, 1, reading, limit)
  BY <1>1, <1>2, <1>3 DEF InWindow
<1> QED
  BY <1>4 DEF a

\* An admission within the current window.
LEMMA AppendWithinWindow ==
  ASSUME NEW g \in Seq(Nat), NEW now \in Nat, NEW c \in Nat, NEW s \in Nat,
         NEW limit \in Nat \ {0}, c < limit, InWindow(g, c, s, limit)
  PROVE  InWindow(Append(g, now), c + 1, s, limit)
<1> DEFINE a == Append(g, now)
           h == Len(g)
           f == First(g, c)
<1>1. /\ h \in Nat /\ Len(a) = h + 1
      /\ \A i \in 1 .. h : a[i] = g[i]
  BY GrantFacts
<1>2. /\ c \in 1 .. limit /\ c <= h /\ s <= g[f] /\ g[f] - s <= MaxDelay
      /\ \A i \in 1 .. h : i + limit < f => g[f] - g[i] >= Window - MaxDelay
  BY DEF InWindow
<1>3. f = h - c + 1
  BY DEF First
<1>4. First(a, c + 1) = f
  BY <1>1, <1>3 DEF First
<1> HIDE DEF a, h, f
<1>5. f \in 1 .. h /\ a[f] = g[f] /\ c + 1 \in 1 .. limit /\ c + 1 <= h + 1
  BY <1>1, <1>2, <1>3
<1>6. ASSUME NEW i \in 1 .. h + 1, i + limit < f
      PROVE  a[f] - a[i] >= Window - MaxDelay
  <2>1. i \in 1 .. h
    BY <1>1, <1>5, <1>6
  <2> QED
    BY <1>1, <1>2, <1>5, <1>6, <2>1
<1>7. InWindow(a, c + 1, s, limit)
  BY <1>1, <1>2, <1>4, <1>5, <1>6 DEF InWindow
<1> QED
  BY <1>7 DEF a

\* The new admission is far from the one two limits before it.
LEMMA AppendSpread ==
  ASSUME NEW g \in Seq(Nat), NEW now \in Nat, NEW c \in Nat, NEW s \in Nat,
         NEW limit \in Nat \ {0}, Window \in Nat, MaxDelay \in Nat,
         Ordered(Append(g, now), now), Spread(g, limit),
         InWindow(Append(g, now), c, s, limit)
  PROVE  Spread(Append(g, now), limit)
<1> DEFINE a == Append(g, now)
           h == Len(g)
           f == First(a, c)
<1>1. /\ h \in Nat /\ Len(a) = h + 1 /\ a[h + 1] = now
      /\ \A i \in 1 .. h : a[i] = g[i] /\ g[i] \in Nat
      /\ \A i \in 1 .. h + 1 : a[i] \in Nat
  BY GrantFacts
<1>2. /\ c \in 1 .. limit /\ c <= h + 1
      /\ \A i \in 1 .. h + 1 : i + limit < f => a[f] - a[i] >= Window - MaxDelay
  BY <1>1 DEF InWindow
<1>3. f = h + 2 - c
  BY <1>1 DEF First
<1>4. \A i \in 1 .. h : i + 2 * limit <= h => g[i + 2 * limit] - g[i] >= Window - MaxDelay
  BY DEF Spread
<1>5. \A i \in 1 .. h + 1 : a[i] <= now
  BY <1>1 DEF Ordered
<1> HIDE DEF a, h, f
<1>6. f \in 1 .. h + 1
  BY <1>1, <1>2, <1>3
<1>7. ASSUME NEW i \in 1 .. h + 1, i + 2 * limit <= h + 1
      PROVE  a[i + 2 * limit] - a[i] >= Window - MaxDelay
  <2>1. i \in 1 .. h
    BY <1>1, <1>7
  <2>2. CASE i + 2 * limit <= h
    <3>1. i + 2 * limit \in 1 .. h
      BY <1>1, <2>1, <2>2
    <3> QED
      BY <1>1, <1>4, <2>1, <2>2, <3>1
  <2>3. CASE i + 2 * limit = h + 1
    <3>1. i + limit < f
      <4>1. i = h + 1 - 2 * limit /\ c <= limit /\ i \in Nat /\ c \in Nat /\ f \in Nat
        BY <1>1, <1>2, <1>6, <2>1, <2>3
      <4> QED
        BY <1>1, <1>3, <4>1
    <3>2. a[f] - a[i] >= Window - MaxDelay
      BY <1>2, <2>1, <3>1, <1>7
    <3>3. a[f] <= now /\ a[f] \in Nat /\ a[i] \in Nat
      BY <1>1, <1>5, <1>6, <1>7
    <3>4. a[i + 2 * limit] = now
      BY <1>1, <2>3
    <3>5. now - a[i] >= Window - MaxDelay
      BY <3>2, <3>3
    <3> QED
      BY <3>4, <3>5
  <2> QED
    BY <1>1, <1>7, <2>1, <2>2, <2>3
<1>8. Spread(a, limit)
  BY <1>1, <1>7 DEF Spread
<1> QED
  BY <1>8 DEF a

LEMMA AppendCaused ==
  ASSUME NEW g \in Seq(Nat), NEW now \in Nat, NEW refused \in Nat \cup {NeverRefused},
         NEW limit \in Nat \ {0}, Caused(g, refused, limit)
  PROVE  Caused(Append(g, now), refused, limit)
<1> DEFINE a == Append(g, now)
           h == Len(g)
<1>1. /\ h \in Nat /\ Len(a) = h + 1
      /\ \A i \in 1 .. h : a[i] = g[i]
  BY GrantFacts
<1>2. CASE refused # NeverRefused
  <2>1. PICK last \in 1 .. h :
          /\ last >= limit
          /\ g[last] <= refused
          /\ refused - g[last - limit + 1] < Window + MaxDelay
    BY <1>2 DEF Caused
  <2> HIDE DEF a, h
  <2>2. last \in 1 .. h + 1 /\ last - limit + 1 \in 1 .. h
    BY <1>1, <2>1
  <2>3. Caused(a, refused, limit)
    BY <1>1, <2>1, <2>2 DEF Caused
  <2> QED
    BY <2>3 DEF a
<1> QED
  BY <1>2 DEF Caused

\* A request refused in a window that is not over.
LEMMA RefusalCaused ==
  ASSUME NEW g \in Seq(Nat), NEW now \in Nat, NEW c \in Nat, NEW s \in Nat,
         NEW limit \in Nat \ {0}, NEW reading \in Nat, Window \in Nat, MaxDelay \in Nat,
         now - reading <= MaxDelay, reading - s < Window, c >= limit,
         Ordered(g, now), InWindow(g, c, s, limit)
  PROVE  Caused(g, now, limit)
<1> DEFINE h == Len(g)
           f == h - limit + 1
<1>1. h \in Nat /\ \A i \in 1 .. h : g[i] \in Nat
  OBVIOUS
<1>2. c = limit /\ c <= h /\ s <= g[f]
  BY DEF InWindow, First
<1>3. \A i \in 1 .. h : g[i] <= now
  BY DEF Ordered
<1> HIDE DEF h
<1>4. h \in 1 .. h /\ f \in 1 .. h
  BY <1>1, <1>2
<1> HIDE DEF f
<1>5. now - g[f] < Window + MaxDelay
  BY <1>1, <1>2, <1>4
<1>6. h >= limit /\ g[h] <= now
  BY <1>1, <1>2, <1>3, <1>4
<1> QED
  BY <1>4, <1>5, <1>6 DEF Caused, h, f

LEMMA KnownLater ==
  ASSUME NEW g \in Seq(Nat), NEW c, NEW s, NEW refused, NEW limit,
         NEW now \in Nat, NEW later \in Nat, now <= later,
         Known(g, c, s, refused, limit, now)
  PROVE  Known(g, c, s, refused, limit, later)
<1>1. Ordered(g, later)
  BY DEF Known, Ordered
<1> QED
  BY <1>1 DEF Known

(***************************************************************************)
(* The steps of the limiters.                                              *)
(***************************************************************************)
\* A counter is a pair of a limiter and a key.
LEMMA CounterLimiter == \A k \in Counters : Limit[k[1]] \in Int
  BY LimitAssumption DEF Counters, Limiters

LEMMA InitEstablishesRateInv == RateInit => RateInv
<1> SUFFICES ASSUME RateInit PROVE RateInv
  OBVIOUS
<1>1. RateTypeOK
  BY DEF RateInit, RateTypeOK
<1>2. ASSUME NEW k \in Counters
      PROVE  /\ granted[k] = << >> /\ refusedAt[k] = NeverRefused
             /\ Known(granted[k], counts[k], windowStart[k], refusedAt[k], Limit[k[1]], time)
  <2>1. granted[k] = << >> /\ windowStart[k] = NoWindow /\ refusedAt[k] = NeverRefused
    BY DEF RateInit
  <2> QED
    BY <2>1, CounterLimiter DEF Known, Ordered, Spread, Caused
<1> QED
  BY <1>1, <1>2 DEF RateInv

LEMMA AdmitKeepsKnown ==
  ASSUME RateInv, NEW k \in Counters, NEW reading \in Readings, Admit(k, reading)
  PROVE  /\ windowStart'[k] \in Nat /\ counts'[k] \in Nat /\ granted'[k] \in Seq(Nat)
         /\ Known(granted'[k], counts'[k], windowStart'[k], refusedAt'[k], Limit[k[1]], time)
<1> DEFINE limit == Limit[k[1]]
           g == granted[k]
           c == counts[k]
           s == windowStart[k]
<1>1. /\ limit \in Nat \ {0} /\ Window \in Nat \ {0} /\ MaxDelay \in Nat
      /\ g \in Seq(Nat) /\ c \in Nat /\ s \in Nat \cup {NoWindow}
      /\ refusedAt[k] \in Nat \cup {NeverRefused}
      /\ time \in Nat /\ reading \in Nat /\ reading <= time /\ time - reading <= MaxDelay
  BY CounterLimiter, LimitAssumption DEF RateInv, RateTypeOK, Admit, Limited, Readings
<1>2. Known(g, c, s, refusedAt[k], limit, time)
  BY DEF RateInv, Admit
<1>3. /\ granted'[k] = Append(g, time)
      /\ counts'[k] = CountForReading(k, reading) + 1
      /\ windowStart'[k] = StartForReading(k, reading)
      /\ refusedAt'[k] = refusedAt[k]
      /\ CountForReading(k, reading) < limit
  BY DEF RateInv, RateTypeOK, Admit
<1>4. /\ windowStart'[k] \in Nat /\ counts'[k] \in Nat
      /\ InWindow(Append(g, time), counts'[k], windowStart'[k], limit)
  <2>1. CASE WindowOver(k, reading)
    <3>1. counts'[k] = 1 /\ windowStart'[k] = reading
      BY <1>3, <2>1 DEF CountForReading, StartForReading
    <3>2. s # NoWindow => reading - s >= Window
      BY <2>1 DEF WindowOver
    <3>3. InWindow(Append(g, time), 1, reading, limit)
      BY <1>1, <1>2, <3>2, AppendBeginsWindow DEF Known
    <3> QED
      BY <1>1, <3>1, <3>3
  <2>2. CASE ~WindowOver(k, reading)
    <3>1. counts'[k] = c + 1 /\ windowStart'[k] = s /\ s # NoWindow /\ c < limit
      BY <1>3, <2>2 DEF CountForReading, StartForReading, WindowOver
    <3>2. s \in Nat /\ InWindow(g, c, s, limit)
      BY <1>1, <1>2, <3>1 DEF Known
    <3>3. InWindow(Append(g, time), c + 1, s, limit)
      BY <1>1, <3>1, <3>2, AppendWithinWindow
    <3> QED
      BY <1>1, <3>1, <3>2, <3>3
  <2> QED
    BY <2>1, <2>2
<1>5. Append(g, time) \in Seq(Nat) /\ windowStart'[k] # NoWindow
  BY <1>1, <1>4 DEF NoWindow
<1>6. Ordered(Append(g, time), time)
  BY <1>1, <1>2, AppendOrdered DEF Known
<1>7. Spread(Append(g, time), limit)
  BY <1>1, <1>2, <1>4, <1>6, AppendSpread DEF Known
<1>8. Caused(Append(g, time), refusedAt[k], limit)
  BY <1>1, <1>2, AppendCaused DEF Known
<1> QED
  BY <1>3, <1>4, <1>5, <1>6, <1>7, <1>8 DEF Known

\* A refusal leaves the history alone, and its window is neither over nor empty.
LEMMA RefuseKeepsKnown ==
  ASSUME RateInv, NEW k \in Counters, NEW reading \in Readings, Refuse(k, reading)
  PROVE  /\ windowStart' = windowStart /\ counts' = counts /\ granted' = granted
         /\ Known(granted[k], counts[k], windowStart[k], time, Limit[k[1]], time)
<1> DEFINE limit == Limit[k[1]]
           g == granted[k]
           c == counts[k]
           s == windowStart[k]
<1>1. /\ limit \in Nat \ {0} /\ Window \in Nat \ {0} /\ MaxDelay \in Nat
      /\ g \in Seq(Nat) /\ c \in Nat /\ s \in Nat \cup {NoWindow}
      /\ time \in Nat /\ reading \in Nat /\ reading <= time /\ time - reading <= MaxDelay
  BY CounterLimiter, LimitAssumption DEF RateInv, RateTypeOK, Refuse, Limited, Readings
<1>2. Known(g, c, s, refusedAt[k], limit, time)
  BY DEF RateInv, Refuse
<1>3. ~WindowOver(k, reading)
  BY <1>1 DEF Refuse, CountForReading
<1>4. c >= limit /\ windowStart' = windowStart /\ counts' = counts /\ granted' = granted
  BY <1>3 DEF Refuse, StartForReading, CountForReading, RateInv, RateTypeOK
<1>5. s # NoWindow /\ s \in Nat /\ reading - s < Window
  BY <1>1, <1>3 DEF WindowOver, NoWindow
<1>6. Caused(g, time, limit)
  BY <1>1, <1>2, <1>4, <1>5, RefusalCaused DEF Known
<1> QED
  BY <1>2, <1>4, <1>6 DEF Known

LEMMA AllowPreservesRateInv ==
  ASSUME RateInv, NEW k \in Counters, NEW reading \in Readings, NEW verdict \in BOOLEAN,
         Allow(k, reading, verdict), time' = time,
         joining' \in [Connections -> CodeKeys \cup {NoCodeKey}]
  PROVE  RateInv'
<1>1. CASE ~Limited(k) /\ UNCHANGED <<windowStart, counts, granted, refusedAt>>
  BY <1>1 DEF RateInv, RateTypeOK, Limited
<1>2. CASE Admit(k, reading)
  <2>1. /\ windowStart'[k] \in Nat /\ counts'[k] \in Nat /\ granted'[k] \in Seq(Nat)
        /\ Known(granted'[k], counts'[k], windowStart'[k], refusedAt'[k], Limit[k[1]], time)
    BY <1>2, AdmitKeepsKnown
  <2>2. /\ windowStart' = [windowStart EXCEPT ![k] = windowStart'[k]]
        /\ counts' = [counts EXCEPT ![k] = counts'[k]]
        /\ granted' = [granted EXCEPT ![k] = granted'[k]]
        /\ refusedAt' = refusedAt /\ Limited(k)
    BY <1>2 DEF Admit, RateInv, RateTypeOK
  <2>3. RateTypeOK'
    BY <2>1, <2>2 DEF RateInv, RateTypeOK
  <2>4. ASSUME NEW j \in Counters, j # k
        PROVE  /\ windowStart'[j] = windowStart[j] /\ counts'[j] = counts[j]
               /\ granted'[j] = granted[j] /\ refusedAt'[j] = refusedAt[j]
    BY <2>2, <2>4 DEF RateInv, RateTypeOK
  <2>5. ASSUME NEW j \in Counters, Limited(j)
        PROVE  Known(granted'[j], counts'[j], windowStart'[j], refusedAt'[j],
                     Limit[j[1]], time)
    BY <2>1, <2>4, <2>5 DEF RateInv
  <2>6. ASSUME NEW j \in Counters, ~Limited(j)
        PROVE  granted'[j] = << >> /\ refusedAt'[j] = NeverRefused
    BY <2>2, <2>4, <2>6 DEF RateInv
  <2> QED
    BY <2>3, <2>5, <2>6 DEF RateInv, Limited
<1>3. CASE Refuse(k, reading)
  <2>1. /\ windowStart' = windowStart /\ counts' = counts /\ granted' = granted
        /\ Known(granted[k], counts[k], windowStart[k], time, Limit[k[1]], time)
    BY <1>3, RefuseKeepsKnown
  <2>2. refusedAt' = [refusedAt EXCEPT ![k] = time] /\ Limited(k)
    BY <1>3 DEF Refuse
  <2>3. RateTypeOK'
    BY <2>1, <2>2 DEF RateInv, RateTypeOK
  <2>4. ASSUME NEW j \in Counters, j # k PROVE refusedAt'[j] = refusedAt[j]
    BY <2>2, <2>4 DEF RateInv, RateTypeOK
  <2>5. refusedAt'[k] = time
    BY <2>2 DEF RateInv, RateTypeOK
  <2>6. ASSUME NEW j \in Counters, Limited(j)
        PROVE  Known(granted[j], counts[j], windowStart[j], refusedAt'[j], Limit[j[1]], time)
    BY <2>1, <2>4, <2>5, <2>6 DEF RateInv
  <2>7. ASSUME NEW j \in Counters, ~Limited(j)
        PROVE  granted[j] = << >> /\ refusedAt'[j] = NeverRefused
    BY <2>2, <2>4, <2>7 DEF RateInv
  <2> QED
    BY <2>1, <2>3, <2>6, <2>7 DEF RateInv, Limited
<1> QED
  BY <1>1, <1>2, <1>3 DEF Allow

\* A step that leaves every limiter alone.
LEMMA QuietPreservesRateInv ==
  ASSUME RateInv, UNCHANGED <<windowStart, counts, granted, refusedAt>>,
         time' \in Nat, time <= time',
         joining' \in [Connections -> CodeKeys \cup {NoCodeKey}]
  PROVE  RateInv'
<1>1. RateTypeOK'
  BY DEF RateInv, RateTypeOK
<1>2. ASSUME NEW j \in Counters, Limited(j)
      PROVE  Known(granted[j], counts[j], windowStart[j], refusedAt[j], Limit[j[1]], time')
  BY <1>2, KnownLater DEF RateInv, RateTypeOK
<1> QED
  BY <1>1, <1>2 DEF RateInv, Limited

LEMMA NextPreservesRateInv == RateInv /\ [RateNext]_rateVars => RateInv'
<1> SUFFICES ASSUME RateInv, [RateNext]_rateVars PROVE RateInv'
  OBVIOUS
<1>0. /\ time \in Nat /\ joining \in [Connections -> CodeKeys \cup {NoCodeKey}]
      /\ time <= time
  BY DEF RateInv, RateTypeOK
<1>1. CASE RateTick
  BY <1>0, <1>1, QuietPreservesRateInv DEF RateTick
<1>2. ASSUME NEW client \in Connections, AskForCode(client) PROVE RateInv'
  <2>1. joining[client] \in CodeKeys /\ time' = time
        /\ joining' \in [Connections -> CodeKeys \cup {NoCodeKey}]
    BY <1>0, <1>2 DEF AskForCode
  <2>2. <<"sessionJoinByCode", joining[client]>> \in Counters
    BY <2>1 DEF Counters
  <2>3. CASE UNCHANGED <<windowStart, counts, granted, refusedAt>>
    BY <1>0, <2>1, <2>3, QuietPreservesRateInv
  <2>4. CASE \E reading \in Readings, verdict \in BOOLEAN :
               Allow(<<"sessionJoinByCode", joining[client]>>, reading, verdict)
    BY <2>1, <2>2, <2>4, AllowPreservesRateInv
  <2> QED
    BY <1>2, <2>3, <2>4 DEF AskForCode
<1>3. ASSUME NEW client \in Connections, NEW address \in Addresses,
             AskToCreate(client, address)
      PROVE  RateInv'
  <2>1. <<"sessionCreateByIP", address>> \in Counters
    BY DEF Counters
  <2> QED
    BY <1>0, <1>3, <2>1, AllowPreservesRateInv DEF AskToCreate
<1>4. ASSUME NEW client \in Connections, NEW address \in Addresses, NEW codeKey \in CodeKeys,
             AskToJoin(client, address, codeKey)
      PROVE  RateInv'
  <2>1. <<"sessionJoinByIP", address>> \in Counters
    BY DEF Counters
  <2>2. PICK reading \in Readings, verdict \in BOOLEAN :
          /\ Allow(<<"sessionJoinByIP", address>>, reading, verdict)
          /\ joining' = IF verdict THEN [joining EXCEPT ![client] = codeKey] ELSE joining
    BY <1>4 DEF AskToJoin
  <2>3. joining' \in [Connections -> CodeKeys \cup {NoCodeKey}] /\ time' = time
    BY <1>0, <1>4, <2>2 DEF AskToJoin
  <2> QED
    BY <2>1, <2>2, <2>3, AllowPreservesRateInv
<1>5. CASE UNCHANGED rateVars
  BY <1>0, <1>5, QuietPreservesRateInv DEF rateVars
<1> QED
  BY <1>1, <1>2, <1>3, <1>4, <1>5 DEF RateNext

THEOREM RateInvHolds == RateSpec => []RateInv
<1> QED
  BY InitEstablishesRateInv, NextPreservesRateInv, PTL DEF RateSpec

(* For every limit, window and delay: no stretch of real time shorter than
   Window - MaxDelay admits more than twice the limit of a key. *)
THEOREM BurstsAreBounded == RateSpec => []BurstsBounded
<1>1. RateInv => BurstsBounded
  <2> SUFFICES ASSUME RateInv, NEW k \in Counters, NEW i \in DOMAIN granted[k],
                      Limited(k), i + 2 * Limit[k[1]] <= Len(granted[k])
               PROVE  granted[k][i + 2 * Limit[k[1]]] - granted[k][i] >= Window - MaxDelay
    BY DEF BurstsBounded
  <2>1. granted[k] \in Seq(Nat) /\ Spread(granted[k], Limit[k[1]])
    BY DEF RateInv, RateTypeOK, Known
  <2>2. Len(granted[k]) \in Nat /\ DOMAIN granted[k] = 1 .. Len(granted[k])
    BY <2>1
  <2> QED
    BY <2>1, <2>2 DEF Spread
<1> QED
  BY <1>1, RateInvHolds, PTL

(* For every limit, window and delay: a refused request had limit recent
   admissions of its own key before it. *)
THEOREM RefusalsHaveCause == RateSpec => []RefusedForCause
<1>1. RateInv => RefusedForCause
  <2> SUFFICES ASSUME RateInv, NEW k \in Counters, refusedAt[k] # NeverRefused
               PROVE  \E last \in DOMAIN granted[k] :
                        /\ last >= Limit[k[1]]
                        /\ granted[k][last] <= refusedAt[k]
                        /\ refusedAt[k] - granted[k][last - Limit[k[1]] + 1]
                             < Window + MaxDelay
    BY DEF RefusedForCause
  <2>1. granted[k] \in Seq(Nat) /\ Caused(granted[k], refusedAt[k], Limit[k[1]])
    BY DEF RateInv, RateTypeOK, Known
  <2>2. DOMAIN granted[k] = 1 .. Len(granted[k])
    BY <2>1
  <2> QED
    BY <2>1, <2>2 DEF Caused
<1> QED
  BY <1>1, RateInvHolds, PTL

(***************************************************************************)
(* The settings: what the environment says is read into a word of the      *)
(* machine, checked, handed on twice, and announced.                       *)
(***************************************************************************)
LEMMA QuotientOfProduct ==
  ASSUME NEW n \in Int, NEW s \in Nat \ {0}
  PROVE  (n * s) \div s = n
OBVIOUS

LEMMA WordHoldsWhatFits ==
  ASSUME NEW n \in Int, n \in (0 - Word \div 2) .. (Word \div 2 - 1)
  PROVE  InWord(n) = n
<1> DEFINE h == Word \div 2
<1>1. h \in Nat /\ Word = h + h
  BY SettingsAssumption
<1>2. n + h \in 0 .. Word - 1
  BY <1>1
<1>3. (n + h) % Word = n + h
  BY <1>1, <1>2, SettingsAssumption
<1> QED
  BY <1>1, <1>3 DEF InWord

(* An announcement repeats the settings in force. *)
AnswerInForce ==
  /\ "creates" \in DOMAIN answer =>
       answer.creates = [participants |-> limits["participants"], length |-> limits["length"],
                         ttl |-> InSeconds(cfg["ttl"])]
  /\ "announces" \in DOMAIN answer => answer.announces = Announced

\* The settings go from the environment to the store and to the answers.
SettingsInv ==
  /\ environ \in [Names -> EnvNumbers \cup {Unset, Garbage}]
  /\ process \in {"starting", "loaded"} => answer = NoAnswer
  /\ process \in {"loaded", "serving"} => AllIntegers /\ Valid(Loaded) /\ cfg = Loaded
  /\ process = "serving" => limits = cfg /\ AnswerInForce

LEMMA SettingsInvInit == SettingsInit => SettingsInv
BY DEF SettingsInit, SettingsInv

LEMMA SettingsInvNext == SettingsInv /\ [SettingsNext]_settingsVars => SettingsInv'
<1> SUFFICES ASSUME SettingsInv, [SettingsNext]_settingsVars PROVE SettingsInv'
  OBVIOUS
<1> USE DEF SettingsInv, AllIntegers, Loaded, IntEnv, Valid
<1>1. CASE Load
  BY <1>1 DEF Load
<1>2. CASE LoadFails \/ ListenFails \/ Signal
  BY <1>2 DEF LoadFails, ListenFails, Signal
<1>3. CASE NewRouter
  <2>1. cfg = Loaded /\ Valid(Loaded)
    BY <1>3 DEF NewRouter
  <2>2. DOMAIN cfg = Names /\ \A name \in Names : cfg[name] > 0
    BY <2>1
  <2>3. Normalized(cfg) = cfg
    BY <2>1, <2>2 DEF Normalized
  <2>4. NewStore(cfg) = cfg
    BY <2>2 DEF NewStore, Names
  <2>5. /\ cfg' = cfg /\ limits' = cfg' /\ answer' = NoAnswer
        /\ process' = "serving" /\ environ' = environ
    BY <1>3, <2>3, <2>4 DEF NewRouter
  <2>6. AnswerInForce'
    BY <2>5 DEF AnswerInForce, NoAnswer
  <2> QED
    BY <1>3, <2>5, <2>6 DEF NewRouter
<1>4. CASE CreateSession
  BY <1>4 DEF CreateSession, AnswerInForce, Announced, InSeconds
<1>5. ASSUME NEW method \in {"GET", "POST"}, NEW path \in Paths, Serve(method, path)
      PROVE  SettingsInv'
  <2>1. UNCHANGED <<process, environ, cfg, limits>> /\ process = "serving"
    BY <1>5 DEF Serve
  <2>2. \/ answer' = [status |-> 200, announces |-> Announced]
        \/ \E n \in {101, 200, 400, 404, 405} : answer' = [status |-> n]
    BY <1>5 DEF Serve, Answers, Paths
  <2>3. AnswerInForce'
    BY <2>1, <2>2 DEF AnswerInForce, Announced, InSeconds
  <2> QED
    BY <2>1, <2>3
<1>6. CASE UNCHANGED settingsVars
  BY <1>6 DEF settingsVars, AnswerInForce, Announced, InSeconds
<1> QED
  BY <1>1, <1>2, <1>3, <1>4, <1>5, <1>6 DEF SettingsNext

(* What is announced in seconds is what was read in seconds. *)
LEMMA AnnouncesEnvironment ==
  ASSUME SettingsInv, process = "serving", NEW name \in Names, Fits(name)
  PROVE  IntEnv(name) > 0 /\ Announced[name] = IntEnv(name)
<1>1. cfg[name] = Loaded[name] /\ cfg[name] > 0
  BY DEF SettingsInv, Valid
<1>2. IntEnv(name) \in Int
  <2>1. Defaults[name] \in Int
    BY SettingsAssumption
  <2>2. environ[name] # Unset => environ[name] \in Int
    BY SettingsAssumption DEF SettingsInv, AllIntegers
  <2> QED
    BY <2>1, <2>2 DEF IntEnv
<1>3. CASE name \notin Timed
  BY <1>1, <1>3 DEF Announced, Loaded
<1>4. CASE name \in Timed
  <2> DEFINE n == IntEnv(name)
             ticks == n * Second
  <2>1. ticks \in Int /\ Second \in Nat \ {0}
    BY <1>2, SettingsAssumption
  <2>2. ticks \in (0 - Word \div 2) .. (Word \div 2 - 1)
    <3>1. CASE environ[name] = Unset
      <4>1. n = Defaults[name] /\ n \in Nat /\ ticks < Word \div 2
        BY <1>4, <3>1, SettingsAssumption DEF IntEnv
      <4>2. ticks >= 0
        BY <2>1, <4>1
      <4> QED
        BY <2>1, <4>1, <4>2, SettingsAssumption
    <3>2. CASE environ[name] # Unset
      BY <1>2, <1>4, <3>2 DEF IntEnv, Fits
    <3> QED
      BY <3>1, <3>2
  <2>3. InWord(ticks) = ticks
    BY <2>1, <2>2, WordHoldsWhatFits
  <2>4. cfg[name] = ticks
    BY <1>1, <1>4, <2>3 DEF Loaded
  <2>5. ticks \div Second = n
    BY <1>2, <2>1, QuotientOfProduct
  <2>6. n > 0
    BY <1>1, <1>2, <2>1, <2>4
  <2> QED
    BY <1>4, <2>4, <2>5, <2>6 DEF Announced, InSeconds
<1> QED
  BY <1>3, <1>4

(* Whatever the environment says and however the relay got there: a relay that
   serves enforces what it announces, and both are what its environment says
   wherever that fits a word of the machine. *)
THEOREM LimitsAlwaysInForce == SettingsInit /\ [][SettingsNext]_settingsVars => []LimitsInForce
<1>1. SettingsInv => LimitsInForce
  <2> SUFFICES ASSUME SettingsInv, process = "serving" PROVE LimitsInForce
    BY DEF LimitsInForce
  <2>1. \A name \in Names \ {"heartbeat"} : limits[name] = cfg[name]
    BY DEF SettingsInv
  <2>2. \A name \in Names :
          /\ environ[name] # Garbage
          /\ Fits(name) => IntEnv(name) > 0 /\ Announced[name] = IntEnv(name)
    BY AnnouncesEnvironment DEF SettingsInv, AllIntegers
  <2>3. "creates" \in DOMAIN answer =>
          \A name \in DOMAIN answer.creates : answer.creates[name] = Announced[name]
    BY DEF SettingsInv, AnswerInForce, Announced, Names, Timed
  <2>4. "announces" \in DOMAIN answer => answer.announces = Announced
    BY DEF SettingsInv, AnswerInForce
  <2> QED
    BY <2>1, <2>2, <2>3, <2>4 DEF LimitsInForce
<1> QED
  BY <1>1, SettingsInvInit, SettingsInvNext, PTL

(***************************************************************************)
(* The messages: what a controller writes has one of six sound forms, and  *)
(* the relay makes of each only what a controller understands.             *)
(***************************************************************************)
ToRelayInv == toRelay # None => toRelay.from \in Ids /\ toRelay.message \in ClientMessages

\* What a controller acts upon, or has no case for.
Fine(me, m) == m.type \in PassedOver \/ Understands(me, m)

ToClientInv == toClient # None => Fine(toClient.to, toClient.message)

ProtocolInv == ToRelayInv /\ ToClientInv

LEMMA TrimOfGiven ==
  ASSUME NEW text \in Given
  PROVE  Trim(text) \in Ids /\ Trim(Trim(text)) = Trim(text) /\ Trim(text) # ""
BY ProtocolAssumption DEF Given, Texts, Trim

LEMMA TrimOfId == \A text \in Ids : Trim(text) = text /\ text # "" /\ text # None
BY ProtocolAssumption DEF Trim

(* What every message of a controller is. *)
SoundCreate(m) == m.type = "session.create" /\ Trim(m.nickname) # "" /\ Trim(m.device) # ""
SoundJoin(m) ==
  /\ m.type = "session.join"
  /\ Trim(m.code) # "" /\ Trim(m.nickname) # "" /\ Trim(m.device) # ""
SoundSnapshot(m) ==
  /\ m.type = "board.snapshot"
  /\ Trim(m.target) # "" /\ m.version > 0 /\ m.cursor >= 0
  /\ [m EXCEPT !.target = Trim(@)].target = Trim(m.target)
SoundAck(m) == m.type = "board.snapshot.ack" /\ m.version > 0
SoundAction(m) == m.type = "board.action" /\ Trim(m.id) # "" /\ m.sequence > 0
SoundPresence(m) ==
  m.type = "presence.update" /\ m.tool \in SupportedTools /\ m.state \in SupportedStates

LEMMA MessagesAreSound ==
  ASSUME NEW m \in ClientMessages
  PROVE  \/ SoundCreate(m) \/ SoundJoin(m) \/ SoundSnapshot(m) \/ SoundAck(m)
         \/ SoundAction(m) \/ SoundPresence(m)
<1>n. Numbers \subseteq Int
  BY ProtocolAssumption
<1>0. \A number \in Numbers : ProtocolNumber(1, number) > 0 /\ ProtocolNumber(0, number) >= 0
  BY <1>n DEF ProtocolNumber
<1>1. CASE m \in SessionCreates
  <2> PICK n \in Given, d \in Given :
        m = [type |-> "session.create", nickname |-> Trim(n), device |-> Trim(d)]
    BY <1>1 DEF SessionCreates
  <2>1. m.type = "session.create" /\ m.nickname = Trim(n) /\ m.device = Trim(d)
    OBVIOUS
  <2> QED
    BY <2>1, TrimOfGiven DEF SoundCreate
<1>2. CASE m \in SessionJoins
  <2> PICK c \in Given, n \in Given, d \in Given :
        m = [type |-> "session.join", code |-> Trim(c), nickname |-> Trim(n), device |-> Trim(d)]
    BY <1>2 DEF SessionJoins
  <2>1. /\ m.type = "session.join" /\ m.code = Trim(c)
        /\ m.nickname = Trim(n) /\ m.device = Trim(d)
    OBVIOUS
  <2> QED
    BY <2>1, TrimOfGiven DEF SoundJoin
<1>3. CASE m \in BoardSnapshots
  <2> PICK t \in Given, v \in Numbers, c \in Numbers :
        m = [type |-> "board.snapshot", target |-> Trim(t), version |-> ProtocolNumber(1, v),
             cursor |-> ProtocolNumber(0, c)]
    BY <1>3 DEF BoardSnapshots
  <2>1. /\ m.type = "board.snapshot" /\ m.target = Trim(t)
        /\ m.version = ProtocolNumber(1, v) /\ m.cursor = ProtocolNumber(0, c)
        /\ [m EXCEPT !.target = Trim(@)].target = Trim(m.target)
    OBVIOUS
  <2> QED
    BY <1>0, <2>1, TrimOfGiven DEF SoundSnapshot
<1>4. CASE m \in BoardSnapshotAcks
  <2> PICK v \in Numbers : m = [type |-> "board.snapshot.ack", version |-> ProtocolNumber(1, v)]
    BY <1>4 DEF BoardSnapshotAcks
  <2>1. m.type = "board.snapshot.ack" /\ m.version = ProtocolNumber(1, v)
    OBVIOUS
  <2> QED
    BY <1>0, <2>1 DEF SoundAck
<1>5. CASE m \in BoardActions
  <2> PICK i \in Ids, s \in {n + 1 : n \in {n \in Numbers : n >= 0}}, o \in Ids \cup {None} :
        m = [type |-> "board.action", id |-> i, sequence |-> s, object |-> o]
    BY <1>5 DEF BoardActions
  <2>1. m.type = "board.action" /\ m.id = i /\ m.sequence = s
    OBVIOUS
  <2>2. s > 0
    BY <1>n
  <2> QED
    BY <2>1, <2>2, TrimOfId DEF SoundAction
<1>6. CASE m \in PresenceUpdates
  <2> PICK t \in Tools, s \in PresenceStates :
        m = [type |-> "presence.update", tool |-> t, state |-> s]
    BY <1>6 DEF PresenceUpdates
  <2>1. m.type = "presence.update" /\ m.tool = t /\ m.state = s
    OBVIOUS
  <2> QED
    BY <2>1 DEF SoundPresence, Tools, SupportedTools, PresenceStates, SupportedStates
<1> QED
  BY <1>1, <1>2, <1>3, <1>4, <1>5, <1>6 DEF ClientMessages

(* None is refused for its form. *)
LEMMA ClientsAreAccepted ==
  ASSUME NEW m \in ClientMessages
  PROVE  Accepts(m)
BY MessagesAreSound
   DEF Accepts, SoundCreate, SoundJoin, SoundSnapshot, SoundAck, SoundAction, SoundPresence

(* What the relay makes of it is understood by whoever gets it. *)
LEMMA AnswersAreUnderstood ==
  ASSUME NEW from \in Ids, NEW m \in ClientMessages, NEW sent \in Outbound(from, m)
  PROVE  Fine(sent.to, sent.message)
<1>1. CASE SoundCreate(m)
  <2>1. m.type = "session.create"
    BY <1>1 DEF SoundCreate
  <2>2. PICK b \in Ids :
          sent = [to |-> from,
                  message |-> [type |-> "session.created", board |-> b, actor |-> from]]
    BY <2>1 DEF Outbound
  <2>3. /\ sent.message.type = "session.created"
        /\ sent.message.board = b /\ sent.message.actor = from
    BY <2>2
  <2> QED
    BY <2>3, TrimOfId DEF Fine, Understands
<1>2. CASE SoundJoin(m)
  <2>1. m.type = "session.join"
    BY <1>2 DEF SoundJoin
  <2>2. \/ \E b \in Ids :
             sent = [to |-> from,
                     message |-> [type |-> "session.joined", board |-> b, actor |-> from]]
        \/ \E r \in Rejections :
             sent = [to |-> from, message |-> [type |-> "session.join_rejected", reason |-> r]]
        \/ \E u \in Ids \ {from} :
             sent = [to |-> u, message |-> [type |-> "participant.joined", actor |-> from]]
        \/ \E u \in Ids \ {from} :
             sent = [to |-> u, message |-> [type |-> "board.snapshot.request", target |-> from]]
    BY <2>1 DEF Outbound
  <2>3. \/ /\ sent.message.type = "session.joined"
           /\ sent.message.board \in Ids /\ sent.message.actor = from
        \/ sent.message.type = "session.join_rejected" /\ sent.message.reason \in Rejections
        \/ sent.message.type = "participant.joined"
        \/ sent.message.type = "board.snapshot.request" /\ sent.message.target = from
    BY <2>2
  <2> QED
    BY <2>3, TrimOfId DEF Fine, Understands, Rejections, JoinRejectedReasons, ErrorCodes
<1>3. CASE SoundSnapshot(m)
  <2>1. m.type = "board.snapshot"
    BY <1>3 DEF SoundSnapshot
  <2>2. sent = [to |-> Trim(m.target), message |-> Forward(from, [m EXCEPT !.target = Trim(@)])]
    BY <2>1 DEF Outbound
  <2>3. /\ sent.to = Trim(m.target)
        /\ sent.message.type = [m EXCEPT !.target = Trim(@)].type
        /\ sent.message.body = [m EXCEPT !.target = Trim(@)]
    BY <2>2 DEF Forward
  <2>4. sent.message.type = "board.snapshot"
    BY <2>1, <2>3, <1>3
  <2> QED
    BY <1>3, <2>3, <2>4 DEF Fine, Understands, SoundSnapshot
<1>4. CASE SoundAck(m) \/ SoundAction(m) \/ SoundPresence(m)
  <2>1. m.type \in {"board.snapshot.ack", "board.action", "presence.update"}
    BY <1>4 DEF SoundAck, SoundAction, SoundPresence
  <2>2. PICK u \in Ids \ {from} : sent = [to |-> u, message |-> Forward(from, m)]
    BY <2>1 DEF Outbound
  <2>3. /\ sent.to = u /\ sent.message.type = m.type
        /\ sent.message.actor = from /\ sent.message.body = m
    BY <2>2 DEF Forward
  <2> QED
    BY <1>4, <2>3, TrimOfId
       DEF Fine, Understands, PassedOver, SoundAck, SoundAction, SoundPresence
<1> QED
  BY <1>1, <1>2, <1>3, <1>4, MessagesAreSound

LEMMA ErrorsAreUnderstood == \A me, code : code \in ErrorCodes => Fine(me, ErrorMessage(code))
<1> SUFFICES ASSUME NEW me, NEW code \in ErrorCodes PROVE Fine(me, ErrorMessage(code))
  OBVIOUS
<1>1. ErrorMessage(code).type = "error" /\ ErrorMessage(code).code = code
  BY DEF ErrorMessage
<1> QED
  BY <1>1 DEF Fine, Understands

LEMMA ProtocolInvNext == ProtocolInv /\ [ProtocolNext]_protocolVars => ProtocolInv'
<1> SUFFICES ASSUME ProtocolInv, [ProtocolNext]_protocolVars PROVE ProtocolInv'
  OBVIOUS
<1> USE DEF ProtocolInv, ToRelayInv, ToClientInv
<1>1. ASSUME NEW from \in Ids, Send(from) PROVE ProtocolInv'
  BY <1>1 DEF Send, Fine
<1>2. CASE Handle
  <2>1. /\ toRelay.from \in Ids /\ toRelay.message \in ClientMessages
        /\ toRelay' = None /\ toClient = None
    BY <1>2 DEF Handle
  <2>2. CASE toClient' \in Outbound(toRelay.from, toRelay.message)
    BY <2>1, <2>2, AnswersAreUnderstood DEF Fine
  <2>3. CASE toClient' \in {[to |-> toRelay.from, message |-> failure] : failure \in Failures}
    <3>1. PICK code \in ErrorCodes :
            toClient' = [to |-> toRelay.from, message |-> ErrorMessage(code)]
      BY <2>3 DEF Failures, ErrorCodes
    <3>2. Fine(toClient'.to, toClient'.message)
      BY <3>1, ErrorsAreUnderstood
    <3> QED
      BY <2>1, <3>2 DEF Fine
  <2>4. CASE UNCHANGED toClient
    BY <2>1, <2>4
  <2> QED
    BY <1>2, <2>2, <2>3, <2>4 DEF Handle
<1>3. CASE Announce
  <2>1. PICK u \in Ids :
          \/ \E a \in Ids \ {u}, r \in Departures :
               toClient' = [to |-> u,
                            message |-> [type |-> "participant.left", actor |-> a, reason |-> r]]
          \/ \E code \in {"snapshot_timeout", "board_unavailable"} :
               toClient' = [to |-> u, message |-> ErrorMessage(code)]
          \/ toClient' = [to |-> u, message |-> [type |-> "board.code.revoked"]]
    BY <1>3 DEF Announce
  <2>2. Fine(toClient'.to, toClient'.message)
    <3>2. CASE \E a \in Ids \ {u}, r \in Departures :
                 toClient' = [to |-> u,
                              message |-> [type |-> "participant.left", actor |-> a, reason |-> r]]
      <4>1. toClient'.message.type = "participant.left" /\ toClient'.message.reason \in Departures
        BY <3>2
      <4> QED
        BY <4>1 DEF Fine, Understands, Departures, LeftReasons
    <3>3. CASE \E code \in {"snapshot_timeout", "board_unavailable"} :
                 toClient' = [to |-> u, message |-> ErrorMessage(code)]
      BY <3>3, ErrorsAreUnderstood DEF ErrorCodes
    <3>4. CASE toClient' = [to |-> u, message |-> [type |-> "board.code.revoked"]]
      BY <3>4 DEF Fine, PassedOver
    <3> QED
      BY <2>1, <3>2, <3>3, <3>4
  <2> QED
    BY <1>3, <2>2 DEF Announce, Fine
<1>4. CASE Read
  BY <1>4 DEF Read
<1>5. CASE UNCHANGED protocolVars
  BY <1>5 DEF protocolVars, Fine
<1> QED
  BY <1>1, <1>2, <1>3, <1>4, <1>5 DEF ProtocolNext

(* The relay refuses no message of a controller for its form, and a controller
   acts upon every message of the relay but those it has no case for: for any
   texts, ids and numbers, and any interleaving of the two directions. *)
THEOREM AlwaysUnderstood == ProtocolInit /\ [][ProtocolNext]_protocolVars => []UnderstandEachOther
<1>1. ProtocolInit => ProtocolInv
  BY DEF ProtocolInit, ProtocolInv, ToRelayInv, ToClientInv
<1>2. ProtocolInv => UnderstandEachOther
  BY ClientsAreAccepted DEF ProtocolInv, ToRelayInv, ToClientInv, Fine, UnderstandEachOther
<1> QED
  BY <1>1, <1>2, ProtocolInvNext, PTL

-----------------------------------------------------------------------------
(* All parts of a board at the relay.                                       *)

(* The parts keep to their own specifications when they run beside each
   other, so that what is proved of each holds of all. *)
LEMMA BoardPartsKeepToThemselves ==
  BoardsSpec =>
    /\ Spec /\ PanelsSpec /\ HandshakeSpec /\ RateSpec
    /\ SettingsInit /\ [][SettingsNext]_settingsVars
    /\ ProtocolInit /\ [][ProtocolNext]_protocolVars
<1> DEFINE whole == <<moving, vars, panelsVars, handshakeVars, rateVars, settingsVars,
                      protocolVars>>
<1>1. BoardsInit =>
        Init /\ PanelsInit /\ HandshakeInit /\ RateInit /\ SettingsInit /\ ProtocolInit
  BY DEF BoardsInit
<1>2. [BoardsNext]_whole =>
        /\ [Next]_vars /\ [PanelsNext]_panelsVars /\ [HandshakeNext]_handshakeVars
        /\ [RateNext]_rateVars /\ [SettingsNext]_settingsVars /\ [ProtocolNext]_protocolVars
  BY DEF BoardsNext
<1> QED
  BY <1>1, <1>2, PTL DEF BoardsSpec, Spec, PanelsSpec, HandshakeSpec, RateSpec

(* Under the specification of them all: the store, the panels, the handshake,
   the limits, the settings and the messages keep what each promises. *)
THEOREM BoardsKeepPromises ==
  BoardsSpec =>
    /\ [](StoreInv /\ PanelsInv /\ OwnerSeesEverybody /\ OneOfTwoSees)
    /\ [](ErrorsHaveCause /\ LetInOnce /\ TargetsAreAwaited)
    /\ [](BurstsBounded /\ RefusedForCause /\ LimitsInForce /\ UnderstandEachOther)
    /\ RevokedAdmitsNobody /\ ExpiredStaysExpired /\ ActivityNeverLost
BY BoardPartsKeepToThemselves, StoreInvariant, RevokedForGood, ExpiredForGood, ActivityKept,
   PanelsAlwaysSound, OwnerAlwaysSeesEverybody, OneOfTwoAlwaysSees, ErrorsAlwaysHaveCause,
   AlwaysLetInOnce, TargetsAlwaysAwaited, BurstsAreBounded, RefusalsHaveCause,
   LimitsAlwaysInForce, AlwaysUnderstood, PTL
=============================================================================
