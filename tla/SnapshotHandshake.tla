-------------------------- MODULE SnapshotHandshake --------------------------
(***************************************************************************)
(* How a guest gets the owner's board: the relay asks the owner, the       *)
(* owner's controller answers with a snapshot, the relay forwards it, the  *)
(* guest's controller acknowledges it, and the relay forwards that; with   *)
(* the messages on their way between the three, the snapshot timer, and    *)
(* what each does when one of the others answers with an error.            *)
(*                                                                         *)
(* A newcomer is a connection of a guest.  The owner is connected and      *)
(* stays so; the locked sections of the relay's handlers are in module     *)
(* Relay, and what is sent besides in SyncController.  A definition whose  *)
(* name continues that of another one (ProtocolVersionAsIs, PendingKept,   *)
(* AckOfOwner) is a faulty variant.                                        *)
(***************************************************************************)
EXTENDS Naturals, Sequences

CONSTANTS
  Newcomers,
  MaxVersion  \* bound on the version of the owner's board

ASSUME HandshakeAssumption == MaxVersion \in Nat

VARIABLES
  \* the relay
  stage,            \* newcomer -> where its goroutine is
  live,             \* newcomers whose connection is open
  registered,       \* connectionsByBoard
  pendingRequests,  \* pendingSnapshotRequests
  expired,          \* the board has expired
  serving,          \* the snapshot in handleBoardSnapshot, and how far it is
  \* messages on their way
  toOwner, fromOwner, toGuest, fromGuest,
  \* the owner's controller and board
  ownerPhase, snapshotVersion, pendingTargets,
  \* the guests' controllers
  guestPhase, unlocked,
  \* history: the newcomers whose request the owner's controller passed over
  ignored

relayVars == <<stage, live, registered, pendingRequests, expired, serving>>
ownerVars == <<ownerPhase, snapshotVersion, pendingTargets>>
guestVars == <<guestPhase, unlocked>>
wires == <<toOwner, fromOwner, toGuest, fromGuest>>
handshakeVars == <<relayVars, ownerVars, guestVars, wires, ignored>>

(***************************************************************************)
(* Messages.                                                               *)
(***************************************************************************)
SnapshotRequest(g) == [type |-> "board.snapshot.request", target |-> g]
Snapshot(g, version) == [type |-> "board.snapshot", target |-> g, version |-> version]
SnapshotAck(g, version) == [type |-> "board.snapshot.ack", actor |-> g, version |-> version]
Error(code) == [type |-> "error", code |-> code]

HandshakeErrorCodes == {"invalid_message", "board_unavailable", "internal_error", "snapshot_timeout"}
Versions == 0 .. MaxVersion + 1

SnapshotRequests == {SnapshotRequest(g) : g \in Newcomers}
Snapshots == {Snapshot(g, v) : g \in Newcomers, v \in Versions}
Acks == {SnapshotAck(g, v) : g \in Newcomers, v \in Versions}
ErrorMessages == {Error(code) : code \in HandshakeErrorCodes}

\* validateBoardSnapshotPayload, validateBoardSnapshotAckPayload
ValidSnapshot(message) == message.version > 0
ValidAck(message) == message.version > 0

(***************************************************************************)
(* States.                                                                 *)
(***************************************************************************)
HandshakeStages == {"away", "joined", "asked", "unregistered", "gone"}
Nothing == [step |-> "none"]
Steps == {Nothing} \cup [step : {"taken", "found", "touched"}, message : Snapshots]

HandshakeTypeOK ==
  /\ stage \in [Newcomers -> HandshakeStages]
  /\ live \subseteq Newcomers /\ registered \subseteq Newcomers
  /\ pendingRequests \subseteq Newcomers
  /\ expired \in BOOLEAN
  /\ serving \in Steps
  /\ toOwner \in Seq(SnapshotRequests \cup Acks \cup ErrorMessages)
  /\ fromOwner \in Seq(Snapshots)
  /\ toGuest \in [Newcomers -> Seq(Snapshots \cup ErrorMessages)]
  /\ fromGuest \in [Newcomers -> Seq(Acks)]
  /\ ownerPhase \in {"ready", "error"}
  /\ snapshotVersion \in 0 .. MaxVersion
  /\ pendingTargets \subseteq Newcomers
  /\ guestPhase \in [Newcomers -> {"connecting", "awaiting_snapshot", "ready", "error"}]
  /\ unlocked \subseteq Newcomers
  /\ ignored \subseteq Newcomers

HandshakeInit ==
  /\ stage = [g \in Newcomers |-> "away"]
  /\ live = {} /\ registered = {} /\ pendingRequests = {}
  /\ expired = FALSE /\ serving = Nothing
  /\ toOwner = << >> /\ fromOwner = << >>
  /\ toGuest = [g \in Newcomers |-> << >>]
  /\ fromGuest = [g \in Newcomers |-> << >>]
  /\ ownerPhase = "ready" /\ snapshotVersion = 0 /\ pendingTargets = {}
  /\ guestPhase = [g \in Newcomers |-> "connecting"]
  /\ unlocked = {} /\ ignored = {}

(***************************************************************************)
(* The relay.                                                              *)
(***************************************************************************)

\* handleSessionJoin up to session.joined, which the guest's controller has
\* received before anything that follows: registered, and its request pending.
Enter(g) ==
  /\ stage[g] = "away" /\ ~expired
  /\ stage' = [stage EXCEPT ![g] = "joined"]
  /\ live' = live \cup {g}
  /\ registered' = registered \cup {g}
  /\ pendingRequests' = pendingRequests \cup {g}
  /\ guestPhase' = [guestPhase EXCEPT ![g] = "awaiting_snapshot"]
  /\ UNCHANGED <<expired, serving, ownerVars, unlocked, wires, ignored>>

\* sendBoardSnapshotRequest, also for a guest that has gone or timed out.
Ask(g) ==
  /\ stage[g] = "joined"
  /\ stage' = [stage EXCEPT ![g] = "asked"]
  /\ toOwner' = Append(toOwner, SnapshotRequest(g))
  /\ UNCHANGED <<live, registered, pendingRequests, expired, serving,
                 ownerVars, guestVars, fromOwner, toGuest, fromGuest, ignored>>

\* A message written to a connection that is closed is lost.
Delivered(g, message) ==
  IF g \in live THEN [toGuest EXCEPT ![g] = Append(@, message)] ELSE toGuest

\* The snapshot timer: failPendingSnapshotRequest and its close.
Timeout(g) ==
  /\ g \in pendingRequests
  /\ pendingRequests' = pendingRequests \ {g}
  /\ toGuest' = Delivered(g, Error("snapshot_timeout"))
  /\ live' = live \ {g}
  /\ UNCHANGED <<stage, registered, expired, serving, ownerVars, guestVars,
                 toOwner, fromOwner, fromGuest, ignored>>

\* A guest closes its connection, or loses it with what is on its way.
CloseGuest(g) ==
  /\ g \in live
  /\ live' = live \ {g}
  /\ toGuest' = [toGuest EXCEPT ![g] = << >>]
  /\ UNCHANGED <<stage, registered, pendingRequests, expired, serving,
                 ownerVars, guestVars, toOwner, fromOwner, fromGuest, ignored>>

\* handleSocketDisconnect: unregisterConnection, clearPendingSnapshotRequest.
Unregister(g) ==
  /\ stage[g] \in {"joined", "asked"} /\ g \notin live
  /\ stage' = [stage EXCEPT ![g] = "unregistered"]
  /\ registered' = registered \ {g}
  /\ fromGuest' = [fromGuest EXCEPT ![g] = << >>]
  /\ UNCHANGED <<live, pendingRequests, expired, serving, ownerVars, guestVars,
                 toOwner, fromOwner, toGuest, ignored>>

ClearPending(g) ==
  /\ stage[g] = "unregistered"
  /\ stage' = [stage EXCEPT ![g] = "gone"]
  /\ pendingRequests' = pendingRequests \ {g}
  /\ UNCHANGED <<live, registered, expired, serving, ownerVars, guestVars, wires, ignored>>

\* The board expires: from now on TouchBoard finds none.
Expire ==
  /\ ~expired
  /\ expired' = TRUE
  /\ UNCHANGED <<stage, live, registered, pendingRequests, serving,
                 ownerVars, guestVars, wires, ignored>>

\* writeSocketError to the owner ends a handler.
RefuseAnswer(code) == serving' = Nothing /\ toOwner' = Append(toOwner, Error(code))

PendingKept(g) == pendingRequests
\* completePendingSnapshotRequest
PendingWithout(g) == pendingRequests \ {g}

\* handleBoardSnapshot: the checks, and the request taken off.
TakeSnapshot ==
  /\ serving = Nothing /\ fromOwner # << >>
  /\ fromOwner' = Tail(fromOwner)
  /\ LET message == Head(fromOwner) IN
       \/ /\ ~ValidSnapshot(message)
          /\ RefuseAnswer("invalid_message")
          /\ UNCHANGED pendingRequests
       \/ /\ ValidSnapshot(message) /\ message.target \notin pendingRequests
          /\ RefuseAnswer("board_unavailable")
          /\ UNCHANGED pendingRequests
       \/ /\ ValidSnapshot(message) /\ message.target \in pendingRequests
          /\ pendingRequests' = PendingWithout(message.target)
          /\ serving' = [step |-> "taken", message |-> message]
          /\ UNCHANGED toOwner
  /\ UNCHANGED <<stage, live, registered, expired, ownerVars, guestVars,
                 toGuest, fromGuest, ignored>>

Proceeds(from, to, condition) ==
  /\ serving.step = from
  /\ \/ condition /\ serving' = [serving EXCEPT !.step = to] /\ UNCHANGED toOwner
     \/ ~condition /\ RefuseAnswer("board_unavailable")
  /\ UNCHANGED <<stage, live, registered, pendingRequests, expired, ownerVars, guestVars,
                 fromOwner, toGuest, fromGuest, ignored>>

\* connectionForActor of the target; touchBoardActivity
FindTarget == serving.step = "taken" /\ Proceeds("taken", "found", serving.message.target \in registered)
TouchForSnapshot == Proceeds("found", "touched", ~expired)

\* The write fails, or does not yet, if the guest has gone.
ForwardSnapshot ==
  /\ serving.step = "touched"
  /\ LET g == serving.message.target IN
       /\ toGuest' = Delivered(g, serving.message)
       /\ \/ serving' = Nothing /\ UNCHANGED toOwner
          \/ g \notin live /\ RefuseAnswer("internal_error")
  /\ UNCHANGED <<stage, live, registered, pendingRequests, expired, ownerVars, guestVars,
                 fromOwner, fromGuest, ignored>>

AckOfOwner(g, version) == SnapshotAck("owner", version)
\* The acknowledgement as it is forwarded: of the actor it came from.
AckOf(g, version) == SnapshotAck(g, version)

\* handleBoardSnapshotAck
ServeAck(g) ==
  /\ g \in live /\ fromGuest[g] # << >>
  /\ fromGuest' = [fromGuest EXCEPT ![g] = Tail(@)]
  /\ LET message == Head(fromGuest[g]) IN
       \/ /\ ValidAck(message) /\ ~expired
          /\ toOwner' = Append(toOwner, AckOf(g, message.version))
          /\ UNCHANGED toGuest
       \/ /\ ValidAck(message) /\ expired
          /\ toGuest' = Delivered(g, Error("board_unavailable"))
          /\ UNCHANGED toOwner
       \/ /\ ~ValidAck(message)
          /\ toGuest' = Delivered(g, Error("invalid_message"))
          /\ UNCHANGED toOwner
  /\ UNCHANGED <<relayVars, ownerVars, guestVars, fromOwner, ignored>>

(***************************************************************************)
(* The owner's controller.                                                 *)
(***************************************************************************)

\* The owner's board is restored or imported, with the version it had.
LoadBoard ==
  /\ snapshotVersion' \in 0 .. MaxVersion
  /\ UNCHANGED <<relayVars, ownerPhase, pendingTargets, guestVars, wires, ignored>>

ProtocolVersionAsIs(version) == version
\* createProtocolSnapshot
ProtocolVersion(version) == IF version < 1 THEN 1 ELSE version

OwnerReceives(type) ==
  /\ toOwner # << >> /\ Head(toOwner).type = type
  /\ toOwner' = Tail(toOwner)
  /\ UNCHANGED <<relayVars, snapshotVersion, guestVars, toGuest, fromGuest>>

\* handleBoardSnapshotRequest
ReceiveRequest ==
  /\ OwnerReceives("board.snapshot.request")
  /\ LET g == Head(toOwner).target IN
       \/ /\ ownerPhase = "ready"
          /\ pendingTargets' = pendingTargets \cup {g}
          /\ fromOwner' = Append(fromOwner, Snapshot(g, ProtocolVersion(snapshotVersion)))
          /\ UNCHANGED ignored
       \/ /\ ownerPhase # "ready"
          /\ ignored' = ignored \cup {g}
          /\ UNCHANGED <<pendingTargets, fromOwner>>
  /\ UNCHANGED ownerPhase

\* handleBoardSnapshotAck
ReceiveAck ==
  /\ OwnerReceives("board.snapshot.ack")
  /\ pendingTargets' = pendingTargets \ {Head(toOwner).actor}
  /\ UNCHANGED <<ownerPhase, fromOwner, ignored>>

\* handleError, whatever the error is about
OwnerReceivesError ==
  /\ OwnerReceives("error")
  /\ ownerPhase' = "error"
  /\ UNCHANGED <<pendingTargets, fromOwner, ignored>>

(***************************************************************************)
(* The guests' controllers.                                                *)
(***************************************************************************)
GuestReceives(g, type) ==
  /\ toGuest[g] # << >> /\ Head(toGuest[g]).type = type
  /\ toGuest' = [toGuest EXCEPT ![g] = Tail(@)]
  /\ UNCHANGED <<relayVars, ownerVars, toOwner, fromOwner, ignored>>

\* handleBoardSnapshot
ReceiveSnapshot(g) ==
  /\ GuestReceives(g, "board.snapshot")
  /\ LET version == Head(toGuest[g]).version IN
       fromGuest' = [fromGuest EXCEPT ![g] =
                       Append(@, SnapshotAck(g, ProtocolVersion(version)))]
  /\ unlocked' = unlocked \cup {g}
  /\ guestPhase' = [guestPhase EXCEPT ![g] = "ready"]

\* handleError
GuestReceivesError(g) ==
  /\ GuestReceives(g, "error")
  /\ unlocked' = IF Head(toGuest[g]).code = "snapshot_timeout" THEN unlocked \ {g} ELSE unlocked
  /\ guestPhase' = [guestPhase EXCEPT ![g] = "error"]
  /\ UNCHANGED fromGuest

HandshakeNext ==
  \/ \E g \in Newcomers :
       \/ Enter(g) \/ Ask(g) \/ Timeout(g) \/ CloseGuest(g) \/ Unregister(g) \/ ClearPending(g)
       \/ ServeAck(g) \/ ReceiveSnapshot(g) \/ GuestReceivesError(g)
  \/ Expire
  \/ TakeSnapshot \/ FindTarget \/ TouchForSnapshot \/ ForwardSnapshot
  \/ LoadBoard \/ ReceiveRequest \/ ReceiveAck \/ OwnerReceivesError

HandshakeSpec == HandshakeInit /\ [][HandshakeNext]_handshakeVars
(***************************************************************************)
(* Properties.                                                             *)
(***************************************************************************)

OnItsWay(channel, type) == \E k \in DOMAIN channel : channel[k].type = type

\* Nothing is on its way, and nothing is being handled.
AllSettled ==
  /\ serving = Nothing /\ toOwner = << >> /\ fromOwner = << >>
  /\ \A g \in Newcomers : toGuest[g] = << >> /\ fromGuest[g] = << >>

(* Within the handshake: the owner's controller is told of an error, which ends its
   phase 'ready', only if the board has expired or a guest it was asked about has
   gone (what other messages may bring an error is not in this module): the snapshot
   it sends is one the relay accepts whatever version its board has
   (createProtocolSnapshot, validateBoardSnapshotPayload), and no answer of its
   is ever taken for a second one. *)
ErrorsHaveCause ==
  ownerPhase = "error" \/ OnItsWay(toOwner, "error") =>
    expired \/ \E g \in Newcomers \ live : stage[g] \in {"asked", "unregistered", "gone"}

(* A guest that has been let in is not waited for any more: its request is off
   the relay's list, so that the snapshot timer, which races the owner's answer,
   can neither tell it of a snapshot_timeout nor close its connection. *)
LetInOnce ==
  \A g \in Newcomers :
    guestPhase[g] = "ready" =>
      /\ g \in unlocked
      /\ g \notin pendingRequests
      /\ \A k \in DOMAIN toGuest[g] :
           toGuest[g][k].type = "error" => toGuest[g][k].code # "snapshot_timeout"

(* Once all has arrived, the owner's controller has struck every guest that was
   let in off its list pendingSnapshotTargetIds: the acknowledgement comes back
   with the actor id the snapshot was sent to. *)
TargetsAreAwaited ==
  AllSettled =>
    \A g \in live : guestPhase[g] = "ready" => g \notin pendingTargets

(* "Relay asks the owner for a fresh snapshot.  Owner sends board.snapshot"
   (README.md, "How It Works"): the owner answers every request.  It does not: a
   guest that leaves before its snapshot comes makes the relay answer the owner
   with an error, any error takes the owner's controller out of phase 'ready'
   for good (handleError), and outside it requests are passed over. *)
RequestsAnswered == ignored = {}
=============================================================================
