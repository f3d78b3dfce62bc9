------------------------------ MODULE RoomStore ------------------------------
(***************************************************************************)
(* The in-memory room store of the relay                                   *)
(* (apps/relay/internal/roomstore): boards, their join codes, their        *)
(* participants and the expiry of boards nobody uses.                      *)
(*                                                                         *)
(* Every exported method of Store takes store.mu for its whole body, so an *)
(* operation is one action.  Its last parameter err is the error it        *)
(* returns, "ok" standing for nil: a caller that composes the store with   *)
(* its own state tells the outcomes apart by that argument.                *)
(*                                                                         *)
(* Callers read the clock BEFORE the store takes its lock and pass the     *)
(* reading in: an operation may therefore run with a time up to MaxLag     *)
(* ticks old.  GetBoardByJoinCode alone reads the clock under the lock.    *)
(*                                                                         *)
(* Join codes and actor ids stand for their normalized forms               *)
(* (normalizeJoinCode, prepareParticipant); requests those functions       *)
(* refuse change nothing and are left out.                                 *)
(***************************************************************************)
EXTENDS Integers, Sequences, FiniteSets

CONSTANTS
  BoardIDs,          \* the board ids a caller may generate
  JoinCodes,         \* the join codes the alphabet allows
  Actors,            \* the actor ids a caller may generate
  NoCode,            \* the empty join code of a board whose code was revoked
  NoBoard,           \* the absence of an entry in one of the two maps
  MaxParticipants,   \* capacity of a board
  CodeTTL,           \* ticks of inactivity after which a board has expired
  MaxLag,            \* age of the clock reading an operation may run with
  MaxClock           \* bound: the clock stops there

ASSUME NumbersAssumption ==
  /\ MaxParticipants \in Nat \ {0}
  /\ CodeTTL \in Nat \ {0}
  /\ MaxLag \in Nat
  /\ MaxClock \in Nat

ASSUME NoneAssumption ==
  /\ NoCode \notin JoinCodes
  /\ NoBoard \notin BoardIDs

VARIABLES
  boardsByID,          \* board id -> record, or NoBoard
  boardIDsByJoinCode,  \* join code -> board id, or NoBoard
  clock                \* the wall clock

vars == <<boardsByID, boardIDsByJoinCode, clock>>

(***************************************************************************)
(* Type definitions.                                                       *)
(***************************************************************************)
BoardRecord ==
  [joinCode         : JoinCodes \cup {NoCode},
   ownerActorID     : Actors,
   lastActivityAt   : Nat,
   participantOrder : Seq(Actors),
   participants     : SUBSET Actors]

ASSUME NoBoardAssumption == NoBoard \notin BoardRecord

Errors ==
  {"ok", "ErrBoardAlreadyExists", "ErrBoardFull", "ErrBoardNotFound",
   "ErrJoinCodeAlreadyExists", "ErrJoinCodeGenerationFailed",
   "ErrJoinCodeNotFound", "ErrParticipantAlreadyExists",
   "ErrParticipantNotFound"}

TypeOK ==
  /\ boardsByID \in [BoardIDs -> BoardRecord \cup {NoBoard}]
  /\ boardIDsByJoinCode \in [JoinCodes -> BoardIDs \cup {NoBoard}]
  /\ clock \in 0 .. MaxClock

Init ==
  /\ boardsByID = [b \in BoardIDs |-> NoBoard]
  /\ boardIDsByJoinCode = [code \in JoinCodes |-> NoBoard]
  /\ clock = 0

(***************************************************************************)
(* Helpers.  A definition named after another one with a suffix that says  *)
(* what is wrong with it (IsFullOffByOne, UnindexNothing, ...) is a faulty *)
(* variant: nothing uses it, except that a property is shown to notice the *)
(* fault when the variant replaces the original.                           *)
(***************************************************************************)
Exists(b) == boardsByID[b] # NoBoard

CallerNowBelowZero == {t \in (0 - MaxLag) .. clock : clock - t <= MaxLag}
CallerNow == {t \in 0 .. clock : clock - t <= MaxLag}

IsExpiredLate(b, now) == now - boardsByID[b].lastActivityAt > CodeTTL + MaxLag
IsExpiredEarly(b, now) == now - boardsByID[b].lastActivityAt >= CodeTTL - 1
IsExpired(b, now) == now - boardsByID[b].lastActivityAt >= CodeTTL

\* The index without the given codes.
UnindexNothing(codes) == boardIDsByJoinCode
Unindex(codes) ==
  [code \in JoinCodes |->
     IF code \in codes THEN NoBoard ELSE boardIDsByJoinCode[code]]

\* A board and the code that leads to it go together.
DeleteBoards(bs) ==
  /\ boardsByID' = [b \in BoardIDs |-> IF b \in bs THEN NoBoard ELSE boardsByID[b]]
  /\ boardIDsByJoinCode' = Unindex({boardsByID[b].joinCode : b \in bs})

\* participantOrder never holds an actor twice (RosterConsistent), so that
\* filtering an actor out of it is closing the gap it leaves.
RemoveValue(values, target) ==
  IF \E i \in DOMAIN values : values[i] = target
  THEN LET gap == CHOOSE i \in DOMAIN values : values[i] = target
       IN  [i \in 1 .. Len(values) - 1 |->
              IF i < gap THEN values[i] ELSE values[i + 1]]
  ELSE values

IsFullOffByOne(b) == Len(boardsByID[b].participantOrder) > MaxParticipants
IsFull(b) == Len(boardsByID[b].participantOrder) >= MaxParticipants

\* The lookup by board id that RevokeJoinCode, RemoveParticipant and
\* TouchBoard start with, when it ends in ErrBoardNotFound.
MissingBoard(b, now, err) ==
  /\ err = "ErrBoardNotFound"
  /\ \/ /\ ~Exists(b)
        /\ UNCHANGED <<boardsByID, boardIDsByJoinCode>>
     \/ /\ Exists(b)
        /\ IsExpired(b, now)
        /\ DeleteBoards({b})

OpenBoard(b, now) == Exists(b) /\ ~IsExpired(b, now)

\* The lookup by join code of GetBoardByJoinCode and JoinBoard, when it ends
\* in the code being unknown.
MissingCode(code, now, err) ==
  /\ err = "ErrJoinCodeNotFound"
  /\ \/ /\ boardIDsByJoinCode[code] = NoBoard
        /\ UNCHANGED <<boardsByID, boardIDsByJoinCode>>
     \/ \E b \in BoardIDs :
          /\ boardIDsByJoinCode[code] = b
          /\ IsExpired(b, now)
          /\ DeleteBoards({b})

Admits(code, b, now) ==
  /\ boardIDsByJoinCode[code] = b
  /\ OpenBoard(b, now)

(***************************************************************************)
(* The operations.                                                         *)
(***************************************************************************)
NewRecord(code, owner, now) ==
  [joinCode         |-> code,
   ownerActorID     |-> owner,
   lastActivityAt   |-> now,
   participantOrder |-> <<owner>>,
   participants     |-> {owner}]

\* A code is free when no board is reached by it.
FreeCode(code) == boardIDsByJoinCode[code] = NoBoard

\* requested is the code of CreateBoardParams; with NoCode the store draws
\* codes until one is free, and gives up after a number of draws, which it
\* can only do when some code is taken.
CreateBoard(b, requested, owner, now, err) ==
  \/ /\ Exists(b)
     /\ err = "ErrBoardAlreadyExists"
     /\ UNCHANGED <<boardsByID, boardIDsByJoinCode>>
  \/ /\ ~Exists(b)
     /\ requested = NoCode
     /\ \E code \in JoinCodes : ~FreeCode(code)
     /\ err = "ErrJoinCodeGenerationFailed"
     /\ UNCHANGED <<boardsByID, boardIDsByJoinCode>>
  \/ /\ ~Exists(b)
     /\ requested # NoCode
     /\ ~FreeCode(requested)
     /\ err = "ErrJoinCodeAlreadyExists"
     /\ UNCHANGED <<boardsByID, boardIDsByJoinCode>>
  \/ \E code \in JoinCodes :
       /\ ~Exists(b)
       /\ requested \in {NoCode, code}
       /\ FreeCode(code)
       /\ err = "ok"
       /\ boardsByID' = [boardsByID EXCEPT ![b] = NewRecord(code, owner, now)]
       /\ boardIDsByJoinCode' = [boardIDsByJoinCode EXCEPT ![code] = b]

\* The only effect of the lookup is the lazy removal of an expired board.
GetBoardByJoinCode(code, err) ==
  \/ MissingCode(code, clock, err)
  \/ /\ \E b \in BoardIDs : Admits(code, b, clock)
     /\ err = "ok"
     /\ UNCHANGED <<boardsByID, boardIDsByJoinCode>>

WithParticipant(record, actor, now) ==
  [record EXCEPT !.participants = @ \cup {actor},
                 !.participantOrder = Append(@, actor),
                 !.lastActivityAt = now]

JoinBoard(code, actor, now, err) ==
  \/ MissingCode(code, now, err)
  \/ \E b \in BoardIDs :
       /\ Admits(code, b, now)
       /\ \/ /\ IsFull(b)
             /\ err = "ErrBoardFull"
             /\ UNCHANGED boardsByID
          \/ /\ ~IsFull(b)
             /\ actor \in boardsByID[b].participants
             /\ err = "ErrParticipantAlreadyExists"
             /\ UNCHANGED boardsByID
          \/ /\ ~IsFull(b)
             /\ actor \notin boardsByID[b].participants
             /\ err = "ok"
             /\ boardsByID' =
                  [boardsByID EXCEPT ![b] = WithParticipant(@, actor, now)]
       /\ UNCHANGED boardIDsByJoinCode

WithoutCode(record, now) ==
  [record EXCEPT !.joinCode = NoCode, !.lastActivityAt = now]

RevokeJoinCode(b, now, err) ==
  \/ MissingBoard(b, now, err)
  \/ /\ OpenBoard(b, now)
     /\ boardsByID[b].joinCode = NoCode
     /\ err = "ErrJoinCodeNotFound"
     /\ UNCHANGED <<boardsByID, boardIDsByJoinCode>>
  \/ /\ OpenBoard(b, now)
     /\ boardsByID[b].joinCode # NoCode
     /\ err = "ok"
     /\ boardIDsByJoinCode' = Unindex({boardsByID[b].joinCode})
     /\ boardsByID' = [boardsByID EXCEPT ![b] = WithoutCode(@, now)]

WithoutParticipantKeepingOrder(record, actor, now) ==
  [record EXCEPT !.participants = @ \ {actor}, !.lastActivityAt = now]
WithoutParticipant(record, actor, now) ==
  [record EXCEPT !.participants = @ \ {actor},
                 !.participantOrder = RemoveValue(@, actor),
                 !.lastActivityAt = now]

RemoveParticipant(b, actor, now, err) ==
  \/ MissingBoard(b, now, err)
  \/ /\ OpenBoard(b, now)
     /\ actor \notin boardsByID[b].participants
     /\ err = "ErrParticipantNotFound"
     /\ UNCHANGED <<boardsByID, boardIDsByJoinCode>>
  \/ /\ OpenBoard(b, now)
     /\ actor \in boardsByID[b].participants
     /\ err = "ok"
     /\ boardsByID' = [boardsByID EXCEPT ![b] = WithoutParticipant(@, actor, now)]
     /\ UNCHANGED boardIDsByJoinCode

Touched(record, now) == [record EXCEPT !.lastActivityAt = now]

TouchBoard(b, now, err) ==
  \/ MissingBoard(b, now, err)
  \/ /\ OpenBoard(b, now)
     /\ err = "ok"
     /\ boardsByID' = [boardsByID EXCEPT ![b] = Touched(@, now)]
     /\ UNCHANGED boardIDsByJoinCode

PruneExpired(now) == DeleteBoards({b \in BoardIDs : Exists(b) /\ IsExpired(b, now)})

Tick ==
  /\ clock < MaxClock
  /\ clock' = clock + 1
  /\ UNCHANGED <<boardsByID, boardIDsByJoinCode>>

(***************************************************************************)
(* The store driven by callers that may do anything its interface allows.  *)
(***************************************************************************)
Create(b, owner) ==
  \E requested \in JoinCodes \cup {NoCode}, now \in CallerNow, err \in Errors :
    CreateBoard(b, requested, owner, now, err) /\ UNCHANGED clock

Get(code) ==
  \E err \in Errors : GetBoardByJoinCode(code, err) /\ UNCHANGED clock

Join(code, actor) ==
  \E now \in CallerNow, err \in Errors :
    JoinBoard(code, actor, now, err) /\ UNCHANGED clock

Revoke(b) ==
  \E now \in CallerNow, err \in Errors :
    RevokeJoinCode(b, now, err) /\ UNCHANGED clock

Remove(b, actor) ==
  \E now \in CallerNow, err \in Errors :
    RemoveParticipant(b, actor, now, err) /\ UNCHANGED clock

Touch(b) ==
  \E now \in CallerNow, err \in Errors :
    TouchBoard(b, now, err) /\ UNCHANGED clock

Prune == \E now \in CallerNow : PruneExpired(now) /\ UNCHANGED clock

Next ==
  \/ Tick
  \/ Prune
  \/ \E b \in BoardIDs :
       \/ Revoke(b)
       \/ Touch(b)
       \/ \E actor \in Actors : Create(b, actor) \/ Remove(b, actor)
  \/ \E code \in JoinCodes :
       \/ Get(code)
       \/ \E actor \in Actors : Join(code, actor)

Spec == Init /\ [][Next]_vars

(***************************************************************************)
(* Properties.                                                             *)
(***************************************************************************)

(* The two maps of Store are inverse to each other: a code leads to a board
   that carries this code, and a board that carries a code is reached by it.
   deleteBoardLocked, RevokeJoinCode and CreateBoard each update both maps;
   forgetting one side strands a board or leaves a code that leads nowhere
   (the nil-record branches of GetBoardByJoinCode and JoinBoard, which are
   dead code as long as this holds). *)
IndexInverse ==
  /\ \A code \in JoinCodes, b \in BoardIDs :
       boardIDsByJoinCode[code] = b => Exists(b) /\ boardsByID[b].joinCode = code
  /\ \A b \in BoardIDs :
       Exists(b) /\ boardsByID[b].joinCode # NoCode
         => boardIDsByJoinCode[boardsByID[b].joinCode] = b

(* ParticipantOrder lists exactly the keys of Participants, each once: the
   capacity check counts the list, the duplicate check looks in the map, and
   snapshotBoard walks the list and looks up in the map. *)
RosterConsistent ==
  \A b \in BoardIDs : Exists(b) =>
    LET order == boardsByID[b].participantOrder
    IN  /\ \A i, j \in DOMAIN order : order[i] = order[j] => i = j
        /\ {order[i] : i \in DOMAIN order} = boardsByID[b].participants

(* No board ever holds more than maxParticipants participants, whatever
   leaves, joins and retries came before. *)
CapacityRespected ==
  \A b \in BoardIDs : Exists(b) => Cardinality(boardsByID[b].participants) <= MaxParticipants

\* It is the list that JoinBoard counts.
OrderWithinCapacity ==
  \A b \in BoardIDs : Exists(b) =>
    Len(boardsByID[b].participantOrder) <= MaxParticipants

(* The two maps and the two collections of participants agree at all times,
   and no operation, retry or expiry overfills a board.  (The inductive
   invariant: that the list has no repetitions and covers the participants
   turns its bound into CapacityRespected.) *)
StoreInv == TypeOK /\ IndexInverse /\ RosterConsistent /\ OrderWithinCapacity

(* A board whose code was revoked admits nobody any more and never gets a
   code again, for as long as its record lives. *)
RevokedAdmitsNobody ==
  [][\A b \in BoardIDs :
       Exists(b) /\ boardsByID[b].joinCode = NoCode /\ Exists(b)' =>
         /\ boardsByID'[b].joinCode = NoCode
         /\ boardsByID'[b].participants \subseteq boardsByID[b].participants]_vars

(* A board idle for its TTL, and for the age the caller's clock reading may
   have, is past saving: no operation refreshes it, lets anybody in or takes
   anybody out; the next one to meet it deletes it.  TouchBoard, JoinBoard,
   RemoveParticipant and RevokeJoinCode must all check the expiry before
   they write LastActivityAt. *)
ExpiredStaysExpired ==
  [][\A b \in BoardIDs :
       Exists(b) /\ clock - boardsByID[b].lastActivityAt >= CodeTTL + MaxLag =>
         boardsByID'[b] \in {NoBoard, boardsByID[b]}]_vars

(* A late caller can set LastActivityAt back, but never by more than the age
   of its clock reading, and a board goes only when the wall clock too says
   that its recorded activity is CodeTTL ticks old. *)
ActivityNeverLost ==
  [][\A b \in BoardIDs : Exists(b) =>
       /\ ~Exists(b)' => clock - boardsByID[b].lastActivityAt >= CodeTTL
       /\ Exists(b)' =>
            boardsByID'[b].lastActivityAt >= boardsByID[b].lastActivityAt - MaxLag]_vars

=============================================================================
