----------------------------- MODULE RelayProofs -----------------------------
(***************************************************************************)
(* Proofs about the router, for every number of connections, boards and    *)
(* codes: it keeps to the store's specification, its maps agree with the   *)
(* store and the handlers (RelayInv), and the races of the snapshot        *)
(* handshake end well.                                                     *)
(***************************************************************************)
EXTENDS Relay, FiniteSetTheorems, TLAPS

(***************************************************************************)
(* The store.  StoreProofs are the theorems about RoomStore, for the store *)
(* of the relay.                                                           *)
(***************************************************************************)
StoreProofs == INSTANCE RoomStoreProofs WITH Actors <- Conns

(* The two instances are one. *)
LEMMA SameStoreInv == Store!StoreInv <=> StoreProofs!StoreInv
BY DEF Store!StoreInv, StoreProofs!StoreInv, Store!TypeOK, StoreProofs!TypeOK,
       Store!IndexInverse, StoreProofs!IndexInverse,
       Store!RosterConsistent, StoreProofs!RosterConsistent,
       Store!OrderWithinCapacity, StoreProofs!OrderWithinCapacity,
       Store!Exists, StoreProofs!Exists, Store!BoardRecord, StoreProofs!BoardRecord

LEMMA SameStoreInvNext == Store!StoreInv' <=> StoreProofs!StoreInv'
BY DEF Store!StoreInv, StoreProofs!StoreInv, Store!TypeOK, StoreProofs!TypeOK,
       Store!IndexInverse, StoreProofs!IndexInverse,
       Store!RosterConsistent, StoreProofs!RosterConsistent,
       Store!OrderWithinCapacity, StoreProofs!OrderWithinCapacity,
       Store!Exists, StoreProofs!Exists, Store!BoardRecord, StoreProofs!BoardRecord

LEMMA SameStoreNext == [Store!Next]_(Store!vars) => [StoreProofs!Next]_(StoreProofs!vars)
BY DEF Store!Next, StoreProofs!Next, Store!vars, StoreProofs!vars,
       Store!Tick, StoreProofs!Tick, Store!Prune, StoreProofs!Prune,
       Store!Revoke, StoreProofs!Revoke, Store!Touch, StoreProofs!Touch,
       Store!Create, StoreProofs!Create, Store!Remove, StoreProofs!Remove,
       Store!Get, StoreProofs!Get, Store!Join, StoreProofs!Join,
       Store!PruneExpired, StoreProofs!PruneExpired,
       Store!CallerNow, StoreProofs!CallerNow, Store!Errors, StoreProofs!Errors,
       Store!RevokeJoinCode, StoreProofs!RevokeJoinCode,
       Store!TouchBoard, StoreProofs!TouchBoard,
       Store!CreateBoard, StoreProofs!CreateBoard,
       Store!RemoveParticipant, StoreProofs!RemoveParticipant,
       Store!GetBoardByJoinCode, StoreProofs!GetBoardByJoinCode,
       Store!JoinBoard, StoreProofs!JoinBoard,
       Store!DeleteBoards, StoreProofs!DeleteBoards, Store!Exists, StoreProofs!Exists,
       Store!IsExpired, StoreProofs!IsExpired, Store!Unindex, StoreProofs!Unindex,
       Store!IsFull, StoreProofs!IsFull, Store!MissingBoard, StoreProofs!MissingBoard,
       Store!OpenBoard, StoreProofs!OpenBoard, Store!MissingCode, StoreProofs!MissingCode,
       Store!Admits, StoreProofs!Admits, Store!NewRecord, StoreProofs!NewRecord,
       Store!FreeCode, StoreProofs!FreeCode,
       Store!WithParticipant, StoreProofs!WithParticipant,
       Store!WithoutCode, StoreProofs!WithoutCode,
       Store!WithoutParticipant, StoreProofs!WithoutParticipant,
       Store!RemoveValue, StoreProofs!RemoveValue, Store!Touched, StoreProofs!Touched

LEMMA StoreAssumptions == NoBoard \notin StoreProofs!BoardRecord
BY RelayNoneAssumption DEF Store!BoardRecord, StoreProofs!BoardRecord

(* The store's invariant holds at the start, and its steps keep it. *)
LEMMA StoreInvInit == Store!Init => Store!StoreInv
<1>1. StoreProofs!Init => StoreProofs!StoreInv
  BY StoreAssumptions, StoreProofs!StoreInvInit, RelayNumbersAssumption, RelayNoneAssumption
<1> QED
  BY <1>1, SameStoreInv DEF Store!Init, StoreProofs!Init

LEMMA StoreInvNext == Store!StoreInv /\ [Store!Next]_(Store!vars) => Store!StoreInv'
<1>1. StoreProofs!StoreInv /\ [StoreProofs!Next]_(StoreProofs!vars) => StoreProofs!StoreInv'
  BY StoreAssumptions, StoreProofs!StoreInvNext, RelayNumbersAssumption, RelayNoneAssumption
     DEF StoreProofs!vars
<1> QED
  BY <1>1, SameStoreInv, SameStoreInvNext, SameStoreNext

(* Also the finite sets of the two instances are the same. *)
LEMMA SameSizes ==
  ASSUME NEW S
  PROVE  /\ IsFiniteSet(S) <=> StoreProofs!IsFiniteSet(S)
         /\ Cardinality(S) = StoreProofs!Cardinality(S)
<1>1. IsFiniteSet(S) <=> StoreProofs!IsFiniteSet(S)
  BY DEF IsFiniteSet, StoreProofs!IsFiniteSet
<1>2. Cardinality(S) = StoreProofs!Cardinality(S)
  BY DEF Cardinality, StoreProofs!Cardinality
<1> QED
  BY <1>1, <1>2

(* The store's bound on the participants of a board, before and after a step. *)
LEMMA FewParticipants ==
  Store!StoreInv => \A b \in BoardIDs : Exists(b) =>
    /\ IsFiniteSet(boardsByID[b].participants)
    /\ Cardinality(boardsByID[b].participants) <= MaxParticipants
<1>1. StoreProofs!StoreInv =>
        \A b \in BoardIDs : StoreProofs!Exists(b) =>
          /\ StoreProofs!IsFiniteSet(boardsByID[b].participants)
          /\ StoreProofs!Cardinality(boardsByID[b].participants) <= MaxParticipants
  BY StoreAssumptions, StoreProofs!ParticipantsWithinCapacity,
     RelayNumbersAssumption, RelayNoneAssumption
<1>2. \A b \in BoardIDs : Exists(b) <=> StoreProofs!Exists(b)
  BY DEF Exists, Store!Exists, StoreProofs!Exists
<1> QED
  BY <1>1, <1>2, SameStoreInv, SameSizes

LEMMA FewParticipantsNext ==
  Store!StoreInv' => \A b \in BoardIDs : Exists(b)' =>
    /\ IsFiniteSet(boardsByID'[b].participants)
    /\ Cardinality(boardsByID'[b].participants) <= MaxParticipants
<1>1. (Store!StoreInv => \A b \in BoardIDs : Exists(b) =>
         /\ IsFiniteSet(boardsByID[b].participants)
         /\ Cardinality(boardsByID[b].participants) <= MaxParticipants)'
  BY FewParticipants, PTL
<1> QED
  BY <1>1

(***************************************************************************)
(* What the operations do to the participants of the boards.               *)
(***************************************************************************)
\* No board gets or loses a participant, except by being deleted.
RostersStay ==
  \A b \in BoardIDs :
    Exists(b)' => Exists(b) /\ boardsByID'[b].participants = boardsByID[b].participants

\* Board b gets the participants ms, the others stay as they are.
RosterBecomes(b, ms) ==
  /\ Exists(b)' => boardsByID'[b].participants = ms
  /\ \A d \in BoardIDs \ {b} :
       Exists(d)' => Exists(d) /\ boardsByID'[d].participants = boardsByID[d].participants

LEMMA DeletionKeepsRosters ==
  ASSUME NEW bs, Store!DeleteBoards(bs)
  PROVE  RostersStay
BY DEF Store!DeleteBoards, RostersStay, Exists, Store!Exists

LEMMA IdleKeepsRosters == UNCHANGED boardsByID => RostersStay
BY DEF RostersStay, Exists, Store!Exists

(* The record of one board is replaced. *)
LEMMA UpdateOfRoster ==
  ASSUME Store!StoreInv, NEW b \in BoardIDs, Exists(b), NEW r,
         boardsByID' = [boardsByID EXCEPT ![b] = r]
  PROVE  /\ RosterBecomes(b, r.participants)
         /\ r.participants = boardsByID[b].participants => RostersStay
BY DEF RosterBecomes, RostersStay, Exists, Store!Exists, Store!StoreInv, Store!TypeOK

LEMMA RecordType ==
  ASSUME Store!StoreInv, NEW b \in BoardIDs, Exists(b)
  PROVE  boardsByID[b] \in Store!BoardRecord
BY DEF Store!StoreInv, Store!TypeOK, Exists, Store!Exists

LEMMA MissingBoardKeepsRosters ==
  ASSUME NEW b, NEW now, NEW err, Store!MissingBoard(b, now, err)
  PROVE  RostersStay
BY DeletionKeepsRosters, IdleKeepsRosters DEF Store!MissingBoard

LEMMA MissingCodeKeepsRosters ==
  ASSUME NEW k, NEW now, NEW err, Store!MissingCode(k, now, err)
  PROVE  RostersStay
BY DeletionKeepsRosters, IdleKeepsRosters DEF Store!MissingCode

LEMMA TouchKeepsRosters ==
  ASSUME Store!StoreInv, NEW b \in BoardIDs, NEW now, NEW err, Store!TouchBoard(b, now, err)
  PROVE  RostersStay
<1>1. CASE Store!MissingBoard(b, now, err)
  BY <1>1, MissingBoardKeepsRosters
<1>2. CASE Store!OpenBoard(b, now) /\
           boardsByID' = [boardsByID EXCEPT ![b] = Store!Touched(@, now)]
  <2> DEFINE r == Store!Touched(boardsByID[b], now)
  <2>1. Exists(b)
    BY <1>2 DEF Store!OpenBoard, Exists
  <2>2. r.participants = boardsByID[b].participants
    BY <2>1, RecordType DEF Store!Touched, Store!BoardRecord
  <2>3. boardsByID' = [boardsByID EXCEPT ![b] = r]
    BY <1>2
  <2> QED
    BY <2>1, <2>2, <2>3, UpdateOfRoster
<1> QED
  BY <1>1, <1>2 DEF Store!TouchBoard

LEMMA RevokeKeepsRosters ==
  ASSUME Store!StoreInv, NEW b \in BoardIDs, NEW now, NEW err, Store!RevokeJoinCode(b, now, err)
  PROVE  RostersStay
<1>1. CASE Store!MissingBoard(b, now, err)
  BY <1>1, MissingBoardKeepsRosters
<1>2. CASE UNCHANGED boardsByID
  BY <1>2, IdleKeepsRosters
<1>3. CASE Store!OpenBoard(b, now) /\
           boardsByID' = [boardsByID EXCEPT ![b] = Store!WithoutCode(@, now)]
  <2> DEFINE r == Store!WithoutCode(boardsByID[b], now)
  <2>1. Exists(b)
    BY <1>3 DEF Store!OpenBoard, Exists
  <2>2. r.participants = boardsByID[b].participants
    BY <2>1, RecordType DEF Store!WithoutCode, Store!BoardRecord
  <2>3. boardsByID' = [boardsByID EXCEPT ![b] = r]
    BY <1>3
  <2> QED
    BY <2>1, <2>2, <2>3, UpdateOfRoster
<1> QED
  BY <1>1, <1>2, <1>3 DEF Store!RevokeJoinCode

LEMMA LookupKeepsRosters ==
  ASSUME NEW k, NEW err, Store!GetBoardByJoinCode(k, err)
  PROVE  RostersStay
BY MissingCodeKeepsRosters, IdleKeepsRosters DEF Store!GetBoardByJoinCode

LEMMA RefusalKeepsRosters ==
  ASSUME NEW k, NEW c, NEW now, NEW err \in StoreErrors, Store!JoinBoard(k, c, now, err)
  PROVE  RostersStay
BY MissingCodeKeepsRosters, IdleKeepsRosters DEF Store!JoinBoard, StoreErrors

(* JoinBoard lets c in on the board of the code. *)
LEMMA JoinAddsParticipant ==
  ASSUME Store!StoreInv, NEW k \in JoinCodes, NEW c \in Conns, NEW now \in Nat,
         Store!JoinBoard(k, c, now, "ok")
  PROVE  LET b == boardIDsByJoinCode[k]
         IN  /\ b \in BoardIDs /\ Exists(b) /\ boardsByID'[b] # NoBoard
             /\ RosterBecomes(b, boardsByID[b].participants \cup {c})
<1>1. PICK b \in BoardIDs :
        /\ Store!Admits(k, b, now)
        /\ boardsByID' = [boardsByID EXCEPT ![b] = Store!WithParticipant(@, c, now)]
  BY DEF Store!JoinBoard, Store!MissingCode
<1>2. boardIDsByJoinCode[k] = b /\ Exists(b)
  BY <1>1 DEF Store!Admits, Store!OpenBoard, Exists
<1> DEFINE r == Store!WithParticipant(boardsByID[b], c, now)
<1>3. r.participants = boardsByID[b].participants \cup {c}
  BY <1>2, RecordType DEF Store!WithParticipant, Store!BoardRecord
<1>4. boardsByID' = [boardsByID EXCEPT ![b] = r]
  BY <1>1
<1>5. RosterBecomes(b, r.participants)
  BY <1>2, <1>4, UpdateOfRoster
<1>6. r # NoBoard
  <2>1. boardsByID[b] \in Store!BoardRecord
    BY <1>2, RecordType
  <2>2. r \in Store!BoardRecord
    <3>1. StoreProofs!WithParticipant(boardsByID[b], c, now) \in StoreProofs!BoardRecord
      BY <2>1, StoreAssumptions, StoreProofs!AdmissionKeepsType,
         RelayNumbersAssumption, RelayNoneAssumption
         DEF Store!BoardRecord, StoreProofs!BoardRecord
    <3> QED
      BY <3>1 DEF Store!WithParticipant, StoreProofs!WithParticipant,
         Store!BoardRecord, StoreProofs!BoardRecord
  <2> QED
    BY <2>2, RelayNoneAssumption
<1>7. boardsByID'[b] # NoBoard
  BY <1>4, <1>6 DEF Store!StoreInv, Store!TypeOK
<1> QED
  BY <1>2, <1>3, <1>5, <1>7

(* RemoveParticipant leaves everybody but c, whatever it returns. *)
LEMMA RemovalOfParticipant ==
  ASSUME Store!StoreInv, NEW b \in BoardIDs, NEW c \in Conns, NEW now, NEW err,
         Store!RemoveParticipant(b, c, now, err)
  PROVE  /\ RosterBecomes(b, boardsByID[b].participants \ {c})
         /\ Exists(b)' => Exists(b)
<1>1. CASE Store!MissingBoard(b, now, err)
  BY <1>1 DEF Store!MissingBoard, Store!DeleteBoards, RosterBecomes, Exists, Store!Exists
<1>2. CASE /\ Store!OpenBoard(b, now)
           /\ c \notin boardsByID[b].participants
           /\ UNCHANGED <<boardsByID, boardIDsByJoinCode>>
  BY <1>2 DEF RosterBecomes, Exists, Store!Exists
<1>3. CASE /\ Store!OpenBoard(b, now)
           /\ boardsByID' = [boardsByID EXCEPT ![b] = Store!WithoutParticipant(@, c, now)]
  <2> DEFINE r == Store!WithoutParticipant(boardsByID[b], c, now)
  <2>1. Exists(b)
    BY <1>3 DEF Store!OpenBoard, Exists
  <2>2. r.participants = boardsByID[b].participants \ {c}
    BY <2>1, RecordType DEF Store!WithoutParticipant, Store!BoardRecord
  <2>3. boardsByID' = [boardsByID EXCEPT ![b] = r]
    BY <1>3
  <2> QED
    BY <2>1, <2>2, <2>3, UpdateOfRoster
<1> QED
  BY <1>1, <1>2, <1>3 DEF Store!RemoveParticipant

(* CreateBoard begins a board with its owner. *)
LEMMA CreationOfRoster ==
  ASSUME Store!StoreInv, NEW b \in BoardIDs, NEW c \in Conns, NEW now \in Nat,
         Store!CreateBoard(b, NoCode, c, now, "ok")
  PROVE  RosterBecomes(b, {c}) /\ boardsByID'[b] # NoBoard
<1>1. PICK k \in JoinCodes : boardsByID' = [boardsByID EXCEPT ![b] = Store!NewRecord(k, c, now)]
  BY DEF Store!CreateBoard
<1>2. Store!NewRecord(k, c, now) \in Store!BoardRecord
  <2>1. <<c>> \in Seq(Conns)
    OBVIOUS
  <2> QED
    BY <2>1 DEF Store!NewRecord, Store!BoardRecord
<1>3. Store!NewRecord(k, c, now) # NoBoard
  BY <1>2, RelayNoneAssumption
<1> QED
  BY <1>1, <1>3
     DEF RosterBecomes, Exists, Store!Exists, Store!NewRecord, Store!StoreInv, Store!TypeOK

(***************************************************************************)
(* Kinds of steps, as far as sessions and places are concerned.            *)
(***************************************************************************)
sessionVars == <<connectionsByBoard, sessionByConn, board, code, creator>>

Newly == {"joinRegistered", "ownerRegistered"}

\* The steps of a handler whose connection is attached.
AttachedSteps == Steps \ (Unregistered \cup LeaveSteps \cup {"done"})

\* No handler moves.
Stands ==
  /\ UNCHANGED <<sessionVars, boardOwnerByBoard, pc>>
  /\ RostersStay

\* c goes on with a handler, or begins one, as the one it is on its board.
Proceeds(c) ==
  /\ UNCHANGED <<sessionVars, boardOwnerByBoard>>
  /\ RostersStay
  /\ Attached(c) /\ pc[c] \notin Newly
  /\ Goto(c, pc'[c])
  /\ pc'[c] \in AttachedSteps \ (CreateSteps \cup Newly \cup {"joinOwnerSet"})
  /\ pc'[c] \in OwnerSteps => creator[board[c]] = c
  /\ pc'[c] \in JoinSteps => creator[board[c]] # c
  /\ pc[c] = "joinOwnerSet" => c \in pendingSnapshotRequests'[board[c]]
  /\ pc[c] \in JoinSteps /\ pc'[c] \notin JoinSteps =>
       \/ ~open'[c]
       \/ c \notin pendingSnapshotRequests'[board[c]]
       \/ Connected(board[c], creator[board[c]])

\* setBoardOwner
NamesOwner(c) ==
  /\ UNCHANGED sessionVars
  /\ RostersStay
  /\ Attached(c) /\ pc[c] \in Newly
  /\ boardOwnerByBoard' = [boardOwnerByBoard EXCEPT ![board[c]] = creator[board[c]]]
  /\ Goto(c, IF pc[c] = "joinRegistered" THEN "joinOwnerSet" ELSE "serving")

\* registerConnection
Registers(c) ==
  /\ UNCHANGED <<board, code, creator, boardOwnerByBoard>>
  /\ RostersStay
  /\ \/ pc[c] = "created" /\ Register(c, "ownerRegistered")
     \/ pc[c] = "joinAdded" /\ Register(c, "joinRegistered")

\* The sections of session.join before the store lets c in, and its refusal.
Tries(c) ==
  /\ UNCHANGED <<connectionsByBoard, sessionByConn, creator, boardOwnerByBoard>>
  /\ RostersStay
  /\ ~Attached(c) /\ pc[c] \in {"serving", "joinFound", "joinOwnerSeen"}
  /\ \/ Reject(c)
     \/ \E b \in BoardIDs, k \in JoinCodes :
          /\ pc[c] = "serving" /\ Exists(b)
          /\ board' = [board EXCEPT ![c] = b]
          /\ code' = [code EXCEPT ![c] = k]
          /\ Goto(c, "joinFound")
     \/ pc[c] = "joinFound" /\ Goto(c, "joinOwnerSeen") /\ UNCHANGED <<board, code>>

\* The store lets c in.
Joins(c) ==
  /\ UNCHANGED <<connectionsByBoard, sessionByConn, creator, boardOwnerByBoard>>
  /\ ~Attached(c) /\ pc[c] = "joinOwnerSeen"
  /\ \E b \in BoardIDs :
       /\ Exists(b) /\ boardsByID'[b] # NoBoard
       /\ RosterBecomes(b, boardsByID[b].participants \cup {c})
       /\ board' = [board EXCEPT ![c] = b]
  /\ code' = [code EXCEPT ![c] = NoCode]
  /\ Goto(c, "joinAdded")

\* c creates a board.
Creates(c) ==
  /\ UNCHANGED <<connectionsByBoard, sessionByConn, code, boardOwnerByBoard>>
  /\ ~Attached(c) /\ pc[c] = "serving"
  /\ \E b \in BoardIDs :
       /\ creator[b] = NoConn
       /\ creator' = [creator EXCEPT ![b] = c]
       /\ RosterBecomes(b, {c}) /\ boardsByID'[b] # NoBoard
       /\ board' = [board EXCEPT ![c] = b]
  /\ Goto(c, "created")

\* unregisterConnection, when c was attached.
Detaches(c) ==
  /\ UNCHANGED <<board, code, creator>>
  /\ RostersStay
  /\ Attached(c) /\ pc[c] = "serving"
  /\ sessionByConn' = [sessionByConn EXCEPT ![c] = NoBoard]
  /\ connectionsByBoard' = [connectionsByBoard EXCEPT ![board[c]] = @ \ {c}]
  /\ boardOwnerByBoard' = OwnersWithout(board[c], connectionsByBoard'[board[c]])
  /\ Goto(c, "unregistered")

\* The store takes c off its board, or has lost the board.
Frees(c) ==
  /\ UNCHANGED <<sessionVars, boardOwnerByBoard>>
  /\ pc[c] = "reasonTaken"
  /\ RosterBecomes(board[c], boardsByID[board[c]].participants \ {c})
  /\ Exists(board[c])' => Exists(board[c])
  /\ Goto(c, "participantRemoved")

\* The other sections of a disconnect handler, and its end.
Leaves(c) ==
  /\ UNCHANGED <<sessionVars, boardOwnerByBoard>>
  /\ RostersStay
  /\ \/ pc[c] = "serving" /\ ~Attached(c) /\ Goto(c, "done")
     \/ pc[c] = "unregistered" /\ Goto(c, "reasonTaken")
     \/ /\ pc[c] = "participantRemoved" /\ Goto(c, "pendingCleared")
        /\ c \notin pendingSnapshotRequests'[board[c]]
     \/ /\ pc[c] \in {"pendingCleared", "leaving"}
        /\ Goto(c, pc'[c]) /\ pc'[c] \in {"leaving", "left"}
     \/ /\ pc[c] = "left"
        /\ Goto(c, IF boardOwnerByBoard[board[c]] = c THEN "ownerLeft" ELSE "done")
     \/ /\ pc[c] = "ownerLeft"
        /\ Goto(c, pc'[c]) /\ pc'[c] \in {"failing", "done"}
        /\ pendingSnapshotRequests'[board[c]] = {}
     \/ pc[c] = "failing" /\ Goto(c, pc'[c]) /\ pc'[c] \in {"failing", "done"}

StepOf(c) ==
  \/ Proceeds(c) \/ NamesOwner(c) \/ Registers(c) \/ Tries(c) \/ Joins(c)
  \/ Creates(c) \/ Detaches(c) \/ Frees(c) \/ Leaves(c)

StepKind == Stands \/ \E c \in Conns : StepOf(c)

\* What the classification of a step rests on.
Structure == TypeOK /\ Store!StoreInv /\ SessionsAgree /\ RolesKept /\ OwnerEntryKept /\ MapsBacked

(* A call of the store with a time that the caller has read is a step of the
   store; a section that does not call it leaves it alone. *)
LEMMA StoreCalls ==
  ASSUME UNCHANGED clock, NEW b \in BoardIDs, NEW c \in Conns, NEW k \in JoinCodes,
         NEW now \in Store!CallerNow, NEW err \in Store!Errors,
         \/ Store!TouchBoard(b, now, err) \/ Store!RevokeJoinCode(b, now, err)
         \/ Store!RemoveParticipant(b, c, now, err) \/ Store!CreateBoard(b, NoCode, c, now, err)
         \/ Store!GetBoardByJoinCode(k, err) \/ Store!JoinBoard(k, c, now, err)
  PROVE  Store!Next
BY DEF Store!Next, Store!Touch, Store!Revoke, Store!Remove, Store!Create, Store!Get, Store!Join

LEMMA NoStoreCall ==
  UNCHANGED storeVars => RostersStay /\ [Store!Next]_(Store!vars)
BY IdleKeepsRosters DEF storeVars, Store!vars

(* touchBoardActivity: the handler goes on, or ends with an error. *)
LEMMA TouchGoesOn ==
  ASSUME Structure, NEW c \in Conns, Attached(c), NEW after \in Steps, TouchOr(c, after)
  PROVE  /\ RostersStay /\ [Store!Next]_(Store!vars)
         /\ Goto(c, pc'[c]) /\ pc'[c] \in {after, "serving"}
<1>1. board[c] \in BoardIDs
  BY DEF Structure, TypeOK, SessionsAgree, Attached
<1>2. PICK now \in Store!CallerNow, err \in {"ok", "ErrBoardNotFound"} :
        Store!TouchBoard(board[c], now, err)
  BY DEF TouchOr
<1>3. RostersStay
  BY <1>1, <1>2, TouchKeepsRosters DEF Structure
<1>4. err \in Store!Errors
  BY DEF Store!Errors
<1>5. Store!Next
  <2> \E b \in BoardIDs : Store!Touch(b)
    BY <1>1, <1>2, <1>4 DEF TouchOr, Store!Touch
  <2> QED
    BY DEF Store!Next
<1>6. Goto(c, pc'[c]) /\ pc'[c] \in {after, "serving"}
  BY DEF TouchOr, Goto, Structure, TypeOK
<1> QED
  BY <1>3, <1>5, <1>6

(* The handlers of an attached connection that do not call the store. *)
LEMMA JoinProceeds ==
  ASSUME Structure, NEW c \in Conns,
         \/ JoinPend(c) \/ JoinReply(c) \/ JoinAnnounce(c)
         \/ RequestSnapshot(c) \/ JoinRefuse(c) \/ JoinClose(c)
         \/ \E r \in Conns : AnnounceTo(c, r)
  PROVE  Proceeds(c) /\ [Store!Next]_(Store!vars)
<1>1. UNCHANGED storeVars
  BY DEF JoinPend, JoinReply, JoinAnnounce, RequestSnapshot, JoinRefuse, JoinClose, AnnounceTo
<1>2. RostersStay /\ [Store!Next]_(Store!vars)
  BY <1>1, NoStoreCall
<1>3. Proceeds(c)
  BY <1>2 DEF Structure, TypeOK, SessionsAgree, RolesKept, Proceeds, Attached, At, Goto,
       Loop, Served, JoinPend, JoinReply, JoinAnnounce, RequestSnapshot, JoinRefuse,
       JoinClose, AnnounceTo, WriteMayFail, RequestsWithout, routerVars, taskVars, clientVars,
       sessionVars, Newly,
       AttachedSteps, Unregistered, Steps, JoinSteps, CreateSteps, OwnerSteps,
       SnapshotSteps, EventSteps, LeaveSteps
<1> QED
  BY <1>2, <1>3

LEMMA OwnerProceeds ==
  ASSUME Structure, NEW c \in Conns,
         \/ SnapshotTake(c) \/ SnapshotFindTarget(c) \/ SnapshotForward(c)
         \/ KickFind(c) \/ KickClose(c) \/ RevokeBroadcast(c) \/ RevokeDisconnect(c)
         \/ \E r \in Conns : RevokeTo(c, r) \/ RevokeClose(c, r)
  PROVE  Proceeds(c) /\ [Store!Next]_(Store!vars)
<1>1. UNCHANGED storeVars
  BY DEF SnapshotTake, SnapshotFindTarget, SnapshotForward, KickFind, KickClose,
         RevokeBroadcast, RevokeDisconnect, RevokeTo, RevokeClose
<1>2. RostersStay /\ [Store!Next]_(Store!vars)
  BY <1>1, NoStoreCall
<1>3. Proceeds(c)
  BY <1>2, RelayNoneAssumption
     DEF Structure, TypeOK, SessionsAgree, RolesKept, OwnerEntryKept, Proceeds, Attached, At, Goto,
       Loop, Served, SnapshotTake, SnapshotFindTarget, SnapshotForward, KickFind, KickClose,
       RevokeBroadcast, RevokeDisconnect, RevokeTo, RevokeClose, Reads, ReadsAttached,
       ReadsFromOwner, routerVars, taskVars, clientVars, sessionVars, Newly,
       AttachedSteps, Unregistered, Steps, JoinSteps, CreateSteps, OwnerSteps,
       SnapshotSteps, EventSteps, LeaveSteps
<1> QED
  BY <1>2, <1>3

LEMMA EventProceeds ==
  ASSUME Structure, NEW c \in Conns,
         \/ EventBroadcast(c) \/ AckCheckOwner(c) \/ \E r \in Conns : EventTo(c, r)
  PROVE  Proceeds(c) /\ [Store!Next]_(Store!vars)
<1>1. UNCHANGED storeVars
  BY DEF EventBroadcast, AckCheckOwner, EventTo
<1>2. RostersStay /\ [Store!Next]_(Store!vars)
  BY <1>1, NoStoreCall
<1>3. Proceeds(c)
  BY <1>2 DEF Structure, TypeOK, SessionsAgree, RolesKept, Proceeds, Attached, At, Goto,
       Loop, Served, EventBroadcast, AckCheckOwner, EventTo, Reads, ReadsAttached,
       routerVars, taskVars, clientVars, sessionVars, Newly,
       AttachedSteps, Unregistered, Steps, JoinSteps, CreateSteps, OwnerSteps,
       SnapshotSteps, EventSteps, LeaveSteps
<1> QED
  BY <1>2, <1>3

(* ... and those that do. *)
LEMMA TouchProceeds ==
  ASSUME Structure, NEW c \in Conns,
         \/ SnapshotTouch(c) \/ EventTouch(c) \/ AckTouch(c) \/ Heartbeat(c)
         \/ KickTouch(c) \/ RevokeTouch(c)
  PROVE  Proceeds(c) /\ [Store!Next]_(Store!vars)
<1>1. Attached(c) /\ pc[c] \notin Newly \cup Unregistered \cup JoinSteps
  BY DEF Structure, TypeOK, SessionsAgree, Attached, At, SnapshotTouch, EventTouch, AckTouch,
       Heartbeat, KickTouch, RevokeTouch, Reads, ReadsAttached, ReadsFromOwner, Newly,
       Unregistered, LeaveSteps, JoinSteps
<1>2. PICK after \in {"snapshotTouched", "eventTouched", "serving", "kickTouched",
                    "revokeTouched"} :
        /\ TouchOr(c, after)
        /\ after \in OwnerSteps => creator[board[c]] = c
  BY <1>1, RelayNoneAssumption
     DEF Structure, TypeOK, SessionsAgree, RolesKept, OwnerEntryKept, Attached, At,
         SnapshotTouch, EventTouch, AckTouch,
       Heartbeat, KickTouch, RevokeTouch, Reads, ReadsAttached, ReadsFromOwner, OwnerSteps,
       SnapshotSteps, Newly
<1>3. after \in Steps
  BY DEF Steps, OwnerSteps, SnapshotSteps, EventSteps
<1>4. /\ RostersStay /\ [Store!Next]_(Store!vars)
      /\ Goto(c, pc'[c]) /\ pc'[c] \in {after, "serving"}
  BY <1>1, <1>2, <1>3, TouchGoesOn
<1>5. UNCHANGED <<sessionVars, boardOwnerByBoard>>
  BY DEF SnapshotTouch, EventTouch, AckTouch, Heartbeat, KickTouch, RevokeTouch,
       routerVars, sessionVars
<1>6. Proceeds(c)
  BY <1>1, <1>2, <1>4, <1>5
     DEF Proceeds, AttachedSteps, Newly, Unregistered, Steps, JoinSteps, CreateSteps,
       OwnerSteps, SnapshotSteps, EventSteps, LeaveSteps
<1> QED
  BY <1>4, <1>6

LEMMA RevokeStoreProceeds ==
  ASSUME Structure, NEW c \in Conns, RevokeStore(c)
  PROVE  Proceeds(c) /\ [Store!Next]_(Store!vars)
<1>1. Attached(c) /\ board[c] \in BoardIDs /\ creator[board[c]] = c
  BY DEF Structure, TypeOK, SessionsAgree, RolesKept, Attached, At, RevokeStore, Unregistered,
       LeaveSteps, OwnerSteps
<1>2. PICK now \in Store!CallerNow, err \in Store!Errors : Store!RevokeJoinCode(board[c], now, err)
  BY DEF RevokeStore, StoreErrors, Store!Errors
<1>3. RostersStay
  BY <1>1, <1>2, RevokeKeepsRosters DEF Structure
<1>4. Store!Next
  BY <1>1, <1>2 DEF RevokeStore, Store!Next, Store!Revoke
<1>5. Goto(c, pc'[c]) /\ pc'[c] \in {"codeRevoked", "serving"}
  BY DEF RevokeStore, Goto, Structure, TypeOK
<1>6. Proceeds(c)
  BY <1>1, <1>3, <1>5
     DEF RevokeStore, At, Proceeds, routerVars, sessionVars, AttachedSteps, Newly, Unregistered,
       Steps, JoinSteps, CreateSteps, OwnerSteps, SnapshotSteps, EventSteps, LeaveSteps
<1> QED
  BY <1>4, <1>6

(* The steps that attach a connection. *)
LEMMA OwnerNamed ==
  ASSUME Structure, NEW c \in Conns, FinishCreate(c) \/ JoinSetOwner(c)
  PROVE  NamesOwner(c) /\ [Store!Next]_(Store!vars)
<1>1. UNCHANGED storeVars
  BY DEF FinishCreate, JoinSetOwner
<1>2. RostersStay /\ [Store!Next]_(Store!vars)
  BY <1>1, NoStoreCall
<1>3. Attached(c)
  BY DEF Structure, TypeOK, SessionsAgree, FinishCreate, JoinSetOwner, At, Unregistered, LeaveSteps
<1>4. CASE FinishCreate(c)
  <2>1. creator[board[c]] = c
    BY <1>4 DEF Structure, RolesKept, FinishCreate, At, CreateSteps
  <2> QED
    BY <1>2, <1>3, <1>4, <2>1 DEF FinishCreate, At, NamesOwner, Newly, sessionVars
<1>5. CASE JoinSetOwner(c)
  BY <1>2, <1>3, <1>5 DEF JoinSetOwner, At, NamesOwner, Newly, sessionVars
<1> QED
  BY <1>2, <1>4, <1>5

LEMMA ConnectionRegistered ==
  ASSUME NEW c \in Conns, RegisterOwner(c) \/ JoinRegister(c)
  PROVE  Registers(c) /\ [Store!Next]_(Store!vars)
<1>1. UNCHANGED storeVars
  BY DEF RegisterOwner, JoinRegister
<1>2. RostersStay /\ [Store!Next]_(Store!vars)
  BY <1>1, NoStoreCall
<1> QED
  BY <1>2 DEF RegisterOwner, JoinRegister, Registers, At

LEMMA LookupTries ==
  ASSUME Structure, NEW c \in Conns, JoinLookup(c)
  PROVE  (Stands \/ Tries(c)) /\ [Store!Next]_(Store!vars)
<1>1. PICK k \in JoinCodes :
        \/ Store!GetBoardByJoinCode(k, "ErrJoinCodeNotFound") /\ UNCHANGED <<pc, board, code>>
        \/ /\ Store!GetBoardByJoinCode(k, "ok")
           /\ board' = [board EXCEPT ![c] = boardIDsByJoinCode[k]]
           /\ code' = [code EXCEPT ![c] = k]
           /\ Goto(c, "joinFound")
  BY DEF JoinLookup
<1>2. RostersStay
  BY <1>1, LookupKeepsRosters
<1>3. Store!Get(k)
  BY <1>1 DEF JoinLookup, Store!Get, Store!Errors
<1>4. Store!Next
  BY <1>3 DEF Store!Next
<1>5. CASE UNCHANGED <<pc, board, code>>
  BY <1>2, <1>4, <1>5 DEF JoinLookup, Stands, sessionVars, routerVars
<1>6. CASE /\ Store!GetBoardByJoinCode(k, "ok")
           /\ board' = [board EXCEPT ![c] = boardIDsByJoinCode[k]]
           /\ code' = [code EXCEPT ![c] = k]
           /\ Goto(c, "joinFound")
  <2>1. boardIDsByJoinCode[k] \in BoardIDs /\ Exists(boardIDsByJoinCode[k])
    BY <1>6 DEF Store!GetBoardByJoinCode, Store!MissingCode, Store!Admits, Store!OpenBoard, Exists
  <2> QED
    BY <1>2, <1>4, <1>6, <2>1 DEF JoinLookup, Reads, At, Tries, routerVars
<1> QED
  BY <1>1, <1>4, <1>5, <1>6

LEMMA OwnerCheckTries ==
  ASSUME Structure, NEW c \in Conns, JoinCheckOwner(c)
  PROVE  Tries(c) /\ [Store!Next]_(Store!vars)
<1>1. UNCHANGED storeVars
  BY DEF JoinCheckOwner
<1>2. RostersStay /\ [Store!Next]_(Store!vars)
  BY <1>1, NoStoreCall
<1>3. ~Attached(c)
  BY DEF Structure, SessionsAgree, JoinCheckOwner, At, Unregistered
<1> QED
  BY <1>2, <1>3 DEF JoinCheckOwner, At, Tries, routerVars

LEMMA JoinsOrTries ==
  ASSUME Structure, NEW c \in Conns, JoinStore(c)
  PROVE  (Joins(c) \/ Tries(c)) /\ [Store!Next]_(Store!vars)
<1>1. ~Attached(c) /\ code[c] \in JoinCodes
  BY DEF Structure, TypeOK, SessionsAgree, JoinStore, At, Unregistered
<1>2. PICK now \in Store!CallerNow :
        \/ /\ Store!JoinBoard(code[c], c, now, "ok")
           /\ board' = [board EXCEPT ![c] = boardIDsByJoinCode[code[c]]]
           /\ code' = [code EXCEPT ![c] = NoCode]
           /\ Goto(c, "joinAdded")
        \/ /\ \E err \in StoreErrors : Store!JoinBoard(code[c], c, now, err)
           /\ Reject(c)
  BY DEF JoinStore
<1>3. \E err \in Store!Errors : Store!JoinBoard(code[c], c, now, err)
  BY <1>2 DEF StoreErrors, Store!Errors
<1>4. Store!Join(code[c], c)
  BY <1>3 DEF JoinStore, Store!Join
<1>5. Store!Next
  BY <1>1, <1>4 DEF Store!Next
<1>6. CASE /\ Store!JoinBoard(code[c], c, now, "ok")
           /\ board' = [board EXCEPT ![c] = boardIDsByJoinCode[code[c]]]
           /\ code' = [code EXCEPT ![c] = NoCode]
           /\ Goto(c, "joinAdded")
  <2> DEFINE b == boardIDsByJoinCode[code[c]]
  <2>1. now \in Nat
    BY DEF Structure, TypeOK, Store!TypeOK, Store!CallerNow
  <2>2. /\ b \in BoardIDs /\ Exists(b) /\ boardsByID'[b] # NoBoard
        /\ RosterBecomes(b, boardsByID[b].participants \cup {c})
    BY <1>1, <1>6, <2>1, JoinAddsParticipant DEF Structure
  <2> QED
    BY <1>1, <1>5, <1>6, <2>2 DEF JoinStore, At, Joins, routerVars
<1>7. CASE /\ \E err \in StoreErrors : Store!JoinBoard(code[c], c, now, err)
           /\ Reject(c)
  <2>1. RostersStay
    BY <1>7, RefusalKeepsRosters
  <2> QED
    BY <1>1, <1>5, <1>7, <2>1 DEF JoinStore, At, Tries, routerVars
<1> QED
  BY <1>2, <1>6, <1>7

LEMMA BoardCreated ==
  ASSUME Structure, NEW c \in Conns, SessionCreate(c)
  PROVE  Creates(c) /\ [Store!Next]_(Store!vars)
<1>1. PICK b \in BoardIDs, now \in Store!CallerNow :
        /\ creator[b] = NoConn
        /\ Store!CreateBoard(b, NoCode, c, now, "ok")
        /\ creator' = [creator EXCEPT ![b] = c]
        /\ board' = [board EXCEPT ![c] = b]
  BY DEF SessionCreate
<1>2. RosterBecomes(b, {c}) /\ boardsByID'[b] # NoBoard
  <2> now \in Nat
    BY DEF Structure, TypeOK, Store!TypeOK, Store!CallerNow
  <2> QED
    BY <1>1, CreationOfRoster DEF Structure
<1>3. Store!Create(b, c)
  BY <1>1 DEF SessionCreate, Store!Create, Store!Errors
<1>4. Store!Next
  BY <1>3 DEF Store!Next
<1> QED
  BY <1>1, <1>2, <1>4 DEF SessionCreate, Reads, At, Creates, routerVars

(* The steps of a disconnect handler. *)
LEMMA DetachesOrLeaves ==
  ASSUME Structure, NEW c \in Conns, Unregister(c)
  PROVE  (Detaches(c) \/ Leaves(c)) /\ [Store!Next]_(Store!vars)
<1>1. UNCHANGED storeVars
  BY DEF Unregister
<1>2. RostersStay /\ [Store!Next]_(Store!vars)
  BY <1>1, NoStoreCall
<1> QED
  BY <1>2 DEF Unregister, At, Detaches, Leaves, sessionVars

LEMMA PlaceFreed ==
  ASSUME Structure, NEW c \in Conns, LeaveStore(c)
  PROVE  Frees(c) /\ [Store!Next]_(Store!vars)
<1>1. board[c] \in BoardIDs
  BY DEF Structure, TypeOK, SessionsAgree, LeaveStore, At, Unregistered, LeaveSteps
<1>2. PICK now \in Store!CallerNow, err \in Store!Errors :
        Store!RemoveParticipant(board[c], c, now, err)
  BY DEF LeaveStore
<1>3. /\ RosterBecomes(board[c], boardsByID[board[c]].participants \ {c})
      /\ Exists(board[c])' => Exists(board[c])
  <2>1. Store!StoreInv
    BY DEF Structure
  <2>2. \A b \in BoardIDs : board[c] = b =>
          /\ RosterBecomes(b, boardsByID[b].participants \ {c})
          /\ Exists(b)' => Exists(b)
    BY <2>1, <1>2, RemovalOfParticipant
  <2>3. UNCHANGED board
    BY DEF LeaveStore
  <2> QED
    BY <1>1, <2>2, <2>3 DEF RosterBecomes, Exists, Store!Exists
<1>4. Store!Remove(board[c], c)
  BY <1>2 DEF LeaveStore, Store!Remove
<1>5. Store!Next
  BY <1>1, <1>4 DEF Store!Next
<1> QED
  BY <1>3, <1>5 DEF LeaveStore, At, Frees, sessionVars, routerVars

LEMMA DisconnectionLeaves ==
  ASSUME Structure, NEW c \in Conns,
         \/ TakeReason(c) \/ LeaveClear(c) \/ LeaveBroadcast(c) \/ LeaveCheckOwner(c)
         \/ FailPending(c) \/ \E r \in Conns : LeaveTo(c, r) \/ FailClose(c, r)
  PROVE  Leaves(c) /\ [Store!Next]_(Store!vars)
<1>1. UNCHANGED storeVars
  BY DEF TakeReason, LeaveClear, LeaveBroadcast, LeaveTo, LeaveCheckOwner, FailPending, FailClose
<1>2. RostersStay /\ [Store!Next]_(Store!vars)
  BY <1>1, NoStoreCall
<1>3. pc[c] \in LeaveSteps => board[c] \in BoardIDs
  BY DEF Structure, TypeOK, SessionsAgree, Unregistered
<1> QED
  BY <1>2, <1>3
     DEF Structure, TypeOK, At, Goto, Loop, Served, TakeReason, LeaveClear, LeaveBroadcast, LeaveTo,
       LeaveCheckOwner, FailPending, FailClose, Leaves, LeaveSteps, RequestsWithout,
       routerVars, taskVars, clientVars, sessionVars

(* Timers, the network, time. *)
LEMMA NoHandlerMoves ==
  ASSUME \/ \E t \in Conns : SnapshotTimeout(t) \/ TimeoutClose(t) \/ Drop(t)
         \/ PassTime \/ Finished \/ UNCHANGED vars
  PROVE  Stands /\ [Store!Next]_(Store!vars)
<1>1. CASE PassTime
  <2>1. UNCHANGED boardsByID /\ Store!Next
    BY <1>1 DEF PassTime, Store!Tick, Store!Next
  <2> QED
    BY <1>1, <2>1, IdleKeepsRosters DEF PassTime, Stands, routerVars, taskVars, sessionVars
<1>2. CASE ~PassTime
  <2>1. UNCHANGED storeVars
    BY <1>2 DEF SnapshotTimeout, TimeoutClose, Drop, Finished, vars
  <2> QED
    BY <1>2, <2>1, NoStoreCall
       DEF SnapshotTimeout, TimeoutClose, Drop, Finished, vars, Stands, routerVars, taskVars,
         sessionVars
<1> QED
  BY <1>1, <1>2

(* Every step is of one of these kinds, and what it does to the store is a
   step of the store. *)
LEMMA StepHasKind ==
  ASSUME Structure, [Next]_vars
  PROVE  StepKind /\ [Store!Next]_(Store!vars)
<1>1. CASE \E c \in Conns : Handle(c)
  <2> PICK c \in Conns : Handle(c)
    BY <1>1
  <2>1. CASE SessionCreate(c)
    BY <2>1, BoardCreated DEF StepKind, StepOf
  <2>2. CASE JoinLookup(c)
    BY <2>2, LookupTries DEF StepKind, StepOf
  <2>3. CASE AckCheckOwner(c)
    BY <2>3, EventProceeds DEF StepKind, StepOf
  <2>4. CASE SnapshotTake(c) \/ KickFind(c)
    BY <2>4, OwnerProceeds DEF StepKind, StepOf
  <2>5. CASE EventTouch(c) \/ Heartbeat(c) \/ RevokeTouch(c)
    BY <2>5, TouchProceeds DEF StepKind, StepOf
  <2> QED
    BY <2>1, <2>2, <2>3, <2>4, <2>5 DEF Handle
<1>2. CASE \E c \in Conns : Continue(c)
  <2> PICK c \in Conns : Continue(c)
    BY <1>2
  <2>1. CASE FinishCreate(c) \/ JoinSetOwner(c)
    BY <2>1, OwnerNamed DEF StepKind, StepOf
  <2>2. CASE RegisterOwner(c) \/ JoinRegister(c)
    BY <2>2, ConnectionRegistered DEF StepKind, StepOf
  <2>3. CASE JoinCheckOwner(c)
    BY <2>3, OwnerCheckTries DEF StepKind, StepOf
  <2>4. CASE JoinStore(c)
    BY <2>4, JoinsOrTries DEF StepKind, StepOf
  <2>5. CASE \/ JoinPend(c) \/ JoinReply(c) \/ JoinAnnounce(c)
             \/ RequestSnapshot(c) \/ JoinRefuse(c) \/ JoinClose(c)
             \/ \E r \in Conns : AnnounceTo(c, r)
    BY <2>5, JoinProceeds DEF StepKind, StepOf
  <2>6. CASE \/ SnapshotFindTarget(c) \/ SnapshotForward(c)
             \/ KickClose(c) \/ RevokeBroadcast(c) \/ RevokeDisconnect(c)
             \/ \E r \in Conns : RevokeTo(c, r) \/ RevokeClose(c, r)
    BY <2>6, OwnerProceeds DEF StepKind, StepOf
  <2>7. CASE EventBroadcast(c) \/ \E r \in Conns : EventTo(c, r)
    BY <2>7, EventProceeds DEF StepKind, StepOf
  <2>8. CASE SnapshotTouch(c) \/ AckTouch(c) \/ KickTouch(c)
    BY <2>8, TouchProceeds DEF StepKind, StepOf
  <2>9. CASE RevokeStore(c)
    BY <2>9, RevokeStoreProceeds DEF StepKind, StepOf
  <2>10. CASE Unregister(c)
    BY <2>10, DetachesOrLeaves DEF StepKind, StepOf
  <2>11. CASE LeaveStore(c)
    BY <2>11, PlaceFreed DEF StepKind, StepOf
  <2>12. CASE \/ TakeReason(c) \/ LeaveClear(c) \/ LeaveBroadcast(c) \/ LeaveCheckOwner(c)
              \/ FailPending(c) \/ \E r \in Conns : LeaveTo(c, r) \/ FailClose(c, r)
    BY <2>12, DisconnectionLeaves DEF StepKind, StepOf
  <2> QED
    BY <2>1, <2>2, <2>3, <2>4, <2>5, <2>6, <2>7, <2>8, <2>9, <2>10, <2>11, <2>12 DEF Continue
<1>3. CASE \/ \E t \in Conns : SnapshotTimeout(t) \/ TimeoutClose(t) \/ Drop(t)
           \/ PassTime \/ Finished \/ UNCHANGED vars
  BY <1>3, NoHandlerMoves DEF StepKind
<1> QED
  BY <1>1, <1>2, <1>3 DEF Next, Timer

(***************************************************************************)
(* The invariants of sessions, roles and places.                           *)
(***************************************************************************)
(* The maps of the sessions go with the handlers. *)
LEMMA SessionsAgreeNext ==
  ASSUME Structure, StepKind
  PROVE  SessionsAgree'
<1> USE RelayNoneAssumption
    DEF Structure, TypeOK, SessionsAgree, RolesKept, Attached, SettledConns,
        Newly, AttachedSteps, Unregistered, Steps, JoinSteps, CreateSteps, OwnerSteps,
        SnapshotSteps, EventSteps, LeaveSteps
<1>1. CASE Stands
  BY <1>1 DEF Stands, sessionVars
<1>2. ASSUME NEW c \in Conns, Proceeds(c) PROVE SessionsAgree'
  BY <1>2, SMTT(60) DEF Proceeds, Goto, sessionVars
<1>3. ASSUME NEW c \in Conns, NamesOwner(c) PROVE SessionsAgree'
  BY <1>3 DEF NamesOwner, Goto, sessionVars
<1>4. ASSUME NEW c \in Conns, Registers(c) PROVE SessionsAgree'
  BY <1>4, SMTT(60) DEF Registers, Register, Goto
<1>5. ASSUME NEW c \in Conns, Tries(c) PROVE SessionsAgree'
  BY <1>5 DEF Tries, Reject, Goto
<1>6. ASSUME NEW c \in Conns, Joins(c) PROVE SessionsAgree'
  BY <1>6 DEF Joins, Goto
<1>7. ASSUME NEW c \in Conns, Creates(c) PROVE SessionsAgree'
  BY <1>7 DEF Creates, Goto
<1>8. ASSUME NEW c \in Conns, Detaches(c) PROVE SessionsAgree'
  BY <1>8 DEF Detaches, Goto, OwnersWithout
<1>9. ASSUME NEW c \in Conns, Frees(c) PROVE SessionsAgree'
  BY <1>9 DEF Frees, Goto, sessionVars
<1>10. ASSUME NEW c \in Conns, Leaves(c) PROVE SessionsAgree'
  BY <1>10 DEF Leaves, Goto, sessionVars
<1> QED
  BY <1>1, <1>2, <1>3, <1>4, <1>5, <1>6, <1>7, <1>8, <1>9, <1>10 DEF StepKind, StepOf

(* Owners stay owners, and guests guests. *)
LEMMA RolesKeptNext ==
  ASSUME Structure, StepKind
  PROVE  RolesKept'
<1> USE RelayNoneAssumption
    DEF Structure, TypeOK, SessionsAgree, RolesKept, Attached, SettledConns, At,
        RostersStay, RosterBecomes, Exists, Store!Exists,
        Newly, AttachedSteps, Unregistered, Steps, JoinSteps, CreateSteps, OwnerSteps,
        SnapshotSteps, EventSteps, LeaveSteps
<1>1. CASE Stands
  BY <1>1 DEF Stands, sessionVars
<1>2. ASSUME NEW c \in Conns, Proceeds(c) PROVE RolesKept'
  <2>1. \A t \in Conns : t # c => pc'[t] = pc[t]
    BY <1>2 DEF Proceeds, Goto
  <2>2. UNCHANGED <<sessionByConn, board, creator>> /\ \A b \in BoardIDs : Exists(b)' => Exists(b)
    BY <1>2 DEF Proceeds, sessionVars
  <2>3. /\ Attached(c) /\ pc'[c] \notin CreateSteps \cup {"ownerLeft", "failing"}
        /\ pc'[c] \in OwnerSteps => creator[board[c]] = c
        /\ pc'[c] \in JoinSteps => creator[board[c]] # c
    BY <1>2 DEF Proceeds
  <2> QED
    BY <2>1, <2>2, <2>3
<1>3. ASSUME NEW c \in Conns, NamesOwner(c) PROVE RolesKept'
  BY <1>3 DEF NamesOwner, Goto, sessionVars
<1>4. ASSUME NEW c \in Conns, Registers(c) PROVE RolesKept'
  BY <1>4, SMTT(60) DEF Registers, Register, Goto
<1>5. ASSUME NEW c \in Conns, Tries(c) PROVE RolesKept'
  BY <1>5 DEF Tries, Reject, Goto
<1>6. ASSUME NEW c \in Conns, Joins(c) PROVE RolesKept'
  BY <1>6 DEF Joins, Goto
<1>7. ASSUME NEW c \in Conns, Creates(c) PROVE RolesKept'
  BY <1>7 DEF Creates, Goto
<1>8. ASSUME NEW c \in Conns, Detaches(c) PROVE RolesKept'
  BY <1>8 DEF Detaches, Goto, OwnersWithout
<1>9. ASSUME NEW c \in Conns, Frees(c) PROVE RolesKept'
  BY <1>9 DEF Frees, Goto, sessionVars
<1>10. ASSUME NEW c \in Conns, Leaves(c) PROVE RolesKept'
  <2>1. \A t \in Conns : t # c => pc'[t] = pc[t]
    BY <1>10 DEF Leaves, Goto
  <2>2. UNCHANGED <<sessionByConn, board, creator>> /\ \A b \in BoardIDs : Exists(b)' => Exists(b)
    BY <1>10 DEF Leaves, sessionVars
  <2>3. /\ pc[c] \in LeaveSteps \cup {"serving"} /\ ~Attached(c)
        /\ pc'[c] \in LeaveSteps \cup {"done"}
        /\ pc[c] = "serving" => pc'[c] = "done"
    BY <1>10 DEF Leaves, Goto
  <2>4. pc'[c] \in {"ownerLeft", "failing"} => creator[board[c]] = c
    BY <1>10 DEF Leaves, Goto, MapsBacked, OwnerEntryBacked
  <2> QED
    BY <2>1, <2>2, <2>3, <2>4
<1> QED
  BY <1>1, <1>2, <1>3, <1>4, <1>5, <1>6, <1>7, <1>8, <1>9, <1>10 DEF StepKind, StepOf

(* A board has its owner's entry as long as somebody is connected to it ... *)
LEMMA OwnerEntryKeptNext ==
  ASSUME Structure, StepKind
  PROVE  OwnerEntryKept'
<1> USE RelayNoneAssumption
    DEF Structure, TypeOK, SessionsAgree, RolesKept, OwnerEntryKept, MapsBacked,
        OwnerEntryBacked, Attached, SettledConns, At,
        Newly, AttachedSteps, Unregistered, Steps, JoinSteps, CreateSteps, OwnerSteps,
        SnapshotSteps, EventSteps, LeaveSteps
<1>1. CASE Stands
  BY <1>1 DEF Stands, sessionVars
<1>2. ASSUME NEW c \in Conns, Proceeds(c) PROVE OwnerEntryKept'
  <2>1. \A t \in Conns : pc[t] \in Newly => pc'[t] \in Newly
    BY <1>2 DEF Proceeds, Goto
  <2>2. UNCHANGED <<sessionByConn, board, creator, boardOwnerByBoard>>
    BY <1>2 DEF Proceeds, sessionVars
  <2> QED
    BY <2>1, <2>2
<1>3. ASSUME NEW c \in Conns, NamesOwner(c) PROVE OwnerEntryKept'
  BY <1>3 DEF NamesOwner, Goto, sessionVars
<1>4. ASSUME NEW c \in Conns, Registers(c) PROVE OwnerEntryKept'
  BY <1>4, SMTT(60) DEF Registers, Register, Goto
<1>5. ASSUME NEW c \in Conns, Tries(c) PROVE OwnerEntryKept'
  BY <1>5 DEF Tries, Reject, Goto
<1>6. ASSUME NEW c \in Conns, Joins(c) PROVE OwnerEntryKept'
  BY <1>6 DEF Joins, Goto
<1>7. ASSUME NEW c \in Conns, Creates(c) PROVE OwnerEntryKept'
  BY <1>7 DEF Creates, Goto
<1>8. ASSUME NEW c \in Conns, Detaches(c) PROVE OwnerEntryKept'
  BY <1>8 DEF Detaches, Goto, OwnersWithout
<1>9. ASSUME NEW c \in Conns, Frees(c) PROVE OwnerEntryKept'
  BY <1>9 DEF Frees, Goto, sessionVars
<1>10. ASSUME NEW c \in Conns, Leaves(c) PROVE OwnerEntryKept'
  BY <1>10 DEF Leaves, Goto, sessionVars
<1> QED
  BY <1>1, <1>2, <1>3, <1>4, <1>5, <1>6, <1>7, <1>8, <1>9, <1>10 DEF StepKind, StepOf

(* ... and no longer. *)
LEMMA OwnerEntryBackedNext ==
  ASSUME Structure, StepKind
  PROVE  OwnerEntryBacked'
<1> USE RelayNoneAssumption
    DEF Structure, TypeOK, SessionsAgree, RolesKept, OwnerEntryKept, MapsBacked,
        OwnerEntryBacked, Attached, SettledConns, At,
        Newly, AttachedSteps, Unregistered, Steps, JoinSteps, CreateSteps, OwnerSteps,
        SnapshotSteps, EventSteps, LeaveSteps
<1>1. CASE Stands
  BY <1>1 DEF Stands, sessionVars
<1>2. ASSUME NEW c \in Conns, Proceeds(c) PROVE OwnerEntryBacked'
  BY <1>2, SMTT(60) DEF Proceeds, Goto, sessionVars
<1>3. ASSUME NEW c \in Conns, NamesOwner(c) PROVE OwnerEntryBacked'
  BY <1>3 DEF NamesOwner, Goto, sessionVars
<1>4. ASSUME NEW c \in Conns, Registers(c) PROVE OwnerEntryBacked'
  BY <1>4, SMTT(60) DEF Registers, Register, Goto
<1>5. ASSUME NEW c \in Conns, Tries(c) PROVE OwnerEntryBacked'
  BY <1>5 DEF Tries, Reject, Goto
<1>6. ASSUME NEW c \in Conns, Joins(c) PROVE OwnerEntryBacked'
  BY <1>6 DEF Joins, Goto
<1>7. ASSUME NEW c \in Conns, Creates(c) PROVE OwnerEntryBacked'
  BY <1>7 DEF Creates, Goto
<1>8. ASSUME NEW c \in Conns, Detaches(c) PROVE OwnerEntryBacked'
  BY <1>8 DEF Detaches, Goto, OwnersWithout
<1>9. ASSUME NEW c \in Conns, Frees(c) PROVE OwnerEntryBacked'
  BY <1>9 DEF Frees, Goto, sessionVars
<1>10. ASSUME NEW c \in Conns, Leaves(c) PROVE OwnerEntryBacked'
  BY <1>10 DEF Leaves, Goto, sessionVars
<1> QED
  BY <1>1, <1>2, <1>3, <1>4, <1>5, <1>6, <1>7, <1>8, <1>9, <1>10 DEF StepKind, StepOf

(* The places: who is let in is in the store, and who is not in the maps any
   more is taken out of it. *)
LEMMA PlacesAgreeNext ==
  ASSUME Structure, PlacesAgree, Store!StoreInv', StepKind
  PROVE  PlacesAgree'
<1> DEFINE InStore ==
             \A b \in BoardIDs : Exists(b) => Members(b) \subseteq boardsByID[b].participants
<1>1. NoGhostParticipants /\ InStore
  BY DEF PlacesAgree
<1>2. /\ NoGhostParticipants' /\ InStore'
      /\ \A b \in BoardIDs : Members(b)' \subseteq Members(b) \/ Exists(b)'
  <2> USE <1>1, RelayNoneAssumption
      DEF Structure, TypeOK, SessionsAgree, RolesKept, NoGhostParticipants, Members, Exists,
        Store!Exists, Attached, RostersStay, RosterBecomes,
        Newly, AttachedSteps, Unregistered, Steps, JoinSteps, CreateSteps, OwnerSteps,
        SnapshotSteps, EventSteps, LeaveSteps
  <2>1. CASE Stands
    BY <2>1 DEF Stands, sessionVars
  <2>2. ASSUME NEW c \in Conns, Proceeds(c) PROVE <1>2!:
    BY <2>2, SMTT(60) DEF Proceeds, Goto, sessionVars
  <2>3. ASSUME NEW c \in Conns, NamesOwner(c) PROVE <1>2!:
    <3>1. NoGhostParticipants'
      BY <2>3 DEF NamesOwner, Goto, sessionVars
    <3>2. InStore'
      BY <2>3 DEF NamesOwner, Goto, sessionVars
    <3>3. \A b \in BoardIDs : Members(b)' \subseteq Members(b) \/ Exists(b)'
      BY <2>3 DEF NamesOwner, Goto, sessionVars
    <3> QED
      BY <3>1, <3>2, <3>3
  <2>4. ASSUME NEW c \in Conns, Registers(c) PROVE <1>2!:
    BY <2>4, SMTT(60) DEF Registers, Register, Goto
  <2>5. ASSUME NEW c \in Conns, Tries(c) PROVE <1>2!:
    BY <2>5, SMTT(60) DEF Tries, Reject, Goto
  <2>6. ASSUME NEW c \in Conns, Joins(c) PROVE <1>2!:
    <3>1. NoGhostParticipants'
      BY <2>6 DEF Joins, Goto
    <3>2. InStore'
      BY <2>6 DEF Joins, Goto
    <3>3. \A b \in BoardIDs : Members(b)' \subseteq Members(b) \/ Exists(b)'
      BY <2>6 DEF Joins, Goto
    <3> QED
      BY <3>1, <3>2, <3>3
  <2>7. ASSUME NEW c \in Conns, Creates(c) PROVE <1>2!:
    <3>1. NoGhostParticipants'
      BY <2>7 DEF Creates, Goto
    <3>2. InStore'
      BY <2>7 DEF Creates, Goto
    <3>3. \A b \in BoardIDs : Members(b)' \subseteq Members(b) \/ Exists(b)'
      BY <2>7 DEF Creates, Goto
    <3> QED
      BY <3>1, <3>2, <3>3
  <2>8. ASSUME NEW c \in Conns, Detaches(c) PROVE <1>2!:
    BY <2>8 DEF Detaches, Goto, OwnersWithout
  <2>9. ASSUME NEW c \in Conns, Frees(c) PROVE <1>2!:
    BY <2>9 DEF Frees, Goto, sessionVars
  <2>10. ASSUME NEW c \in Conns, Leaves(c) PROVE <1>2!:
    BY <2>10, SMTT(60) DEF Leaves, Goto, sessionVars
  <2> QED
    BY <2>1, <2>2, <2>3, <2>4, <2>5, <2>6, <2>7, <2>8, <2>9, <2>10 DEF StepKind, StepOf
<1>3. \A b \in BoardIDs : IsFiniteSet(Members(b)') /\ Cardinality(Members(b)') <= MaxParticipants
  <2> SUFFICES ASSUME NEW b \in BoardIDs
               PROVE  IsFiniteSet(Members(b)') /\ Cardinality(Members(b)') <= MaxParticipants
    OBVIOUS
  <2>1. PICK S : /\ IsFiniteSet(S) /\ Cardinality(S) <= MaxParticipants
                 /\ Members(b)' \subseteq S
    <3>1. CASE Members(b)' \subseteq Members(b)
      BY <3>1 DEF PlacesAgree
    <3>2. CASE Exists(b)'
      BY <3>2, <1>2, FewParticipantsNext
    <3> QED
      BY <3>1, <3>2, <1>2
  <2>2. /\ IsFiniteSet(Members(b)') /\ Cardinality(Members(b)') <= Cardinality(S)
        /\ Cardinality(Members(b)') \in Nat /\ Cardinality(S) \in Nat
    BY <2>1, FS_Subset, FS_CardinalityType
  <2> QED
    BY <2>1, <2>2, RelayNumbersAssumption
<1> QED
  BY <1>2, <1>3 DEF PlacesAgree

(***************************************************************************)
(* Types.                                                                  *)
(***************************************************************************)
LEMMA TypeOKNext ==
  ASSUME Structure, OnlyGuests, Store!StoreInv', [Next]_vars
  PROVE  TypeOK'
<1> USE RelayNoneAssumption
    DEF Structure, TypeOK, SessionsAgree, Attached, At, Goto, Loop, Served, Register, Reject,
        Others, TouchOr, Reads, ReadsAttached, ReadsFromOwner, RequestsWithout, OwnersWithout,
        storeVars, routerVars, taskVars, clientVars, Reasons, Unregistered, Steps, JoinSteps,
        CreateSteps, OwnerSteps, SnapshotSteps, EventSteps, LeaveSteps
<1>1. Store!TypeOK'
  BY DEF Store!StoreInv
<1>2. ASSUME NEW c \in Conns, Handle(c) PROVE TypeOK'
  <2>1. CASE SessionCreate(c)
    BY <1>1, <2>1 DEF SessionCreate
  <2>2. CASE JoinLookup(c)
    <3>1. boardIDsByJoinCode \in [JoinCodes -> BoardIDs \cup {NoBoard}]
      BY DEF Store!TypeOK
    <3> QED
      BY <1>1, <3>1, <2>2 DEF JoinLookup
  <2>3. CASE SnapshotTake(c)
    BY <1>1, <2>3 DEF SnapshotTake
  <2>4. CASE EventTouch(c)
    BY <1>1, <2>4 DEF EventTouch
  <2>5. CASE AckCheckOwner(c)
    BY <1>1, <2>5 DEF AckCheckOwner
  <2>6. CASE Heartbeat(c)
    BY <1>1, <2>6 DEF Heartbeat
  <2>7. CASE KickFind(c)
    BY <1>1, <2>7 DEF KickFind
  <2>8. CASE RevokeTouch(c)
    BY <1>1, <2>8 DEF RevokeTouch
  <2> QED
    BY <1>2, <2>1, <2>2, <2>3, <2>4, <2>5, <2>6, <2>7, <2>8 DEF Handle
<1>3. ASSUME NEW c \in Conns, Continue(c) PROVE TypeOK'
  <2>1. CASE RegisterOwner(c)
    BY <1>1, <2>1 DEF RegisterOwner
  <2>2. CASE FinishCreate(c)
    BY <1>1, <2>2 DEF FinishCreate
  <2>3. CASE JoinCheckOwner(c)
    BY <1>1, <2>3, SMTT(30) DEF JoinCheckOwner, Reject
  <2>4. CASE JoinStore(c)
    <3>1. code[c] \in JoinCodes /\ Store!TypeOK
      BY <2>4 DEF JoinStore
    <3>2. PICK now \in Store!CallerNow :
            \/ /\ Store!JoinBoard(code[c], c, now, "ok")
               /\ board' = [board EXCEPT ![c] = boardIDsByJoinCode[code[c]]]
               /\ listing' = [listing EXCEPT
                    ![c] = boardsByID'[boardIDsByJoinCode[code[c]]].participants]
               /\ code' = [code EXCEPT ![c] = NoCode]
               /\ Goto(c, "joinAdded")
            \/ Reject(c) /\ UNCHANGED listing
      BY <2>4 DEF JoinStore
    <3>3. UNCHANGED <<routerVars, peer, todo, timedOut, clientVars, creator>>
      BY <2>4 DEF JoinStore
    <3>4. CASE Reject(c) /\ UNCHANGED listing
      BY <1>1, <3>3, <3>4 DEF Reject
    <3>5. CASE /\ Store!JoinBoard(code[c], c, now, "ok")
               /\ board' = [board EXCEPT ![c] = boardIDsByJoinCode[code[c]]]
               /\ listing' = [listing EXCEPT
                    ![c] = boardsByID'[boardIDsByJoinCode[code[c]]].participants]
               /\ code' = [code EXCEPT ![c] = NoCode]
               /\ Goto(c, "joinAdded")
      <4> DEFINE b == boardIDsByJoinCode[code[c]]
      <4>1. now \in Nat
        BY <3>1 DEF Store!TypeOK, Store!CallerNow
      <4>2. b \in BoardIDs /\ boardsByID'[b] # NoBoard
        BY <3>1, <3>5, <4>1, JoinAddsParticipant
      <4>3. boardsByID'[b].participants \in SUBSET Conns
        <5>1. boardsByID'[b] \in Store!BoardRecord
          BY <4>2, <1>1 DEF Store!TypeOK
        <5> QED
          BY <5>1 DEF Store!BoardRecord
      <4>4. /\ board' = [board EXCEPT ![c] = b]
            /\ listing' = [listing EXCEPT ![c] = boardsByID'[b].participants]
        BY <3>5
      <4> HIDE DEF b
      <4> QED
        BY <1>1, <3>3, <3>5, <4>2, <4>3, <4>4
    <3> QED
      BY <3>2, <3>4, <3>5
  <2>5. CASE JoinRegister(c)
    BY <1>1, <2>5 DEF JoinRegister
  <2>6. CASE JoinSetOwner(c)
    BY <1>1, <2>6 DEF JoinSetOwner
  <2>7. CASE JoinPend(c)
    BY <1>1, <2>7 DEF JoinPend
  <2>8. CASE JoinReply(c)
    BY <1>1, <2>8 DEF JoinReply
  <2>9. CASE JoinAnnounce(c)
    BY <1>1, <2>9 DEF JoinAnnounce
  <2>10. CASE RequestSnapshot(c)
    BY <1>1, <2>10 DEF RequestSnapshot
  <2>11. CASE JoinRefuse(c)
    BY <1>1, <2>11 DEF JoinRefuse
  <2>12. CASE JoinClose(c)
    BY <1>1, <2>12 DEF JoinClose
  <2>13. CASE SnapshotFindTarget(c)
    BY <1>1, <2>13 DEF SnapshotFindTarget
  <2>14. CASE SnapshotTouch(c)
    BY <1>1, <2>14 DEF SnapshotTouch
  <2>15. CASE SnapshotForward(c)
    <3>1. peer[c] \in Conns
      BY <2>15 DEF SnapshotForward, OnlyGuests
    <3> QED
      BY <1>1, <2>15, <3>1 DEF SnapshotForward
  <2>16. CASE EventBroadcast(c)
    BY <1>1, <2>16 DEF EventBroadcast
  <2>17. CASE AckTouch(c)
    BY <1>1, <2>17 DEF AckTouch
  <2>18. CASE KickTouch(c)
    BY <1>1, <2>18 DEF KickTouch
  <2>19. CASE KickClose(c)
    BY <1>1, <2>19 DEF KickClose
  <2>20. CASE RevokeStore(c)
    BY <1>1, <2>20 DEF RevokeStore
  <2>21. CASE RevokeBroadcast(c)
    BY <1>1, <2>21 DEF RevokeBroadcast
  <2>22. CASE RevokeDisconnect(c)
    BY <1>1, <2>22 DEF RevokeDisconnect
  <2>23. CASE Unregister(c)
    BY <1>1, <2>23, SMTT(30) DEF Unregister
  <2>24. CASE TakeReason(c)
    BY <1>1, <2>24 DEF TakeReason
  <2>25. CASE LeaveStore(c)
    BY <1>1, <2>25 DEF LeaveStore
  <2>26. CASE LeaveClear(c)
    BY <1>1, <2>26 DEF LeaveClear
  <2>27. CASE LeaveBroadcast(c)
    BY <1>1, <2>27 DEF LeaveBroadcast
  <2>28. CASE LeaveCheckOwner(c)
    BY <1>1, <2>28 DEF LeaveCheckOwner
  <2>29. CASE FailPending(c)
    BY <1>1, <2>29 DEF FailPending
  <2>30. ASSUME NEW r \in Conns, AnnounceTo(c, r) PROVE TypeOK'
    BY <1>1, <2>30 DEF AnnounceTo
  <2>31. ASSUME NEW r \in Conns, EventTo(c, r) PROVE TypeOK'
    BY <1>1, <2>31 DEF EventTo
  <2>32. ASSUME NEW r \in Conns, RevokeTo(c, r) PROVE TypeOK'
    BY <1>1, <2>32 DEF RevokeTo
  <2>33. ASSUME NEW r \in Conns, RevokeClose(c, r) PROVE TypeOK'
    BY <1>1, <2>33 DEF RevokeClose
  <2>34. ASSUME NEW r \in Conns, LeaveTo(c, r) PROVE TypeOK'
    BY <1>1, <2>34 DEF LeaveTo
  <2>35. ASSUME NEW r \in Conns, FailClose(c, r) PROVE TypeOK'
    BY <1>1, <2>35 DEF FailClose
  <2> QED
    BY <1>3, <2>1, <2>2, <2>3, <2>4, <2>5, <2>6, <2>7, <2>8, <2>9, <2>10, <2>11, <2>12, <2>13,
       <2>14, <2>15, <2>16, <2>17, <2>18, <2>19, <2>20, <2>21, <2>22, <2>23, <2>24, <2>25, <2>26,
       <2>27,
       <2>28, <2>29, <2>30, <2>31, <2>32, <2>33, <2>34, <2>35 DEF Continue
<1>4. ASSUME NEW c \in Conns, Timer(c) \/ Drop(c) PROVE TypeOK'
  <2>1. CASE SnapshotTimeout(c)
    BY <1>1, <2>1 DEF SnapshotTimeout
  <2>2. CASE TimeoutClose(c)
    BY <1>1, <2>2 DEF TimeoutClose
  <2>3. CASE Drop(c)
    BY <1>1, <2>3 DEF Drop
  <2> QED
    BY <1>4, <2>1, <2>2, <2>3 DEF Timer
<1>5. CASE PassTime \/ Finished \/ UNCHANGED vars
  BY <1>1, <1>5 DEF PassTime, Finished, vars
<1> QED
  BY <1>2, <1>3, <1>4, <1>5 DEF Next

(***************************************************************************)
(* Guests, and what is about them.                                         *)
(***************************************************************************)
\* Settled connections stay on their boards, and boards keep their creators.
SettledStay ==
  /\ \A t \in Conns : t \in SettledConns => t \in SettledConns' /\ board'[t] = board[t]
  /\ \A b \in BoardIDs : creator[b] # NoConn => creator'[b] = creator[b]

LEMMA BoardsStay ==
  ASSUME Structure, StepKind
  PROVE  SettledStay
<1> USE DEF SettledStay, Structure, TypeOK, SessionsAgree, SettledConns, Attached, Goto,
            sessionVars, Newly, AttachedSteps, Unregistered, LeaveSteps
<1>1. CASE Stands
  BY <1>1 DEF Stands
<1>2. ASSUME NEW c \in Conns, Proceeds(c) PROVE SettledStay
  BY <1>2 DEF Proceeds
<1>3. ASSUME NEW c \in Conns, NamesOwner(c) PROVE SettledStay
  BY <1>3 DEF NamesOwner
<1>4. ASSUME NEW c \in Conns, Registers(c) PROVE SettledStay
  BY <1>4 DEF Registers, Register
<1>5. ASSUME NEW c \in Conns, Tries(c) PROVE SettledStay
  BY <1>5 DEF Tries, Reject
<1>6. ASSUME NEW c \in Conns, Joins(c) PROVE SettledStay
  BY <1>6 DEF Joins
<1>7. ASSUME NEW c \in Conns, Creates(c) PROVE SettledStay
  BY <1>7 DEF Creates
<1>8. ASSUME NEW c \in Conns, Detaches(c) PROVE SettledStay
  BY <1>8 DEF Detaches
<1>9. ASSUME NEW c \in Conns, Frees(c) PROVE SettledStay
  BY <1>9 DEF Frees
<1>10. ASSUME NEW c \in Conns, Leaves(c) PROVE SettledStay
  BY <1>10 DEF Leaves
<1> QED
  BY <1>1, <1>2, <1>3, <1>4, <1>5, <1>6, <1>7, <1>8, <1>9, <1>10 DEF StepKind, StepOf

LEMMA GuestsStay ==
  ASSUME Structure, StepKind, NEW t \in Conns, NEW b \in BoardIDs, Guest(t, b)
  PROVE  Guest(t, b)'
<1>1. SettledStay
  BY BoardsStay
<1>2. creator[b] # NoConn
  BY RelayNoneAssumption DEF Guest, Structure, TypeOK, RolesKept
<1> QED
  BY <1>1, <1>2 DEF Guest, SettledStay

(***************************************************************************)
(* The snapshot handshake, kicks and revocations: most steps have nothing  *)
(* to do with them.                                                        *)
(***************************************************************************)
AimingSteps == SnapshotSteps \cup {"kickFound", "kickTouched"}
PuttingOutSteps == AimingSteps \cup {"closing", "failing", "joinFailed"}

\* Nobody asks, answers, aims at anybody or puts anybody out; connections may
\* break.
Bystands ==
  /\ UNCHANGED <<pendingSnapshotRequests, timedOut, synced, peer>>
  /\ \A t \in Conns :
       /\ disconnectReasonByConn'[t] \in {"none", disconnectReasonByConn[t]}
       /\ open'[t] => open[t]
       /\ \/ pc'[t] = pc[t] /\ todo'[t] = todo[t]
          \/ pc[t] \notin PuttingOutSteps /\ pc'[t] \notin PuttingOutSteps

\* The steps that do.
HandshakeStep(c) ==
  \/ JoinPend(c) \/ JoinRefuse(c) \/ JoinClose(c)
  \/ SnapshotTake(c) \/ SnapshotFindTarget(c) \/ SnapshotTouch(c) \/ SnapshotForward(c)
  \/ SnapshotTimeout(c) \/ TimeoutClose(c)
  \/ LeaveClear(c) \/ FailPending(c) \/ \E r \in Conns : FailClose(c, r)

PutOutStep(c) ==
  \/ KickFind(c) \/ KickTouch(c) \/ KickClose(c) \/ RevokeDisconnect(c)
  \/ \E r \in Conns : RevokeClose(c, r)

LEMMA MostStepsBystand ==
  ASSUME TypeOK, [Next]_vars
  PROVE  Bystands \/ \E c \in Conns : HandshakeStep(c) \/ PutOutStep(c)
<1> USE DEF Bystands, PuttingOutSteps, AimingSteps, SnapshotSteps, TypeOK, At, Goto, storeVars,
            routerVars, taskVars, clientVars
<1>1. ASSUME NEW c \in Conns, Handle(c)
      PROVE  Bystands \/ HandshakeStep(c) \/ PutOutStep(c)
  <2> USE DEF Reads, ReadsAttached, ReadsFromOwner, TouchOr
  <2>1. CASE SessionCreate(c) \/ JoinLookup(c) \/ AckCheckOwner(c)
    BY <2>1 DEF SessionCreate, JoinLookup, AckCheckOwner
  <2>2. CASE EventTouch(c) \/ Heartbeat(c) \/ RevokeTouch(c)
    BY <2>2 DEF EventTouch, Heartbeat, RevokeTouch
  <2> QED
    BY <1>1, <2>1, <2>2 DEF Handle, HandshakeStep, PutOutStep
<1>2. ASSUME NEW c \in Conns, Continue(c)
      PROVE  Bystands \/ HandshakeStep(c) \/ PutOutStep(c)
  <2> USE DEF Register, Reject, Loop, Served
  <2>1. CASE RegisterOwner(c) \/ FinishCreate(c)
    BY <2>1 DEF RegisterOwner, FinishCreate
  <2>2. CASE JoinCheckOwner(c) \/ JoinStore(c) \/ JoinRegister(c) \/ JoinSetOwner(c)
    BY <2>2 DEF JoinCheckOwner, JoinStore, JoinRegister, JoinSetOwner
  <2>3. CASE \/ JoinReply(c) \/ JoinAnnounce(c) \/ RequestSnapshot(c)
             \/ \E r \in Conns : AnnounceTo(c, r)
    BY <2>3 DEF JoinReply, JoinAnnounce, RequestSnapshot, AnnounceTo
  <2>4. CASE EventBroadcast(c) \/ AckTouch(c) \/ \E r \in Conns : EventTo(c, r)
    BY <2>4 DEF EventBroadcast, AckTouch, TouchOr, EventTo
  <2>5. CASE RevokeStore(c) \/ RevokeBroadcast(c) \/ \E r \in Conns : RevokeTo(c, r)
    BY <2>5 DEF RevokeStore, RevokeBroadcast, RevokeTo
  <2>6. CASE Unregister(c) \/ TakeReason(c) \/ LeaveStore(c)
    BY <2>6 DEF Unregister, TakeReason, LeaveStore
  <2>7. CASE LeaveBroadcast(c) \/ LeaveCheckOwner(c) \/ \E r \in Conns : LeaveTo(c, r)
    BY <2>7 DEF LeaveBroadcast, LeaveCheckOwner, LeaveTo
  <2> QED
    BY <1>2, <2>1, <2>2, <2>3, <2>4, <2>5, <2>6, <2>7 DEF Continue, HandshakeStep, PutOutStep
<1>3. ASSUME NEW c \in Conns, Drop(c) PROVE Bystands
  BY <1>3 DEF Drop
<1>4. CASE PassTime \/ Finished \/ UNCHANGED vars
  BY <1>4 DEF PassTime, Finished, vars
<1> QED
  BY <1>1, <1>2, <1>3, <1>4 DEF Next, Timer, HandshakeStep

(* Whoever is in the maps of a board and has not created it is its guest. *)
LEMMA AttachedIsGuest ==
  ASSUME TypeOK, SessionsAgree, NEW b \in BoardIDs, NEW t \in Conns,
         t \in connectionsByBoard[b], creator[b] # t
  PROVE  Guest(t, b)
<1>1. sessionByConn[t] = b /\ board[t] = b /\ Attached(t)
  BY RelayNoneAssumption DEF TypeOK, SessionsAgree, Attached
<1> QED
  BY <1>1 DEF Guest, SettledConns

(* A message only the owner may send comes from the creator of the board. *)
LEMMA OwnerHasCreated ==
  ASSUME TypeOK, SessionsAgree, MapsBacked, NEW c \in Conns, NEW request, ReadsFromOwner(c, request)
  PROVE  creator[board[c]] = c /\ board[c] \in BoardIDs
<1>1. board[c] \in BoardIDs
  BY DEF TypeOK, SessionsAgree, ReadsFromOwner, ReadsAttached, Attached
<1> QED
  BY <1>1, RelayNoneAssumption DEF MapsBacked, OwnerEntryBacked, ReadsFromOwner

(* Guests stay guests of their boards while others go on. *)
LEMMA BystandersKeepGuests ==
  ASSUME TypeOK, SessionsAgree, RolesKept, OnlyGuests, SettledStay, Bystands
  PROVE  OnlyGuests'
<1>1. ASSUME NEW t \in Conns, NEW b \in BoardIDs, Guest(t, b)
      PROVE  board'[t] = b /\ t \in SettledConns' /\ creator'[b] # t /\ board[t] = b
  BY <1>1, RelayNoneAssumption DEF Guest, SettledStay, TypeOK, RolesKept
<1>2. UNCHANGED <<pendingSnapshotRequests, timedOut, synced, peer>>
  BY DEF Bystands
<1>3. ASSUME NEW b \in BoardIDs, NEW t \in pendingSnapshotRequests'[b] PROVE Guest(t, b)'
  BY <1>1, <1>2, <1>3 DEF OnlyGuests, Guest, TypeOK
<1>4. ASSUME NEW t \in (timedOut \cup synced)' PROVE Guest(t, board[t])'
  <2>1. t \in Conns /\ Guest(t, board[t])
    BY <1>2, <1>4 DEF OnlyGuests, TypeOK
  <2>2. board[t] \in BoardIDs
    BY <2>1 DEF Guest
  <2> QED
    BY <1>1, <2>1, <2>2 DEF Guest
<1>5. \A c \in Conns : pc[c] \in AimingSteps \cup {"closing", "failing"} =>
        c \in SettledConns /\ board[c] \in BoardIDs
  BY DEF TypeOK, SessionsAgree, AimingSteps, SnapshotSteps, Unregistered, LeaveSteps,
     SettledConns, Attached
<1>6. ASSUME NEW c \in Conns
      PROVE  /\ disconnectReasonByConn'[c] # "none" => Guest(c, board[c])'
             /\ peer'[c] # NoConn => Guest(peer[c], board[c])'
             /\ peer'[c] # NoConn <=> pc'[c] \in AimingSteps
             /\ pc'[c] \in {"closing", "failing"} => \A t \in todo'[c] : Guest(t, board[c])'
  <2>1. /\ peer'[c] = peer[c] /\ disconnectReasonByConn'[c] \in {"none", disconnectReasonByConn[c]}
        /\ \/ pc'[c] = pc[c] /\ todo'[c] = todo[c]
           \/ pc[c] \notin PuttingOutSteps /\ pc'[c] \notin PuttingOutSteps
    BY DEF Bystands
  <2>2. peer'[c] # NoConn <=> pc'[c] \in AimingSteps
    BY <2>1 DEF OnlyGuests, AimingSteps, PuttingOutSteps
  <2>3. disconnectReasonByConn'[c] # "none" => Guest(c, board[c])'
    <3>1. disconnectReasonByConn'[c] # "none" => Guest(c, board[c])
      BY <2>1 DEF OnlyGuests
    <3> QED
      BY <3>1, <1>1 DEF Guest
  <2>4. pc'[c] \in AimingSteps \cup {"closing", "failing"} =>
          board'[c] = board[c] /\ board[c] \in BoardIDs
    BY <2>1, <1>5 DEF PuttingOutSteps, SettledStay
  <2>5. peer'[c] # NoConn => Guest(peer[c], board[c])'
    <3>1. peer'[c] # NoConn => peer[c] \in Conns /\ Guest(peer[c], board[c])
      BY <2>1 DEF OnlyGuests, TypeOK
    <3> QED
      BY <3>1, <2>1, <2>2, <2>4, <1>1 DEF Guest
  <2>6. pc'[c] \in {"closing", "failing"} => \A t \in todo'[c] : Guest(t, board[c])'
    <3>1. pc'[c] \in {"closing", "failing"} => \A t \in todo'[c] : t \in Conns /\ Guest(t, board[c])
      BY <2>1 DEF OnlyGuests, TypeOK, PuttingOutSteps
    <3> QED
      BY <3>1, <2>4, <1>1 DEF Guest
  <2> QED
    BY <2>2, <2>3, <2>5, <2>6
<1> QED
  BY <1>3, <1>4, <1>6 DEF OnlyGuests, AimingSteps

LEMMA OnlyGuestsNext ==
  ASSUME TypeOK, SessionsAgree, RolesKept, MapsBacked, OnlyGuests, SettledStay,
         NEW c \in Conns, HandshakeStep(c) \/ PutOutStep(c)
  PROVE  OnlyGuests'
<1>1. CASE JoinPend(c)
  <2>1. Guest(c, board[c]) /\ board[c] \in BoardIDs
    <3>1. /\ Attached(c) /\ board[c] \in BoardIDs
          /\ c \in connectionsByBoard[board[c]] /\ creator[board[c]] # c
      BY <1>1 DEF JoinPend, At, TypeOK, SessionsAgree, RolesKept, JoinSteps, Attached,
         Unregistered, LeaveSteps
    <3> QED
      BY <3>1, AttachedIsGuest
  <2>2. UNCHANGED <<disconnectReasonByConn, board, peer, todo, timedOut, synced, creator>>
    BY <1>1 DEF JoinPend, clientVars
  <2>3. \A t \in Conns, b \in BoardIDs : Guest(t, b) => Guest(t, b)'
    BY <2>2 DEF Guest, SettledStay
  <2> QED
    BY <1>1, <2>1, <2>2, RelayNoneAssumption
       DEF OnlyGuests, Guest, SettledStay, TypeOK, JoinPend, At, Goto, SnapshotSteps
<1>2. CASE KickFind(c)
  <2>1. creator[board[c]] = c /\ board[c] \in BoardIDs
    BY <1>2, OwnerHasCreated DEF KickFind
  <2>2. PICK t \in Conns : Guest(t, board[c]) /\ peer' = [peer EXCEPT ![c] = t]
    BY <1>2, <2>1, AttachedIsGuest DEF KickFind, Connected, TypeOK
  <2>3. /\ UNCHANGED <<pendingSnapshotRequests, disconnectReasonByConn, board, todo, timedOut,
                        synced, creator>>
        /\ pc' = [pc EXCEPT ![c] = "kickFound"]
    BY <1>2 DEF KickFind, clientVars, routerVars, Goto
  <2> QED
    BY <2>2, <2>3, RelayNoneAssumption DEF OnlyGuests, Guest, SettledStay, TypeOK, SnapshotSteps
<1>3. CASE RevokeDisconnect(c)
  <2>1. creator[board[c]] = c /\ board[c] \in BoardIDs
    BY <1>3 DEF RevokeDisconnect, At, TypeOK, SessionsAgree, RolesKept, OwnerSteps, Unregistered,
       LeaveSteps, Attached
  <2>2. \A t \in Others(c) : t \in Conns /\ Guest(t, board[c])
    BY <2>1, AttachedIsGuest DEF Others, TypeOK
  <2> QED
    BY <1>3, <2>2, RelayNoneAssumption
       DEF RevokeDisconnect, Loop, OnlyGuests, Guest, SettledStay, TypeOK, At, Goto, routerVars,
         clientVars, SnapshotSteps
<1> USE RelayNoneAssumption
    DEF OnlyGuests, Guest, SettledStay, TypeOK, SessionsAgree, At, Goto, Loop, Served,
        RequestsWithout, TouchOr, routerVars, clientVars, SnapshotSteps
<1>4. CASE JoinRefuse(c)
  BY <1>4 DEF JoinRefuse
<1>5. CASE JoinClose(c)
  BY <1>5 DEF JoinClose
<1>6. CASE SnapshotTake(c)
  <2>1. PICK t \in pendingSnapshotRequests[board[c]] :
          /\ pendingSnapshotRequests' = RequestsWithout(board[c], t)
          /\ peer' = [peer EXCEPT ![c] = t]
    BY <1>6 DEF SnapshotTake
  <2>2. t \in Conns /\ Guest(t, board[c])
    BY <1>6, <2>1 DEF SnapshotTake, Reads, ReadsAttached, ReadsFromOwner, Attached
  <2> QED
    BY <1>6, <2>1, <2>2 DEF SnapshotTake
<1>7. CASE SnapshotFindTarget(c)
  BY <1>7 DEF SnapshotFindTarget
<1>8. CASE SnapshotTouch(c)
  BY <1>8 DEF SnapshotTouch
<1>9. CASE SnapshotForward(c)
  BY <1>9 DEF SnapshotForward
<1>10. CASE KickTouch(c)
  BY <1>10 DEF KickTouch
<1>11. CASE KickClose(c)
  BY <1>11 DEF KickClose
<1>12. CASE LeaveClear(c)
  BY <1>12 DEF LeaveClear
<1>13. CASE FailPending(c)
  <2>1. board[c] \in BoardIDs
    BY <1>13 DEF FailPending, Unregistered, LeaveSteps
  <2>2. \A t \in pendingSnapshotRequests[board[c]] : t \in Conns /\ Guest(t, board[c])
    BY <2>1
  <2> QED
    BY <1>13, <2>1, <2>2 DEF FailPending
<1>14. CASE SnapshotTimeout(c)
  BY <1>14 DEF SnapshotTimeout
<1>15. CASE TimeoutClose(c)
  BY <1>15 DEF TimeoutClose
<1>16. ASSUME NEW r \in Conns, RevokeClose(c, r) PROVE OnlyGuests'
  BY <1>16 DEF RevokeClose
<1>17. ASSUME NEW r \in Conns, FailClose(c, r) PROVE OnlyGuests'
  BY <1>17 DEF FailClose
<1> QED
  BY <1>1, <1>2, <1>3, <1>4, <1>5, <1>6, <1>7, <1>8, <1>9, <1>10, <1>11,
     <1>12, <1>13, <1>14, <1>15, <1>16, <1>17 DEF HandshakeStep, PutOutStep

(***************************************************************************)
(* Requests belong to guests that are there.                               *)
(***************************************************************************)
LEMMA NewRequests ==
  ASSUME TypeOK, [Next]_vars, NEW b \in BoardIDs, NEW t \in pendingSnapshotRequests'[b]
  PROVE  t \in pendingSnapshotRequests[b] \/ pc'[t] = "joinPending"
<1> USE DEF TypeOK
<1>1. CASE Bystands
  BY <1>1 DEF Bystands
<1>2. ASSUME NEW c \in Conns, PutOutStep(c) PROVE t \in pendingSnapshotRequests[b]
  BY <1>2 DEF PutOutStep, KickFind, KickTouch, KickClose, RevokeDisconnect, RevokeClose, routerVars
<1>3. ASSUME NEW c \in Conns, HandshakeStep(c)
      PROVE  t \in pendingSnapshotRequests[b] \/ pc'[t] = "joinPending"
  <2>1. CASE JoinPend(c)
    BY <2>1 DEF JoinPend, Goto
  <2>2. CASE ~JoinPend(c)
    BY <1>3, <2>2 DEF HandshakeStep, JoinRefuse, JoinClose, SnapshotTake, SnapshotFindTarget,
       SnapshotTouch, SnapshotForward, SnapshotTimeout, TimeoutClose, LeaveClear, FailPending,
       FailClose, RequestsWithout, routerVars
  <2> QED
    BY <2>1, <2>2
<1> QED
  BY <1>1, <1>2, <1>3, MostStepsBystand

(* A guest that asked goes, if it goes, through the disconnect handler that
   takes its request off. *)
LEMMA AskersGoInOrder ==
  ASSUME Structure, StepKind, NEW b \in BoardIDs, NEW t \in Conns,
         t \in pendingSnapshotRequests'[b],
         \/ sessionByConn[t] = b
         \/ pc[t] \in {"unregistered", "reasonTaken", "participantRemoved"} /\ board[t] = b
  PROVE  sessionByConn'[t] = b \/ pc'[t] \in {"unregistered", "reasonTaken", "participantRemoved"}
<1> DEFINE G == \/ sessionByConn'[t] = b
                \/ pc'[t] \in {"unregistered", "reasonTaken", "participantRemoved"}
<1> USE RelayNoneAssumption
    DEF Structure, TypeOK, SessionsAgree, Attached, Goto, sessionVars, Newly,
        AttachedSteps, Unregistered, LeaveSteps
<1>1. CASE Stands
  BY <1>1 DEF Stands
<1>2. ASSUME NEW c \in Conns, Proceeds(c) PROVE G
  BY <1>2 DEF Proceeds
<1>3. ASSUME NEW c \in Conns, NamesOwner(c) PROVE G
  BY <1>3 DEF NamesOwner
<1>4. ASSUME NEW c \in Conns, Registers(c) PROVE G
  BY <1>4 DEF Registers, Register
<1>5. ASSUME NEW c \in Conns, Tries(c) PROVE G
  BY <1>5 DEF Tries, Reject
<1>6. ASSUME NEW c \in Conns, Joins(c) PROVE G
  BY <1>6 DEF Joins
<1>7. ASSUME NEW c \in Conns, Creates(c) PROVE G
  BY <1>7 DEF Creates
<1>8. ASSUME NEW c \in Conns, Detaches(c) PROVE G
  BY <1>8 DEF Detaches
<1>9. ASSUME NEW c \in Conns, Frees(c) PROVE G
  BY <1>9 DEF Frees
<1>10. ASSUME NEW c \in Conns, Leaves(c) PROVE G
  BY <1>10 DEF Leaves
<1> QED
  BY <1>1, <1>2, <1>3, <1>4, <1>5, <1>6, <1>7, <1>8, <1>9, <1>10 DEF StepKind, StepOf

LEMMA PendingBackedNext ==
  ASSUME Structure, OnlyGuests', SessionsAgree', TypeOK', StepKind, [Next]_vars
  PROVE  PendingBacked'
<1> SUFFICES ASSUME NEW b \in BoardIDs, NEW t \in pendingSnapshotRequests'[b]
             PROVE  /\ board'[t] = b
                    /\ \/ sessionByConn'[t] = b
                       \/ pc'[t] \in {"unregistered", "reasonTaken", "participantRemoved"}
  BY DEF PendingBacked
<1>1. t \in Conns /\ board'[t] = b
  BY DEF OnlyGuests, Guest, TypeOK
<1>2. CASE pc'[t] = "joinPending"
  BY <1>1, <1>2 DEF SessionsAgree, Attached, Unregistered, LeaveSteps
<1>3. CASE t \in pendingSnapshotRequests[b]
  BY <1>1, <1>3, AskersGoInOrder DEF Structure, MapsBacked, PendingBacked
<1> QED
  BY <1>1, <1>2, <1>3, NewRequests DEF Structure

(***************************************************************************)
(* The life of a snapshot request: it is pending, then it is answered or   *)
(* failed, and a guest whose answer was written is in synced.              *)
(***************************************************************************)
Pending  == {t \in Conns : IsPending(t)}
Answered == {t \in Conns : BeingAnswered(t)}
Failed   == {t \in Conns : BeingFailed(t)}

Become(pending, answered, failed, withSnapshot) ==
  /\ Pending' = pending /\ Answered' = answered /\ Failed' = failed /\ synced' = withSnapshot

AskingSteps == {"joinRegistered", "joinOwnerSet"}

\* What one step does to the requests.
Rests       == Become(Pending, Answered, Failed, synced)
Asks(t)     == /\ pc[t] = "joinOwnerSet" /\ pc'[t] = "joinPending"
               /\ Become(Pending \cup {t}, Answered, Failed, synced)
IsTaken(t)  == /\ t \in Pending
               /\ Become(Pending \ {t}, Answered \cup {t}, Failed, synced)
IsLost(t)   == /\ ~Attached(t) \/ ~Exists(board[t])'
               /\ Become(Pending, Answered \ {t}, Failed, synced)
IsSent(t)   == /\ t \in Answered
               /\ Become(Pending, Answered \ {t}, Failed,
                          IF open[t] THEN synced \cup {t} ELSE synced)
AreFailed(T) == /\ T \subseteq Pending
                /\ Become(Pending \ T, Answered, Failed \cup T, synced)
IsClosed(t) == /\ ~open'[t] /\ Failed' \subseteq Failed /\ Failed \ {t} \subseteq Failed'
               /\ Become(Pending, Answered, Failed', synced)
IsWithdrawn(t) == ~Attached(t) /\ Become(Pending \ {t}, Answered, Failed, synced)

RequestStep ==
  \/ Rests
  \/ \E t \in Conns : Asks(t) \/ IsTaken(t) \/ IsLost(t) \/ IsSent(t)
                       \/ IsClosed(t) \/ IsWithdrawn(t)
  \/ \E T \in SUBSET Conns : AreFailed(T)

\* What the life of a request rests on.
RequestBasis == TypeOK /\ SessionsAgree /\ RolesKept /\ MapsBacked /\ OnlyGuests

LEMMA BystandersRest ==
  ASSUME TypeOK, Bystands
  PROVE  Rests
BY DEF TypeOK, Bystands, Rests, Become, Pending, Answered, Failed, IsPending, BeingAnswered,
       BeingFailed, PuttingOutSteps, AimingSteps, SnapshotSteps

LEMMA RequestsRest ==
  ASSUME TypeOK, NEW c \in Conns, PutOutStep(c)
  PROVE  Rests
<1> USE DEF TypeOK, Rests, Become, Pending, Answered, Failed, IsPending, BeingAnswered,
        BeingFailed, SnapshotSteps, At, Goto, Loop, Served, routerVars, clientVars
<1>1. CASE KickFind(c)
  BY <1>1 DEF KickFind, ReadsFromOwner, ReadsAttached, Reads
<1>2. CASE KickTouch(c)
  BY <1>2 DEF KickTouch, TouchOr
<1>3. CASE KickClose(c)
  BY <1>3 DEF KickClose
<1>4. CASE RevokeDisconnect(c)
  BY <1>4 DEF RevokeDisconnect
<1>5. ASSUME NEW r \in Conns, RevokeClose(c, r) PROVE Rests
  BY <1>5 DEF RevokeClose
<1> QED
  BY <1>1, <1>2, <1>3, <1>4, <1>5 DEF PutOutStep

(* The guest's goroutine, the timer and the owner's disconnect handler. *)
LEMMA RequestsMove ==
  ASSUME RequestBasis, NEW c \in Conns,
         \/ JoinPend(c) \/ JoinRefuse(c) \/ JoinClose(c)
         \/ SnapshotTimeout(c) \/ TimeoutClose(c)
         \/ LeaveClear(c) \/ FailPending(c) \/ \E r \in Conns : FailClose(c, r)
  PROVE  RequestStep
<1> USE DEF RequestBasis, TypeOK, OnlyGuests, Guest, Become, Pending, Answered, Failed, IsPending,
        BeingAnswered, BeingFailed, SnapshotSteps, At, Goto, Loop, Served, RequestsWithout,
        routerVars, clientVars
<1>1. pc[c] \in {"joinOwnerSet", "joinRefused", "participantRemoved", "ownerLeft"} =>
        board[c] \in BoardIDs
  BY DEF SessionsAgree, Attached, Unregistered, LeaveSteps
<1>2. pc[c] = "participantRemoved" => ~Attached(c)
  BY DEF SessionsAgree, LeaveSteps
<1>3. JoinPend(c) => Asks(c)
  BY <1>1, <1>2 DEF JoinPend, Asks
<1>4. JoinRefuse(c) => AreFailed({c}) \/ Rests
  BY <1>1, <1>2 DEF JoinRefuse, AreFailed, Rests
<1>5. JoinClose(c) => IsClosed(c)
  BY <1>1, <1>2 DEF JoinClose, IsClosed
<1>6. SnapshotTimeout(c) => AreFailed({c})
  BY <1>1, <1>2 DEF SnapshotTimeout, AreFailed
<1>7. TimeoutClose(c) => IsClosed(c)
  BY <1>1, <1>2 DEF TimeoutClose, IsClosed
<1>8. LeaveClear(c) => IsWithdrawn(c)
  BY <1>1, <1>2 DEF LeaveClear, IsWithdrawn
<1>9. FailPending(c) => AreFailed(pendingSnapshotRequests[board[c]])
  BY <1>1 DEF FailPending, AreFailed
<1>10. FailPending(c) => pendingSnapshotRequests[board[c]] \in SUBSET Conns
  BY <1>1 DEF FailPending
<1>11. \A r \in Conns : FailClose(c, r) => IsClosed(r)
  BY DEF FailClose, IsClosed
<1> HIDE DEF RequestBasis, TypeOK, OnlyGuests, Guest, Become, Pending, Answered, Failed, IsPending,
        BeingAnswered, BeingFailed, SnapshotSteps, At, Goto, Loop, Served, RequestsWithout,
        routerVars, clientVars
<1> QED
  BY <1>3, <1>4, <1>5, <1>6, <1>7, <1>8, <1>9, <1>10, <1>11 DEF RequestStep

(* The owner's answer.  Only one goroutine answers a request: the owner's. *)
LEMMA OneAnswerer ==
  ASSUME RequestBasis, NEW c \in Conns, NEW d \in Conns, pc[c] \in SnapshotSteps,
         pc[d] \in SnapshotSteps, peer[c] = peer[d]
  PROVE  c = d
<1>1. creator[board[c]] = c /\ creator[board[d]] = d
  BY DEF RequestBasis, RolesKept, OwnerSteps
<1>2. board[c] = board[d]
  BY DEF RequestBasis, OnlyGuests, Guest
<1> QED
  BY <1>1, <1>2

LEMMA AnswerSent ==
  ASSUME RequestBasis, NEW c \in Conns, SnapshotForward(c)
  PROVE  \E t \in Conns : IsSent(t)
<1>1. pc[c] = "snapshotTouched" /\ peer[c] \in Conns
  BY DEF SnapshotForward, At, RequestBasis, OnlyGuests, TypeOK, SnapshotSteps
<1>2. \A d \in Conns : pc[d] \in SnapshotSteps /\ peer[d] = peer[c] => d = c
  BY <1>1, OneAnswerer DEF SnapshotSteps
<1>3. pc' = [pc EXCEPT ![c] = "serving"] /\ peer' = [peer EXCEPT ![c] = NoConn]
  BY DEF SnapshotForward, Goto
<1>4. Answered' = Answered \ {peer[c]} /\ peer[c] \in Answered
  BY <1>1, <1>2, <1>3, RelayNoneAssumption DEF RequestBasis, TypeOK, Answered, BeingAnswered,
       SnapshotSteps
<1>5. /\ Pending' = Pending /\ Failed' = Failed
      /\ synced' = IF open[peer[c]] THEN synced \cup {peer[c]} ELSE synced
  BY <1>1, <1>3 DEF SnapshotForward, RequestBasis, TypeOK, Pending, Failed, IsPending,
       BeingFailed, routerVars
<1> QED
  BY <1>1, <1>4, <1>5 DEF IsSent, Become

LEMMA TargetFoundOrLost ==
  ASSUME RequestBasis, NEW c \in Conns, SnapshotFindTarget(c)
  PROVE  Rests \/ \E t \in Conns : IsLost(t)
<1>1. pc[c] = "snapshotTaken" /\ peer[c] \in Conns
  BY DEF SnapshotFindTarget, At, RequestBasis, OnlyGuests, TypeOK, SnapshotSteps
<1>2. \A d \in Conns : pc[d] \in SnapshotSteps /\ peer[d] = peer[c] => d = c
  BY <1>1, OneAnswerer DEF SnapshotSteps
<1>3. CASE Connected(board[c], peer[c])
  BY <1>1, <1>3 DEF SnapshotFindTarget, Rests, Become, Pending, Answered, Failed, IsPending,
       BeingAnswered, BeingFailed, SnapshotSteps, Goto, RequestBasis, TypeOK, routerVars,
       clientVars
<1>4. CASE ~Connected(board[c], peer[c])
  <2>1. pc' = [pc EXCEPT ![c] = "serving"] /\ peer' = [peer EXCEPT ![c] = NoConn]
    BY <1>4 DEF SnapshotFindTarget, Goto
  <2>2. Answered' = Answered \ {peer[c]} /\ peer[c] \in Answered
    BY <1>1, <1>2, <2>1, RelayNoneAssumption DEF RequestBasis, TypeOK, Answered, BeingAnswered,
         SnapshotSteps
  <2>3. Pending' = Pending /\ Failed' = Failed /\ synced' = synced
    BY <1>1, <2>1 DEF SnapshotFindTarget, RequestBasis, TypeOK, Pending, Failed, IsPending,
         BeingFailed, routerVars, clientVars
  <2>4. ~Attached(peer[c])
    BY <1>1, <1>4, RelayNoneAssumption DEF Connected, RequestBasis, TypeOK, OnlyGuests, Guest,
         SessionsAgree, Attached
  <2> QED
    BY <1>1, <2>2, <2>3, <2>4 DEF IsLost, Become
<1> QED
  BY <1>3, <1>4

LEMMA TouchMissesBoard ==
  ASSUME NEW c \in Conns, board[c] \in BoardIDs, NEW now,
         Store!TouchBoard(board[c], now, "ErrBoardNotFound")
  PROVE  boardsByID'[board[c]] = NoBoard
BY DEF Store!TouchBoard, Store!MissingBoard, Store!DeleteBoards, Store!Exists
LEMMA TouchedOrLost ==
  ASSUME RequestBasis, NEW c \in Conns, SnapshotTouch(c)
  PROVE  Rests \/ \E t \in Conns : IsLost(t)
<1>1. pc[c] = "snapshotFound" /\ peer[c] \in Conns
  BY DEF SnapshotTouch, At, RequestBasis, OnlyGuests, TypeOK, SnapshotSteps
<1>2. \A d \in Conns : pc[d] \in SnapshotSteps /\ peer[d] = peer[c] => d = c
  BY <1>1, OneAnswerer DEF SnapshotSteps
<1>0. PICK t \in Conns : t = peer[c] /\ board[c] \in BoardIDs /\ board[t] = board[c]
  BY <1>1, RelayNoneAssumption DEF RequestBasis, OnlyGuests, Guest
<1>3. CASE Goto(c, "snapshotTouched")
  BY <1>1, <1>3 DEF SnapshotTouch, Rests, Become, Pending, Answered, Failed, IsPending,
       BeingAnswered, BeingFailed, SnapshotSteps, Goto, RequestBasis, TypeOK, routerVars,
       clientVars
<1>4. CASE /\ Goto(c, "serving")
           /\ \E now \in Store!CallerNow : Store!TouchBoard(board[c], now, "ErrBoardNotFound")
  <2>1. pc' = [pc EXCEPT ![c] = "serving"] /\ peer' = [peer EXCEPT ![c] = NoConn]
    BY <1>4 DEF SnapshotTouch, Goto, RequestBasis, TypeOK
  <2>2. Answered' = Answered \ {t}
    BY <1>0, <1>1, <1>2, <2>1, RelayNoneAssumption DEF RequestBasis, TypeOK, Answered,
         BeingAnswered, SnapshotSteps
  <2>3. Pending' = Pending /\ Failed' = Failed /\ synced' = synced
    BY <1>1, <2>1 DEF SnapshotTouch, RequestBasis, TypeOK, Pending, Failed, IsPending,
         BeingFailed, routerVars, clientVars
  <2>4. ~Exists(board[t])'
    <3>1. UNCHANGED board
      BY DEF SnapshotTouch
    <3> QED
      BY <1>4, <1>0, <3>1, TouchMissesBoard DEF Exists, Store!Exists
  <2> QED
    BY <2>2, <2>3, <2>4 DEF IsLost, Become
<1> QED
  BY <1>3, <1>4 DEF SnapshotTouch, TouchOr

LEMMA RequestTaken ==
  ASSUME RequestBasis, NEW c \in Conns, SnapshotTake(c)
  PROVE  \E t \in Conns : IsTaken(t)
<1>1. board[c] \in BoardIDs
  BY DEF SnapshotTake, ReadsFromOwner, ReadsAttached, At, RequestBasis, TypeOK, SessionsAgree,
       Attached, Unregistered, LeaveSteps
<1>2. PICK t \in pendingSnapshotRequests[board[c]] :
       /\ pendingSnapshotRequests' = RequestsWithout(board[c], t)
       /\ peer' = [peer EXCEPT ![c] = t]
  BY DEF SnapshotTake
<1>3. IsTaken(t)
  BY <1>1, <1>2, RelayNoneAssumption DEF RequestBasis, TypeOK, SnapshotTake, Reads,
       ReadsAttached, ReadsFromOwner, IsTaken, OnlyGuests, Guest, Become, Pending, Answered,
       Failed, IsPending, BeingAnswered, BeingFailed, SnapshotSteps, Loop, Served, At, Goto,
       routerVars, clientVars, RequestsWithout
<1> QED
  BY <1>1, <1>2, <1>3 DEF RequestBasis, TypeOK

LEMMA RequestsStep ==
  ASSUME RequestBasis, [Next]_vars
  PROVE  RequestStep
<1>1. CASE Bystands
  BY <1>1, BystandersRest DEF RequestBasis, RequestStep
<1>2. ASSUME NEW c \in Conns, PutOutStep(c) PROVE RequestStep
  BY <1>2, RequestsRest DEF RequestBasis, RequestStep
<1>3. ASSUME NEW c \in Conns, HandshakeStep(c) PROVE RequestStep
  <2>1. CASE SnapshotTake(c)
    BY <2>1, RequestTaken DEF RequestStep
  <2>2. CASE SnapshotFindTarget(c)
    BY <2>2, TargetFoundOrLost DEF RequestStep
  <2>3. CASE SnapshotTouch(c)
    BY <2>3, TouchedOrLost DEF RequestStep
  <2>4. CASE SnapshotForward(c)
    BY <2>4, AnswerSent DEF RequestStep
  <2> QED
    BY <1>3, <2>1, <2>2, <2>3, <2>4, RequestsMove DEF HandshakeStep
<1> QED
  BY <1>1, <1>2, <1>3, MostStepsBystand DEF RequestBasis

(***************************************************************************)
(* The outcome of a request.                                               *)
(***************************************************************************)
\* Who is in one of the four sets.
Asked == Pending \cup Answered \cup Failed \cup synced

LEMMA AskedAreSettled ==
  ASSUME RequestBasis
  PROVE  Asked \subseteq SettledConns
BY DEF RequestBasis, TypeOK, SessionsAgree, OnlyGuests, Guest, Asked, Pending, Answered, Failed,
       IsPending, BeingAnswered, BeingFailed, SettledConns, Attached, SnapshotSteps, Unregistered,
       LeaveSteps

LEMMA OnlyAskersAreNew ==
  ASSUME RequestStep, NEW t \in Asked'
  PROVE  t \in Asked \/ pc'[t] = "joinPending"
BY DEF RequestStep, Asked, Become, Rests, Asks, IsTaken, IsLost, IsSent, AreFailed, IsClosed,
       IsWithdrawn

LEMMA AskingFollowsJoining ==
  ASSUME Structure, StepKind, NEW t \in Conns, pc'[t] \in AskingSteps
  PROVE  pc[t] \in AskingSteps \cup {"joinAdded"}
<1> USE DEF Structure, TypeOK, AskingSteps, Goto, sessionVars, Newly
<1>1. CASE Stands
  BY <1>1 DEF Stands
<1>2. ASSUME NEW c \in Conns, Proceeds(c) PROVE pc[t] \in AskingSteps \cup {"joinAdded"}
  BY <1>2 DEF Proceeds, AttachedSteps
<1>3. ASSUME NEW c \in Conns, NamesOwner(c) PROVE pc[t] \in AskingSteps \cup {"joinAdded"}
  BY <1>3 DEF NamesOwner
<1>4. ASSUME NEW c \in Conns, Registers(c) PROVE pc[t] \in AskingSteps \cup {"joinAdded"}
  BY <1>4 DEF Registers, Register
<1>5. ASSUME NEW c \in Conns, Tries(c) PROVE pc[t] \in AskingSteps \cup {"joinAdded"}
  BY <1>5 DEF Tries, Reject
<1>6. ASSUME NEW c \in Conns, Joins(c) PROVE pc[t] \in AskingSteps \cup {"joinAdded"}
  BY <1>6 DEF Joins
<1>7. ASSUME NEW c \in Conns, Creates(c) PROVE pc[t] \in AskingSteps \cup {"joinAdded"}
  BY <1>7 DEF Creates
<1>8. ASSUME NEW c \in Conns, Detaches(c) PROVE pc[t] \in AskingSteps \cup {"joinAdded"}
  BY <1>8 DEF Detaches
<1>9. ASSUME NEW c \in Conns, Frees(c) PROVE pc[t] \in AskingSteps \cup {"joinAdded"}
  BY <1>9 DEF Frees
<1>10. ASSUME NEW c \in Conns, Leaves(c) PROVE pc[t] \in AskingSteps \cup {"joinAdded"}
  BY <1>10 DEF Leaves
<1> QED
  BY <1>1, <1>2, <1>3, <1>4, <1>5, <1>6, <1>7, <1>8, <1>9, <1>10 DEF StepKind, StepOf

LEMMA AskersAsk ==
  ASSUME Structure, StepKind, NEW t \in Conns, pc[t] \in AskingSteps
  PROVE  pc'[t] \in AskingSteps \/ t \in Pending'
<1> USE DEF Structure, TypeOK, SessionsAgree, Attached, AskingSteps, Goto, sessionVars, Newly,
        Pending, IsPending, Unregistered, LeaveSteps
<1>1. CASE Stands
  BY <1>1 DEF Stands
<1>2. ASSUME NEW c \in Conns, Proceeds(c) PROVE pc'[t] \in AskingSteps \/ t \in Pending'
  BY <1>2 DEF Proceeds
<1>3. ASSUME NEW c \in Conns, NamesOwner(c) PROVE pc'[t] \in AskingSteps \/ t \in Pending'
  BY <1>3 DEF NamesOwner
<1>4. ASSUME NEW c \in Conns, Registers(c) PROVE pc'[t] \in AskingSteps \/ t \in Pending'
  BY <1>4 DEF Registers, Register
<1>5. ASSUME NEW c \in Conns, Tries(c) PROVE pc'[t] \in AskingSteps \/ t \in Pending'
  BY <1>5 DEF Tries, Reject
<1>6. ASSUME NEW c \in Conns, Joins(c) PROVE pc'[t] \in AskingSteps \/ t \in Pending'
  BY <1>6 DEF Joins
<1>7. ASSUME NEW c \in Conns, Creates(c) PROVE pc'[t] \in AskingSteps \/ t \in Pending'
  BY <1>7 DEF Creates
<1>8. ASSUME NEW c \in Conns, Detaches(c) PROVE pc'[t] \in AskingSteps \/ t \in Pending'
  BY <1>8 DEF Detaches
<1>9. ASSUME NEW c \in Conns, Frees(c) PROVE pc'[t] \in AskingSteps \/ t \in Pending'
  BY <1>9 DEF Frees
<1>10. ASSUME NEW c \in Conns, Leaves(c) PROVE pc'[t] \in AskingSteps \/ t \in Pending'
  BY <1>10 DEF Leaves
<1> QED
  BY <1>1, <1>2, <1>3, <1>4, <1>5, <1>6, <1>7, <1>8, <1>9, <1>10 DEF StepKind, StepOf

LEMMA NewcomersAsk ==
  ASSUME Structure, StepKind, NEW t \in Conns, NEW b \in BoardIDs,
         sessionByConn'[t] = b, t # creator'[b]
  PROVE  pc'[t] = "joinRegistered" \/ (sessionByConn[t] = b /\ t # creator[b])
<1> DEFINE G == pc'[t] = "joinRegistered" \/ (sessionByConn[t] = b /\ t # creator[b])
<1> USE RelayNoneAssumption
    DEF Structure, TypeOK, SessionsAgree, RolesKept, Attached, AskingSteps, Goto, sessionVars,
        Newly,
        CreateSteps, Unregistered, LeaveSteps
<1>1. CASE Stands
  BY <1>1 DEF Stands
<1>2. ASSUME NEW c \in Conns, Proceeds(c) PROVE G
  BY <1>2 DEF Proceeds
<1>3. ASSUME NEW c \in Conns, NamesOwner(c) PROVE G
  BY <1>3 DEF NamesOwner
<1>4. ASSUME NEW c \in Conns, Registers(c) PROVE G
  BY <1>4 DEF Registers, Register
<1>5. ASSUME NEW c \in Conns, Tries(c) PROVE G
  BY <1>5 DEF Tries, Reject
<1>6. ASSUME NEW c \in Conns, Joins(c) PROVE G
  BY <1>6 DEF Joins
<1>7. ASSUME NEW c \in Conns, Creates(c) PROVE G
  BY <1>7 DEF Creates
<1>8. ASSUME NEW c \in Conns, Detaches(c) PROVE G
  BY <1>8 DEF Detaches
<1>9. ASSUME NEW c \in Conns, Frees(c) PROVE G
  BY <1>9 DEF Frees
<1>10. ASSUME NEW c \in Conns, Leaves(c) PROVE G
  BY <1>10 DEF Leaves
<1> QED
  BY <1>1, <1>2, <1>3, <1>4, <1>5, <1>6, <1>7, <1>8, <1>9, <1>10 DEF StepKind, StepOf

LEMMA BoardsAreOld ==
  ASSUME Structure, StepKind, NEW t \in Conns, NEW b \in BoardIDs, sessionByConn[t] = b, Exists(b)'
  PROVE  Exists(b)
<1> USE RelayNoneAssumption
    DEF Structure, TypeOK, SessionsAgree, RolesKept, Attached, RostersStay, RosterBecomes
<1>1. CASE Stands
  BY <1>1 DEF Stands
<1>2. ASSUME NEW c \in Conns, Proceeds(c) PROVE Exists(b)
  BY <1>2 DEF Proceeds
<1>3. ASSUME NEW c \in Conns, NamesOwner(c) PROVE Exists(b)
  BY <1>3 DEF NamesOwner
<1>4. ASSUME NEW c \in Conns, Registers(c) PROVE Exists(b)
  BY <1>4 DEF Registers, Register
<1>5. ASSUME NEW c \in Conns, Tries(c) PROVE Exists(b)
  BY <1>5 DEF Tries, Reject
<1>6. ASSUME NEW c \in Conns, Joins(c) PROVE Exists(b)
  BY <1>6 DEF Joins
<1>7. ASSUME NEW c \in Conns, Creates(c) PROVE Exists(b)
  BY <1>7 DEF Creates
<1>8. ASSUME NEW c \in Conns, Detaches(c) PROVE Exists(b)
  BY <1>8 DEF Detaches
<1>9. ASSUME NEW c \in Conns, Frees(c) PROVE Exists(b)
  BY <1>9 DEF Frees, Exists, Store!Exists, sessionVars
<1>10. ASSUME NEW c \in Conns, Leaves(c) PROVE Exists(b)
  BY <1>10 DEF Leaves
<1> QED
  BY <1>1, <1>2, <1>3, <1>4, <1>5, <1>6, <1>7, <1>8, <1>9, <1>10 DEF StepKind, StepOf

LEMMA NothingBeforeAskingNext ==
  ASSUME Structure, OnlyGuests, NothingBeforeAsking, StepKind, RequestStep
  PROVE  NothingBeforeAsking'
<1> SUFFICES ASSUME NEW t \in Conns, pc'[t] \in AskingSteps PROVE t \notin Asked'
  BY DEF NothingBeforeAsking, AskingSteps, Asked, Pending, Answered, Failed
<1>1. t \notin Asked
  <2>1. CASE pc[t] \in AskingSteps
    BY <2>1 DEF NothingBeforeAsking, AskingSteps, Asked, Pending, Answered, Failed
  <2>2. CASE pc[t] = "joinAdded"
    <3>1. t \notin SettledConns
      BY <2>2 DEF Structure, SessionsAgree, SettledConns, Unregistered, LeaveSteps
    <3> QED
      BY <3>1, AskedAreSettled DEF Structure, RequestBasis
  <2> QED
    BY <2>1, <2>2, AskingFollowsJoining
<1> QED
  BY <1>1, OnlyAskersAreNew DEF AskingSteps

(* The four sets stay apart. *)
Apart ==
  /\ Pending \cap (Answered \cup Failed \cup synced) = {}
  /\ Answered \cap (Failed \cup synced) = {}
  /\ Failed \cap synced = {}

LEMMA OneOutcomeIsApart == TypeOK => (OneOutcome <=> Apart)
BY DEF TypeOK, OneOutcome, Apart, Pending, Answered, Failed

LEMMA OneOutcomeNext ==
  ASSUME TypeOK, TypeOK', NothingBeforeAsking, OneOutcome, RequestStep
  PROVE  OneOutcome'
<1>1. Apart
  BY OneOutcomeIsApart
<1>2. \A t \in Conns : pc[t] = "joinOwnerSet" =>
        t \notin Pending \cup Answered \cup Failed \cup synced
  BY DEF NothingBeforeAsking, Pending, Answered, Failed
<1>3. Apart'
  BY <1>1, <1>2 DEF Apart, RequestStep, Become, Rests, Asks, IsTaken, IsLost, IsSent, AreFailed,
     IsClosed, IsWithdrawn
<1>4. (TypeOK => (OneOutcome <=> Apart))'
  BY OneOutcomeIsApart, PTL
<1> QED
  BY <1>3, <1>4

LEMMA NobodyForgottenNext ==
  ASSUME Structure, NobodyForgotten, StepKind, RequestStep, TypeOK', SessionsAgree',
         \A u \in Conns : open'[u] => open[u]
  PROVE  NobodyForgotten'
<1> SUFFICES ASSUME NEW t \in Conns, NEW b \in BoardIDs, sessionByConn'[t] = b, t # creator'[b],
                    open'[t], Exists(b)', pc'[t] \notin AskingSteps
             PROVE  t \in (Pending \cup Answered \cup Failed \cup synced)'
  BY DEF NobodyForgotten, AskingSteps, Pending, Answered, Failed
<1>1. sessionByConn[t] = b /\ t # creator[b] /\ open[t]
  BY NewcomersAsk DEF AskingSteps
<1>2. Exists(b)
  BY <1>1, BoardsAreOld
<1>3. pc[t] \in AskingSteps \/ t \in Pending \cup Answered \cup Failed \cup synced
  BY <1>1, <1>2 DEF NobodyForgotten, AskingSteps, Pending, Answered, Failed
<1>4. Attached(t) /\ board'[t] = b
  BY <1>1, RelayNoneAssumption DEF SessionsAgree, Attached
<1>5. CASE t \in Pending \cup Answered \cup Failed \cup synced
  <2>1. ~IsLost(t) /\ ~IsWithdrawn(t) /\ ~IsClosed(t)
    BY <1>4 DEF IsLost, IsWithdrawn, IsClosed, Exists
  <2> QED
    BY <1>1, <1>5, <2>1 DEF RequestStep, Become, Rests, Asks, IsTaken, IsLost, IsSent, AreFailed,
       IsClosed, IsWithdrawn
<1> QED
  BY <1>3, <1>5, AskersAsk

(***************************************************************************)
(* Nobody waits for an owner that is gone.                                 *)
(***************************************************************************)
\* No step opens a connection that was closed.
LEMMA ClosedStayClosed ==
  ASSUME TypeOK, [Next]_vars, NEW u \in Conns, open'[u]
  PROVE  open[u]
<1>1. CASE Bystands
  BY <1>1 DEF Bystands
<1>2. ASSUME NEW c \in Conns, PutOutStep(c) PROVE open[u]
  BY <1>2 DEF TypeOK, PutOutStep, KickFind, KickTouch, KickClose, RevokeDisconnect, RevokeClose,
     clientVars
<1>3. ASSUME NEW c \in Conns, HandshakeStep(c) PROVE open[u]
  BY <1>3 DEF TypeOK, HandshakeStep, JoinPend, JoinRefuse, JoinClose, SnapshotTake,
     SnapshotFindTarget, SnapshotTouch, SnapshotForward, SnapshotTimeout, TimeoutClose, LeaveClear,
     FailPending, FailClose, clientVars
<1> QED
  BY <1>1, <1>2, <1>3, MostStepsBystand

\* The owner of board b is connected, or its disconnect handler has still to
\* look at the pending requests.
OwnerAround(b) == Connected(b, creator[b]) \/ OwnerWillFail(b)

(* It does not leave without looking while it is the owner on record. *)
LEMMA OwnerStaysAround ==
  ASSUME Structure, StepKind, NEW b \in BoardIDs, creator[b] # NoConn, OwnerAround(b),
         pendingSnapshotRequests'[b] # {},
         boardOwnerByBoard[b] = creator[b] \/ pc[creator[b]] # "left"
  PROVE  OwnerAround(b)'
<1> DEFINE o == creator[b]
           G == \/ creator'[b] = o /\ o \in connectionsByBoard'[b]
                \/ creator'[b] = o /\ board'[o] = b /\ pc'[o] \in LeaveSteps \ {"failing"}
<1> SUFFICES G
  BY DEF OwnerAround, Connected, OwnerWillFail
<1> USE RelayNoneAssumption
    DEF Structure, TypeOK, SessionsAgree, OwnerAround, Connected, OwnerWillFail, Attached, Goto,
        sessionVars, Newly, AttachedSteps, Unregistered, LeaveSteps
<1>1. CASE Stands
  BY <1>1 DEF Stands
<1>2. ASSUME NEW c \in Conns, Proceeds(c) PROVE G
  BY <1>2 DEF Proceeds
<1>3. ASSUME NEW c \in Conns, NamesOwner(c) PROVE G
  BY <1>3 DEF NamesOwner
<1>4. ASSUME NEW c \in Conns, Registers(c) PROVE G
  BY <1>4 DEF Registers, Register
<1>5. ASSUME NEW c \in Conns, Tries(c) PROVE G
  BY <1>5 DEF Tries, Reject
<1>6. ASSUME NEW c \in Conns, Joins(c) PROVE G
  BY <1>6 DEF Joins
<1>7. ASSUME NEW c \in Conns, Creates(c) PROVE G
  BY <1>7 DEF Creates
<1>8. ASSUME NEW c \in Conns, Detaches(c) PROVE G
  BY <1>8 DEF Detaches
<1>9. ASSUME NEW c \in Conns, Frees(c) PROVE G
  BY <1>9 DEF Frees
<1>10. ASSUME NEW c \in Conns, Leaves(c) PROVE G
  BY <1>10 DEF Leaves
<1> QED
  BY <1>1, <1>2, <1>3, <1>4, <1>5, <1>6, <1>7, <1>8, <1>9, <1>10 DEF StepKind, StepOf

(* A guest that is waiting when its own handler has ended has asked an owner
   that was connected. *)
LEMMA AskersFindOwner ==
  ASSUME Structure, StepKind, NEW b \in BoardIDs, NEW t \in Conns,
         t \in pendingSnapshotRequests[b], t \in pendingSnapshotRequests'[b],
         pc[t] \in JoinSteps \cup LeaveSteps
  PROVE  pc'[t] \in JoinSteps \cup LeaveSteps \/ ~open'[t] \/ Connected(b, creator[b])'
<1> DEFINE G == \/ pc'[t] \in JoinSteps \cup LeaveSteps
                \/ ~open'[t]
                \/ creator'[b] \in connectionsByBoard'[b]
<1> SUFFICES G
  BY DEF Connected
<1>0. /\ board[t] = b
      /\ \/ sessionByConn[t] = b
         \/ pc[t] \in {"unregistered", "reasonTaken", "participantRemoved"}
  BY DEF Structure, MapsBacked, PendingBacked
<1> USE <1>0, RelayNoneAssumption
    DEF Structure, TypeOK, SessionsAgree, Connected, Attached, Goto,
        sessionVars, Newly, AttachedSteps, Unregistered, LeaveSteps, JoinSteps
<1>1. CASE Stands
  BY <1>1 DEF Stands
<1>2. ASSUME NEW c \in Conns, Proceeds(c) PROVE G
  BY <1>2 DEF Proceeds
<1>3. ASSUME NEW c \in Conns, NamesOwner(c) PROVE G
  BY <1>3 DEF NamesOwner
<1>4. ASSUME NEW c \in Conns, Registers(c) PROVE G
  BY <1>4 DEF Registers, Register
<1>5. ASSUME NEW c \in Conns, Tries(c) PROVE G
  BY <1>5 DEF Tries, Reject
<1>6. ASSUME NEW c \in Conns, Joins(c) PROVE G
  BY <1>6 DEF Joins
<1>7. ASSUME NEW c \in Conns, Creates(c) PROVE G
  BY <1>7 DEF Creates
<1>8. ASSUME NEW c \in Conns, Detaches(c) PROVE G
  BY <1>8 DEF Detaches
<1>9. ASSUME NEW c \in Conns, Frees(c) PROVE G
  BY <1>9 DEF Frees
<1>10. ASSUME NEW c \in Conns, Leaves(c) PROVE G
  BY <1>10 DEF Leaves
<1> QED
  BY <1>1, <1>2, <1>3, <1>4, <1>5, <1>6, <1>7, <1>8, <1>9, <1>10 DEF StepKind, StepOf

LEMMA NoWaitNext ==
  ASSUME Structure, NothingBeforeAsking, OnlyGuests, NoWaitForAbsentOwner, TypeOK', StepKind,
         [Next]_vars
  PROVE  NoWaitForAbsentOwner'
<1> SUFFICES ASSUME NEW b \in BoardIDs, NEW t \in pendingSnapshotRequests'[b], t \in Conns
             PROVE  \/ OwnerAround(b)'
                    \/ pc'[t] \in JoinSteps \cup LeaveSteps
                    \/ ~open'[t]
  BY DEF NoWaitForAbsentOwner, OwnerAround, TypeOK
<1>1. CASE pc'[t] = "joinPending"
  BY <1>1 DEF JoinSteps
<1>2. CASE t \in pendingSnapshotRequests[b]
  <2>1. board[t] = b /\ creator[b] # NoConn
    BY <1>2, RelayNoneAssumption DEF OnlyGuests, Guest, Structure, RolesKept
  <2>2. CASE ~open[t]
    BY <2>2, ClosedStayClosed DEF Structure
  <2>3. CASE pc[t] \in JoinSteps \cup LeaveSteps
    BY <1>2, <2>3, AskersFindOwner DEF OwnerAround
  <2>4. CASE OwnerAround(b) /\ pc[t] \notin JoinSteps \cup LeaveSteps
    <3>1. Attached(t)
      BY <1>2, <2>4, RelayNoneAssumption
         DEF Structure, MapsBacked, PendingBacked, LeaveSteps, Attached
    <3>2. pc[t] # "ownerRegistered"
      BY <1>2, <2>1 DEF OnlyGuests, Guest, Structure, RolesKept, CreateSteps
    <3>3. boardOwnerByBoard[b] = creator[b]
      BY <2>1, <2>4, <3>1, <3>2 DEF Structure, OwnerEntryKept, JoinSteps
    <3> QED
      BY <2>1, <2>4, <3>3, OwnerStaysAround
  <2> QED
    BY <1>2, <2>2, <2>3, <2>4 DEF NoWaitForAbsentOwner, OwnerAround
<1> QED
  BY <1>1, <1>2, NewRequests DEF Structure

(***************************************************************************)
(* The theorems.                                                           *)
(***************************************************************************)
LEMMA RelayInit == Init => RelayInv /\ NoWaitForAbsentOwner /\ OneOutcome /\ NobodyForgotten
<1> SUFFICES ASSUME Init PROVE RelayInv /\ NoWaitForAbsentOwner /\ OneOutcome /\ NobodyForgotten
  OBVIOUS
<1> USE RelayNoneAssumption DEF Init
<1>1. Store!StoreInv
  BY StoreInvInit
<1>2. TypeOK
  BY <1>1 DEF TypeOK, Store!StoreInv, Steps, Reasons
<1>3. \A b \in BoardIDs : ~Exists(b)
  BY DEF Exists, Store!Exists, Store!Init
<1>4. SessionsAgree /\ OwnerEntryKept
  BY DEF SessionsAgree, OwnerEntryKept, Attached, Unregistered, LeaveSteps
<1>5. RolesKept
  BY <1>3 DEF RolesKept, CreateSteps, OwnerSteps, SnapshotSteps, JoinSteps
<1>6. PlacesAgree
  <2>1. \A b \in BoardIDs : Members(b) = {}
    BY DEF Members
  <2>2. IsFiniteSet({}) /\ Cardinality({}) <= MaxParticipants
    BY FS_EmptySet, RelayNumbersAssumption
  <2> QED
    BY <1>3, <2>1, <2>2 DEF PlacesAgree, NoGhostParticipants
<1>7. MapsBacked
  BY DEF MapsBacked, OwnerEntryBacked, PendingBacked
<1>8. OnlyGuests
  BY DEF OnlyGuests, SnapshotSteps
<1>9. NothingBeforeAsking
  BY DEF NothingBeforeAsking
<1>10. NoWaitForAbsentOwner /\ OneOutcome
  BY DEF NoWaitForAbsentOwner, OneOutcome, IsPending, BeingAnswered, BeingFailed, SnapshotSteps
<1>11. NobodyForgotten
  BY DEF NobodyForgotten
<1> QED
  BY <1>1, <1>2, <1>4, <1>5, <1>6, <1>7, <1>8, <1>9, <1>10, <1>11 DEF RelayInv

LEMMA StructureHolds == RelayInv => Structure /\ RequestBasis
BY DEF RelayInv, Structure, RequestBasis

LEMMA RelayInvNext ==
  ASSUME RelayInv, [Next]_vars
  PROVE  RelayInv'
<1>1. Structure /\ RequestBasis
  BY StructureHolds
<1>2. StepKind /\ [Store!Next]_(Store!vars)
  BY <1>1, StepHasKind
<1>3. Store!StoreInv'
  BY <1>2, StoreInvNext DEF RelayInv
<1>4. SettledStay
  BY <1>1, <1>2, BoardsStay
<1>5. TypeOK'
  BY <1>1, <1>3, TypeOKNext DEF RelayInv
<1>6. SessionsAgree' /\ RolesKept' /\ OwnerEntryKept' /\ OwnerEntryBacked'
  BY <1>1, <1>2, SessionsAgreeNext, RolesKeptNext, OwnerEntryKeptNext, OwnerEntryBackedNext
<1>7. PlacesAgree'
  BY <1>1, <1>2, <1>3, PlacesAgreeNext DEF RelayInv
<1>8. OnlyGuests'
  <2>1. CASE Bystands
    BY <1>4, <2>1, BystandersKeepGuests DEF RelayInv
  <2>2. CASE \E c \in Conns : HandshakeStep(c) \/ PutOutStep(c)
    BY <1>4, <2>2, OnlyGuestsNext DEF RelayInv
  <2> QED
    BY <2>1, <2>2, MostStepsBystand DEF RelayInv
<1>9. MapsBacked'
  BY <1>1, <1>2, <1>5, <1>6, <1>8, PendingBackedNext DEF MapsBacked
<1>10. RequestStep
  BY <1>1, RequestsStep
<1>11. NothingBeforeAsking'
  BY <1>1, <1>2, <1>10, NothingBeforeAskingNext DEF RelayInv
<1> QED
  BY <1>3, <1>5, <1>6, <1>7, <1>8, <1>9, <1>11 DEF RelayInv

(* The relay keeps to the store's specification: whatever its handlers do to
   the store, they do it by the store's operations, so that all that is proved
   of RoomStore holds of the store inside the relay. *)
THEOREM RelayKeepsToStore == Spec => Store!Spec
<1>1. Init => Store!Init
  BY DEF Init
<1>2. RelayInv /\ [Next]_vars => [Store!Next]_(Store!vars)
  BY StructureHolds, StepHasKind
<1>3. RelayInv /\ [Next]_vars => RelayInv'
  BY RelayInvNext
<1> QED
  BY <1>1, <1>2, <1>3, RelayInit, PTL DEF Spec, Store!Spec

(* The store, the connection maps, the owners, the pending requests and the
   handlers of the router always agree, also between any two sections of any
   handlers, for any number of connections and boards. *)
THEOREM RelayAlwaysSound == Spec => []RelayInv
<1>1. Init => RelayInv
  BY RelayInit
<1>2. RelayInv /\ [Next]_vars => RelayInv'
  BY RelayInvNext
<1> QED
  BY <1>1, <1>2, PTL DEF Spec

(* No participant is left behind in the store: each is attached, or its
   handler is on the way to registerConnection or to RemoveParticipant. *)
THEOREM NobodyHauntsStore == Spec => []NoGhostParticipants
<1>1. RelayInv => NoGhostParticipants
  BY DEF RelayInv, PlacesAgree
<1> QED
  BY <1>1, RelayAlwaysSound, PTL

(* The capacity of the store bounds the connections the router has registered
   with a board, also when the board has expired under them. *)
THEOREM ConnectionsAlwaysFit == Spec => []ConnectionsWithinCapacity
<1>1. RelayInv => ConnectionsWithinCapacity
  <2> SUFFICES ASSUME RelayInv, NEW b \in BoardIDs
               PROVE  Cardinality(connectionsByBoard[b]) <= MaxParticipants
    BY DEF ConnectionsWithinCapacity
  <2>1. IsFiniteSet(Members(b)) /\ Cardinality(Members(b)) <= MaxParticipants
    BY DEF RelayInv, PlacesAgree
  <2>2. connectionsByBoard[b] \subseteq Members(b)
    BY DEF Members
  <2> DEFINE few == Cardinality(connectionsByBoard[b])
             all == Cardinality(Members(b))
  <2>3. few \in Nat /\ all \in Nat /\ few <= all
    <3>1. IsFiniteSet(connectionsByBoard[b])
      BY <2>1, <2>2, FS_Subset
    <3> QED
      BY <2>1, <2>2, <3>1, FS_Subset, FS_CardinalityType
  <2>4. all <= MaxParticipants
    BY <2>1
  <2> HIDE DEF few, all
  <2>5. few <= MaxParticipants
    BY <2>3, <2>4, RelayNumbersAssumption
  <2> QED
    BY <2>5 DEF few
<1> QED
  BY <1>1, RelayAlwaysSound, PTL

(* No guest on an open connection waits for an owner that is gone: the last
   section of a join and the owner's disconnect handler cannot both miss a
   request. *)
THEOREM NobodyWaitsInVain == Spec => []NoWaitForAbsentOwner
<1>1. RelayInv /\ NoWaitForAbsentOwner /\ [Next]_vars => NoWaitForAbsentOwner'
  <2> SUFFICES ASSUME RelayInv, NoWaitForAbsentOwner, [Next]_vars PROVE NoWaitForAbsentOwner'
    OBVIOUS
  <2>1. Structure /\ StepKind /\ RelayInv'
    BY StructureHolds, StepHasKind, RelayInvNext
  <2> QED
    BY <2>1, NoWaitNext DEF RelayInv
<1> QED
  BY <1>1, RelayInit, RelayAlwaysSound, PTL DEF Spec

(* A snapshot request has at most one outcome, whoever wins the race for it. *)
THEOREM RequestsEndOnce == Spec => []OneOutcome
<1>1. RelayInv /\ OneOutcome /\ [Next]_vars => OneOutcome'
  <2> SUFFICES ASSUME RelayInv, OneOutcome, [Next]_vars PROVE OneOutcome'
    OBVIOUS
  <2>1. RequestStep /\ RelayInv'
    BY StructureHolds, RequestsStep, RelayInvNext
  <2> QED
    BY <2>1, OneOutcomeNext DEF RelayInv
<1> QED
  BY <1>1, RelayInit, RelayAlwaysSound, PTL DEF Spec

(* ... and it is not forgotten: until a guest's connection closes or its board
   expires, the guest has asked nothing yet, is waiting, is being answered or
   refused, or has its snapshot. *)
THEOREM RequestsRemembered == Spec => []NobodyForgotten
<1>1. RelayInv /\ NobodyForgotten /\ [Next]_vars => NobodyForgotten'
  <2> SUFFICES ASSUME RelayInv, NobodyForgotten, [Next]_vars PROVE NobodyForgotten'
    OBVIOUS
  <2>1. Structure /\ StepKind /\ RequestStep /\ RelayInv'
    BY StructureHolds, StepHasKind, RequestsStep, RelayInvNext
  <2>2. \A u \in Conns : open'[u] => open[u]
    BY ClosedStayClosed DEF RelayInv
  <2> QED
    BY <2>1, <2>2, NobodyForgottenNext DEF RelayInv
<1> QED
  BY <1>1, RelayInit, RelayAlwaysSound, PTL DEF Spec

(* The relay never puts the owner of a board out of it. *)
THEOREM OwnerNeverPutOut == Spec => []OwnerNotPutOut
<1>1. RelayInv => OwnerNotPutOut
  <2> SUFFICES ASSUME RelayInv, NEW b \in BoardIDs, creator[b] # NoConn
               PROVE  /\ disconnectReasonByConn[creator[b]] = "none"
                      /\ creator[b] \notin timedOut
                      /\ \A c \in Conns :
                           /\ pc[c] \in {"closing", "failing"} => creator[b] \notin todo[c]
                           /\ pc[c] \in OwnerSteps => peer[c] # creator[b]
    BY DEF OwnerNotPutOut
  <2>1. creator[b] \in Conns /\ board[creator[b]] = b
    BY DEF RelayInv, TypeOK, RolesKept
  <2>2. \A d \in BoardIDs : ~Guest(creator[b], d)
    BY <2>1 DEF Guest
  <2>3. disconnectReasonByConn[creator[b]] = "none" /\ creator[b] \notin timedOut
    BY <2>1, <2>2 DEF RelayInv, OnlyGuests, Guest
  <2>4. ASSUME NEW c \in Conns
        PROVE  /\ pc[c] \in {"closing", "failing"} => creator[b] \notin todo[c]
               /\ pc[c] \in OwnerSteps => peer[c] # creator[b]
    BY <2>1, <2>2 DEF RelayInv, OnlyGuests, Guest
  <2> QED
    BY <2>3, <2>4
<1> QED
  BY <1>1, RelayAlwaysSound, PTL
=============================================================================
