--------------------------- MODULE RoomStoreProofs ---------------------------
(***************************************************************************)
(* Proofs about the room store, for every number of boards, codes and      *)
(* actors, every capacity, TTL and caller delay.                           *)
(***************************************************************************)
EXTENDS RoomStore, FiniteSetTheorems, SequenceTheorems, TLAPS

(***************************************************************************)
(* Lemmas about the helpers.                                               *)
(***************************************************************************)

(* removeValue returns a list of actors, no longer than the one it is given. *)
LEMMA RemoveValueType ==
  ASSUME NEW values \in Seq(Actors), NEW target
  PROVE  /\ RemoveValue(values, target) \in Seq(Actors)
         /\ Len(RemoveValue(values, target)) <= Len(values)
<1> DEFINE gap == CHOOSE i \in DOMAIN values : values[i] = target
           short == [i \in 1 .. Len(values) - 1 |->
                       IF i < gap THEN values[i] ELSE values[i + 1]]
<1>1. CASE ~ \E i \in DOMAIN values : values[i] = target
  BY <1>1 DEF RemoveValue
<1>2. CASE \E i \in DOMAIN values : values[i] = target
  <2>1. RemoveValue(values, target) = short
    BY <1>2 DEF RemoveValue
  <2>2. Len(values) \in Nat \ {0} /\ DOMAIN values = 1 .. Len(values)
    BY <1>2
  <2>3. gap \in DOMAIN values
    BY <1>2
  <2>4. Len(values) - 1 \in Nat
    BY <2>2
  <2>5. short \in [1 .. Len(values) - 1 -> Actors]
    <3> SUFFICES ASSUME NEW i \in 1 .. Len(values) - 1
                 PROVE  (IF i < gap THEN values[i] ELSE values[i + 1]) \in Actors
      OBVIOUS
    <3>1. i \in 1 .. Len(values) /\ i + 1 \in 1 .. Len(values)
      BY <2>2
    <3>2. values[i] \in Actors /\ values[i + 1] \in Actors
      BY <3>1, ElementOfSeq
    <3> QED
      BY <3>2
  <2>6. short \in Seq(Actors)
    BY <2>4, <2>5, SeqDef
  <2>7. Len(short) = Len(values) - 1
    BY <2>4, <2>5, <2>6, LenProperties
  <2> QED
    BY <2>1, <2>2, <2>6, <2>7
<1> QED
  BY <1>1, <1>2

IsRoster(order, members) ==
  /\ \A i, j \in DOMAIN order : order[i] = order[j] => i = j
  /\ {order[i] : i \in DOMAIN order} = members

(* Taking an actor out of a list without repetitions leaves a list without
   repetitions of all the others. *)
LEMMA RemoveValueRoster ==
  ASSUME NEW values \in Seq(Actors), NEW members, NEW target \in members,
         IsRoster(values, members)
  PROVE  IsRoster(RemoveValue(values, target), members \ {target})
<1> DEFINE gap == CHOOSE i \in DOMAIN values : values[i] = target
           n == Len(values)
           short == [i \in 1 .. n - 1 |->
                       IF i < gap THEN values[i] ELSE values[i + 1]]
<1>1. \E i \in DOMAIN values : values[i] = target
  BY DEF IsRoster
<1>2. RemoveValue(values, target) = short
  BY <1>1 DEF RemoveValue
<1>3. n \in Nat \ {0} /\ DOMAIN values = 1 .. n
  BY <1>1
<1>4. gap \in 1 .. n /\ values[gap] = target
  BY <1>1, <1>3
<1>5. \A i, j \in 1 .. n : values[i] = values[j] => i = j
  BY <1>3 DEF IsRoster
<1> HIDE DEF gap
<1>6. \A i \in 1 .. n - 1 : short[i] = values[IF i < gap THEN i ELSE i + 1]
  OBVIOUS
<1> HIDE DEF short, n
<1>7. DOMAIN short = 1 .. n - 1
  BY DEF short
<1>8. ASSUME NEW i \in 1 .. n - 1, NEW j \in 1 .. n - 1, short[i] = short[j]
      PROVE  i = j
  <2>1. (IF i < gap THEN i ELSE i + 1) = (IF j < gap THEN j ELSE j + 1)
    BY <1>8, <1>6, <1>5, <1>4, <1>3
  <2> QED
    BY <2>1, <1>4, <1>3
<1>9. ASSUME NEW i \in 1 .. n - 1
      PROVE  short[i] \in members \ {target}
  <2>1. (IF i < gap THEN i ELSE i + 1) \in 1 .. n /\ (IF i < gap THEN i ELSE i + 1) # gap
    BY <1>4, <1>3
  <2> QED
    BY <2>1, <1>3, <1>4, <1>5, <1>6 DEF IsRoster
<1>10. ASSUME NEW m \in members \ {target}
       PROVE  \E i \in 1 .. n - 1 : short[i] = m
  <2>1. PICK k \in 1 .. n : values[k] = m
    BY <1>3 DEF IsRoster
  <2>2. k # gap
    BY <2>1, <1>4
  <2>3. CASE k < gap
    <3>1. k \in 1 .. n - 1 /\ short[k] = m
      BY <2>1, <2>3, <1>3, <1>4, <1>6
    <3> QED
      BY <3>1
  <2>4. CASE k > gap
    <3>1. k - 1 \in 1 .. n - 1 /\ ~(k - 1 < gap) /\ (k - 1) + 1 = k
      BY <2>4, <1>3, <1>4
    <3>2. short[k - 1] = m
      BY <3>1, <2>1, <1>6
    <3> QED
      BY <3>1, <3>2
  <2> QED
    BY <2>2, <2>3, <2>4, <1>3, <1>4
<1> QED
  BY <1>2, <1>7, <1>8, <1>9, <1>10 DEF IsRoster

(* The records of existing boards have their type. *)
LEMMA RecordType ==
  ASSUME TypeOK, NEW b \in BoardIDs, Exists(b)
  PROVE  boardsByID[b] \in BoardRecord
BY DEF TypeOK, Exists

(* The empty store satisfies the invariant. *)
LEMMA StoreInvInit == Init => StoreInv
BY NumbersAssumption, NoneAssumption
   DEF Init, StoreInv, TypeOK, IndexInverse, RosterConsistent,
       OrderWithinCapacity, Exists

(* Steps that leave both maps alone. *)
LEMMA StoreInvIdle ==
  ASSUME StoreInv, UNCHANGED <<boardsByID, boardIDsByJoinCode>>,
         clock' \in 0 .. MaxClock
  PROVE  StoreInv'
BY DEF StoreInv, TypeOK, IndexInverse, RosterConsistent, OrderWithinCapacity, Exists

(* deleteBoardLocked, on any set of existing boards. *)
LEMMA StoreInvDelete ==
  ASSUME StoreInv, NEW bs \in SUBSET BoardIDs, \A b \in bs : Exists(b),
         DeleteBoards(bs), UNCHANGED clock
  PROVE  StoreInv'
<1>1. \A b \in BoardIDs : boardsByID'[b] = IF b \in bs THEN NoBoard ELSE boardsByID[b]
  BY DEF DeleteBoards
<1>2. \A k \in JoinCodes : boardIDsByJoinCode'[k] =
          IF \E b \in bs : boardsByID[b].joinCode = k
          THEN NoBoard ELSE boardIDsByJoinCode[k]
  BY DEF DeleteBoards, Unindex
<1>3. TypeOK'
  <2>1. boardsByID' \in [BoardIDs -> BoardRecord \cup {NoBoard}]
    BY DEF DeleteBoards, StoreInv, TypeOK
  <2>2. boardIDsByJoinCode' \in [JoinCodes -> BoardIDs \cup {NoBoard}]
    BY DEF DeleteBoards, Unindex, StoreInv, TypeOK
  <2> QED
    BY <2>1, <2>2 DEF StoreInv, TypeOK
<1>4. IndexInverse'
  <2>1. ASSUME NEW k \in JoinCodes, NEW b \in BoardIDs, boardIDsByJoinCode'[k] = b
        PROVE  b \notin bs /\ Exists(b) /\ boardsByID[b].joinCode = k
    BY <2>1, <1>2, NoneAssumption DEF StoreInv, IndexInverse
  <2>2. ASSUME NEW b \in BoardIDs, b \notin bs, Exists(b), boardsByID[b].joinCode # NoCode
        PROVE  boardIDsByJoinCode'[boardsByID[b].joinCode] = b
    <3>1. boardsByID[b].joinCode \in JoinCodes
      BY <2>2, RecordType DEF StoreInv, BoardRecord
    <3>2. ~ \E d \in bs : boardsByID[d].joinCode = boardsByID[b].joinCode
      BY <2>2 DEF StoreInv, IndexInverse
    <3> QED
      BY <3>1, <3>2, <2>2, <1>2 DEF StoreInv, IndexInverse
  <2> QED
    BY <2>1, <2>2, <1>1 DEF IndexInverse, Exists
<1>5. RosterConsistent' /\ OrderWithinCapacity'
  BY <1>1 DEF StoreInv, RosterConsistent, OrderWithinCapacity, Exists
<1> QED
  BY <1>3, <1>4, <1>5 DEF StoreInv

(* An operation replaces the record of one existing board and leaves its code
   and the index alone (join, leave, touch). *)
LEMMA StoreInvUpdate ==
  ASSUME StoreInv, NEW b \in BoardIDs, Exists(b), NEW r \in BoardRecord,
         boardsByID' = [boardsByID EXCEPT ![b] = r],
         UNCHANGED <<boardIDsByJoinCode, clock>>,
         r.joinCode = boardsByID[b].joinCode,
         IsRoster(r.participantOrder, r.participants),
         Len(r.participantOrder) <= MaxParticipants
  PROVE  StoreInv'
<1>1. \A d \in BoardIDs : boardsByID'[d] = IF d = b THEN r ELSE boardsByID[d]
  BY DEF StoreInv, TypeOK
<1>2. r # NoBoard
  BY NoBoardAssumption
<1>3. TypeOK'
  BY DEF StoreInv, TypeOK
<1>4. IndexInverse'
  BY <1>1, <1>2 DEF StoreInv, IndexInverse, Exists
<1>5. RosterConsistent'
  BY <1>1 DEF StoreInv, RosterConsistent, Exists, IsRoster
<1>6. OrderWithinCapacity'
  BY <1>1 DEF StoreInv, OrderWithinCapacity, Exists
<1> QED
  BY <1>3, <1>4, <1>5, <1>6 DEF StoreInv

(* The roster of an existing board, in the form the lemmas above use. *)
LEMMA RosterOf ==
  ASSUME StoreInv, NEW b \in BoardIDs, Exists(b)
  PROVE  /\ boardsByID[b].participantOrder \in Seq(Actors)
         /\ IsRoster(boardsByID[b].participantOrder, boardsByID[b].participants)
         /\ Len(boardsByID[b].participantOrder) <= MaxParticipants
BY RecordType DEF StoreInv, RosterConsistent, OrderWithinCapacity, IsRoster, BoardRecord

(* Replacing one field of a record by a value of the field's type. *)
LEMMA FieldUpdateType ==
  ASSUME NEW r \in BoardRecord
  PROVE  /\ \A v \in SUBSET Actors : [r EXCEPT !.participants = v] \in BoardRecord
         /\ \A v \in Seq(Actors) : [r EXCEPT !.participantOrder = v] \in BoardRecord
         /\ \A v \in JoinCodes \cup {NoCode} : [r EXCEPT !.joinCode = v] \in BoardRecord
         /\ \A v \in Nat : [r EXCEPT !.lastActivityAt = v] \in BoardRecord
BY DEF BoardRecord

(* JoinBoard adds one participant to both collections and changes nothing else
   but the activity. *)
LEMMA WithParticipantType ==
  ASSUME NEW r \in BoardRecord, NEW actor \in Actors, NEW now \in Nat
  PROVE  /\ WithParticipant(r, actor, now) \in BoardRecord
         /\ WithParticipant(r, actor, now).lastActivityAt = now
         /\ WithParticipant(r, actor, now).joinCode = r.joinCode
         /\ WithParticipant(r, actor, now).participants = r.participants \cup {actor}
         /\ WithParticipant(r, actor, now).participantOrder = Append(r.participantOrder, actor)
<1> DEFINE members == r.participants \cup {actor}
           order == Append(r.participantOrder, actor)
           r1 == [r EXCEPT !.participants = members]
           r2 == [r1 EXCEPT !.participantOrder = order]
<1>1. members \in SUBSET Actors /\ order \in Seq(Actors)
  BY DEF BoardRecord
<1>2. WithParticipant(r, actor, now) = [r2 EXCEPT !.lastActivityAt = now]
  BY DEF WithParticipant, BoardRecord
<1> HIDE DEF members, order
<1>3. r1 \in BoardRecord
  BY <1>1, FieldUpdateType
<1> HIDE DEF r1
<1>4. r2 \in BoardRecord
  BY <1>1, <1>3, FieldUpdateType
<1> HIDE DEF r2
<1>5. WithParticipant(r, actor, now) \in BoardRecord
  BY <1>2, <1>4, FieldUpdateType
<1>6. /\ WithParticipant(r, actor, now).joinCode = r.joinCode
      /\ WithParticipant(r, actor, now).participants = r.participants \cup {actor}
      /\ WithParticipant(r, actor, now).participantOrder = Append(r.participantOrder, actor)
      /\ WithParticipant(r, actor, now).lastActivityAt = now
  BY ZenonT(20) DEF WithParticipant, BoardRecord
<1> QED
  BY <1>5, <1>6

LEMMA AdmissionKeepsType ==
  \A r \in BoardRecord, actor \in Actors, now \in Nat :
    WithParticipant(r, actor, now) \in BoardRecord
BY WithParticipantType

(* RemoveParticipant takes one participant out of both collections. *)
LEMMA WithoutParticipantType ==
  ASSUME NEW r \in BoardRecord, NEW actor \in Actors, NEW now \in Nat
  PROVE  /\ WithoutParticipant(r, actor, now) \in BoardRecord
         /\ WithoutParticipant(r, actor, now).lastActivityAt = now
         /\ WithoutParticipant(r, actor, now).joinCode = r.joinCode
         /\ WithoutParticipant(r, actor, now).participants = r.participants \ {actor}
         /\ WithoutParticipant(r, actor, now).participantOrder = RemoveValue(r.participantOrder, actor)
<1> DEFINE members == r.participants \ {actor}
           order == RemoveValue(r.participantOrder, actor)
           r1 == [r EXCEPT !.participants = members]
           r2 == [r1 EXCEPT !.participantOrder = order]
<1>1. members \in SUBSET Actors /\ order \in Seq(Actors)
  BY RemoveValueType DEF BoardRecord
<1>2. WithoutParticipant(r, actor, now) = [r2 EXCEPT !.lastActivityAt = now]
  BY DEF WithoutParticipant, BoardRecord
<1> HIDE DEF members, order
<1>3. r1 \in BoardRecord
  BY <1>1, FieldUpdateType
<1> HIDE DEF r1
<1>4. r2 \in BoardRecord
  BY <1>1, <1>3, FieldUpdateType
<1> HIDE DEF r2
<1>5. WithoutParticipant(r, actor, now) \in BoardRecord
  BY <1>2, <1>4, FieldUpdateType
<1>6. /\ WithoutParticipant(r, actor, now).joinCode = r.joinCode
      /\ WithoutParticipant(r, actor, now).participants = r.participants \ {actor}
      /\ WithoutParticipant(r, actor, now).participantOrder = RemoveValue(r.participantOrder, actor)
      /\ WithoutParticipant(r, actor, now).lastActivityAt = now
  BY ZenonT(20) DEF WithoutParticipant, BoardRecord
<1> QED
  BY <1>5, <1>6

(* RevokeJoinCode only blanks the code and notes the activity. *)
LEMMA WithoutCodeType ==
  ASSUME NEW r \in BoardRecord, NEW now \in Nat
  PROVE  /\ WithoutCode(r, now) \in BoardRecord
         /\ WithoutCode(r, now).lastActivityAt = now
         /\ WithoutCode(r, now).joinCode = NoCode
         /\ WithoutCode(r, now).participants = r.participants
         /\ WithoutCode(r, now).participantOrder = r.participantOrder
<1> DEFINE r1 == [r EXCEPT !.joinCode = NoCode]
<1>1. WithoutCode(r, now) = [r1 EXCEPT !.lastActivityAt = now]
  BY DEF WithoutCode, BoardRecord
<1>2. r1 \in BoardRecord
  BY FieldUpdateType
<1> HIDE DEF r1
<1>3. WithoutCode(r, now) \in BoardRecord
  BY <1>1, <1>2, FieldUpdateType
<1>4. /\ WithoutCode(r, now).joinCode = NoCode
      /\ WithoutCode(r, now).participants = r.participants
      /\ WithoutCode(r, now).participantOrder = r.participantOrder
      /\ WithoutCode(r, now).lastActivityAt = now
  BY ZenonT(20) DEF WithoutCode, BoardRecord
<1> QED
  BY <1>3, <1>4

(* TouchBoard only notes the activity. *)
LEMMA TouchedType ==
  ASSUME NEW r \in BoardRecord, NEW now \in Nat
  PROVE  /\ Touched(r, now) \in BoardRecord
         /\ Touched(r, now).lastActivityAt = now
         /\ Touched(r, now).joinCode = r.joinCode
         /\ Touched(r, now).participants = r.participants
         /\ Touched(r, now).participantOrder = r.participantOrder
<1>1. Touched(r, now) \in BoardRecord
  BY FieldUpdateType DEF Touched
<1>2. /\ Touched(r, now).lastActivityAt = now
      /\ Touched(r, now).joinCode = r.joinCode
      /\ Touched(r, now).participants = r.participants
      /\ Touched(r, now).participantOrder = r.participantOrder
  BY ZenonT(20) DEF Touched, BoardRecord
<1> QED
  BY <1>1, <1>2

(* The list that JoinBoard makes by appending an actor it has checked to be
   absent has no repetitions either. *)
LEMMA AppendRoster ==
  ASSUME NEW values \in Seq(Actors), NEW members, NEW actor, actor \notin members,
         IsRoster(values, members)
  PROVE  IsRoster(Append(values, actor), members \cup {actor})
<1> DEFINE n == Len(values)
           longer == Append(values, actor)
<1>1. n \in Nat /\ DOMAIN values = 1 .. n
  OBVIOUS
<1>2. /\ DOMAIN longer = 1 .. n + 1
      /\ \A i \in 1 .. n : longer[i] = values[i]
      /\ longer[n + 1] = actor
  BY AppendProperties
<1>3. \A i, j \in 1 .. n : values[i] = values[j] => i = j
  BY <1>1 DEF IsRoster
<1>4. \A i \in 1 .. n : values[i] \in members
  BY <1>1 DEF IsRoster
<1>5. \A m \in members : \E i \in 1 .. n : values[i] = m
  BY <1>1 DEF IsRoster
<1> HIDE DEF n, longer
<1>6. \A i \in 1 .. n + 1 : i \in 1 .. n \/ i = n + 1
  BY <1>1
<1>7. 1 .. n \subseteq 1 .. n + 1 /\ n + 1 \in 1 .. n + 1
  BY <1>1
<1>8. ASSUME NEW i \in 1 .. n + 1, NEW j \in 1 .. n + 1, longer[i] = longer[j]
      PROVE  i = j
  BY <1>8, <1>2, <1>3, <1>4, <1>6
<1>9. {longer[i] : i \in 1 .. n + 1} = members \cup {actor}
  BY <1>2, <1>4, <1>5, <1>6, <1>7
<1> QED
  BY <1>2, <1>8, <1>9 DEF IsRoster, longer

(***************************************************************************)
(* Every operation preserves the invariant, at whatever time it runs.      *)
(***************************************************************************)

(* A new record belongs to its owner alone. *)
LEMMA NewRecordType ==
  ASSUME NEW k \in JoinCodes, NEW owner \in Actors, NEW now \in Nat
  PROVE  /\ NewRecord(k, owner, now) \in BoardRecord
         /\ IsRoster(NewRecord(k, owner, now).participantOrder, {owner})
         /\ Len(NewRecord(k, owner, now).participantOrder) = 1
<1>1. <<owner>> \in Seq(Actors) /\ Len(<<owner>>) = 1 /\ <<owner>>[1] = owner
  OBVIOUS
<1>2. IsRoster(<<owner>>, {owner})
  BY <1>1 DEF IsRoster
<1> QED
  BY <1>1, <1>2 DEF NewRecord, BoardRecord

(* CreateBoard preserves the invariant: the code it takes led nowhere. *)
LEMMA CreateBoardInv ==
  ASSUME StoreInv, NEW b \in BoardIDs, NEW requested, NEW owner \in Actors,
         NEW now \in Nat, NEW err,
         CreateBoard(b, requested, owner, now, err), UNCHANGED clock
  PROVE  StoreInv'
<1>1. CASE UNCHANGED <<boardsByID, boardIDsByJoinCode>>
  BY <1>1, StoreInvIdle DEF StoreInv, TypeOK
<1>2. ASSUME NEW k \in JoinCodes, ~Exists(b), FreeCode(k),
             boardsByID' = [boardsByID EXCEPT ![b] = NewRecord(k, owner, now)],
             boardIDsByJoinCode' = [boardIDsByJoinCode EXCEPT ![k] = b]
      PROVE  StoreInv'
  <2> DEFINE r == NewRecord(k, owner, now)
  <2>1. /\ r \in BoardRecord /\ r # NoBoard
        /\ r.joinCode = k
        /\ IsRoster(r.participantOrder, r.participants)
        /\ Len(r.participantOrder) <= MaxParticipants
    BY NewRecordType, NoBoardAssumption, NumbersAssumption DEF NewRecord
  <2>2. \A d \in BoardIDs : boardsByID'[d] = IF d = b THEN r ELSE boardsByID[d]
    BY <1>2 DEF StoreInv, TypeOK
  <2>3. \A j \in JoinCodes : boardIDsByJoinCode'[j] = IF j = k THEN b ELSE boardIDsByJoinCode[j]
    BY <1>2 DEF StoreInv, TypeOK
  <2> HIDE DEF r
  <2>4. TypeOK'
    <3>1. boardsByID' \in [BoardIDs -> BoardRecord \cup {NoBoard}]
      BY <1>2, <2>1 DEF StoreInv, TypeOK, r
    <3>2. boardIDsByJoinCode' \in [JoinCodes -> BoardIDs \cup {NoBoard}]
      BY <1>2 DEF StoreInv, TypeOK
    <3> QED
      BY <3>1, <3>2 DEF StoreInv, TypeOK
  <2>5. IndexInverse'
    <3>1. ASSUME NEW j \in JoinCodes, NEW d \in BoardIDs, boardIDsByJoinCode'[j] = d
          PROVE  Exists(d)' /\ boardsByID'[d].joinCode = j
      BY <3>1, <2>1, <2>2, <2>3, <1>2 DEF StoreInv, IndexInverse, Exists
    <3>2. ASSUME NEW d \in BoardIDs, Exists(d)', boardsByID'[d].joinCode # NoCode
          PROVE  boardIDsByJoinCode'[boardsByID'[d].joinCode] = d
      <4>1. CASE d = b
        BY <4>1, <2>1, <2>2, <2>3
      <4>2. CASE d # b
        <5>1. Exists(d) /\ boardsByID'[d] = boardsByID[d]
          BY <3>2, <4>2, <2>2 DEF Exists
        <5>2. boardIDsByJoinCode[boardsByID[d].joinCode] = d
          BY <5>1, <3>2 DEF StoreInv, IndexInverse
        <5>3. boardsByID[d].joinCode \in JoinCodes
          BY <5>1, <3>2, RecordType DEF StoreInv, BoardRecord
        <5>4. boardsByID[d].joinCode # k
          BY <5>2, <1>2, NoneAssumption DEF FreeCode
        <5> QED
          BY <5>1, <5>2, <5>3, <5>4, <2>3
      <4> QED
        BY <4>1, <4>2
    <3> QED
      BY <3>1, <3>2 DEF IndexInverse
  <2>6. RosterConsistent' /\ OrderWithinCapacity'
    BY <2>1, <2>2 DEF StoreInv, RosterConsistent, OrderWithinCapacity, Exists, IsRoster
  <2> QED
    BY <2>4, <2>5, <2>6 DEF StoreInv
<1> QED
  BY <1>1, <1>2 DEF CreateBoard

(* The lookups that fail, with the lazy removal of an expired board. *)
LEMMA MissingBoardInv ==
  ASSUME StoreInv, NEW b \in BoardIDs, NEW now, NEW err,
         MissingBoard(b, now, err), UNCHANGED clock
  PROVE  StoreInv'
<1>1. CASE UNCHANGED <<boardsByID, boardIDsByJoinCode>>
  BY <1>1, StoreInvIdle DEF StoreInv, TypeOK
<1>2. CASE Exists(b) /\ DeleteBoards({b})
  BY <1>2, StoreInvDelete
<1> QED
  BY <1>1, <1>2 DEF MissingBoard

(* The same for the lookups by join code. *)
LEMMA MissingCodeInv ==
  ASSUME StoreInv, NEW k \in JoinCodes, NEW now, NEW err,
         MissingCode(k, now, err), UNCHANGED clock
  PROVE  StoreInv'
<1>1. CASE UNCHANGED <<boardsByID, boardIDsByJoinCode>>
  BY <1>1, StoreInvIdle DEF StoreInv, TypeOK
<1>2. ASSUME NEW b \in BoardIDs, boardIDsByJoinCode[k] = b, DeleteBoards({b})
      PROVE  StoreInv'
  <2>1. Exists(b)
    BY <1>2 DEF StoreInv, IndexInverse
  <2> QED
    BY <2>1, <1>2, StoreInvDelete
<1> QED
  BY <1>1, <1>2 DEF MissingCode

(* GetBoardByJoinCode preserves the invariant. *)
LEMMA GetBoardInv ==
  ASSUME StoreInv, NEW k \in JoinCodes, NEW err,
         GetBoardByJoinCode(k, err), UNCHANGED clock
  PROVE  StoreInv'
<1>1. CASE UNCHANGED <<boardsByID, boardIDsByJoinCode>>
  BY <1>1, StoreInvIdle DEF StoreInv, TypeOK
<1> QED
  BY <1>1, MissingCodeInv DEF GetBoardByJoinCode

(* JoinBoard preserves the invariant: the list grows only below the capacity. *)
LEMMA JoinBoardInv ==
  ASSUME StoreInv, NEW k \in JoinCodes, NEW actor \in Actors, NEW now \in Nat,
         NEW err, JoinBoard(k, actor, now, err), UNCHANGED clock
  PROVE  StoreInv'
<1>1. CASE MissingCode(k, now, err)
  BY <1>1, MissingCodeInv
<1>2. CASE UNCHANGED <<boardsByID, boardIDsByJoinCode>>
  BY <1>2, StoreInvIdle DEF StoreInv, TypeOK
<1>3. ASSUME NEW b \in BoardIDs, Exists(b), ~IsFull(b),
             actor \notin boardsByID[b].participants,
             boardsByID' = [boardsByID EXCEPT ![b] = WithParticipant(@, actor, now)],
             UNCHANGED boardIDsByJoinCode
      PROVE  StoreInv'
  <2> DEFINE old == boardsByID[b]
             r == WithParticipant(old, actor, now)
  <2>1. /\ old \in BoardRecord
        /\ old.participantOrder \in Seq(Actors)
        /\ IsRoster(old.participantOrder, old.participants)
        /\ Len(old.participantOrder) < MaxParticipants
    BY <1>3, RecordType, RosterOf, NumbersAssumption DEF IsFull, StoreInv
  <2>2. /\ r \in BoardRecord
        /\ r.joinCode = old.joinCode
        /\ r.participants = old.participants \cup {actor}
        /\ r.participantOrder = Append(old.participantOrder, actor)
    <3>1. old \in BoardRecord /\ actor \in Actors /\ now \in Nat
      BY <2>1
    <3> HIDE DEF old
    <3> QED
      BY <3>1, WithParticipantType
  <2>3. IsRoster(r.participantOrder, r.participants)
    BY <2>1, <2>2, <1>3, AppendRoster
  <2>4. Len(r.participantOrder) <= MaxParticipants
    BY <2>1, <2>2, NumbersAssumption
  <2>5. boardsByID' = [boardsByID EXCEPT ![b] = r]
    BY <1>3
  <2> QED
    BY <2>2, <2>3, <2>4, <2>5, <1>3, StoreInvUpdate
<1> QED
  BY <1>1, <1>2, <1>3 DEF JoinBoard, Admits, OpenBoard

(* RevokeJoinCode preserves the invariant: the code it frees led to this board. *)
LEMMA RevokeJoinCodeInv ==
  ASSUME StoreInv, NEW b \in BoardIDs, NEW now \in Nat, NEW err,
         RevokeJoinCode(b, now, err), UNCHANGED clock
  PROVE  StoreInv'
<1>1. CASE MissingBoard(b, now, err)
  BY <1>1, MissingBoardInv
<1>2. CASE UNCHANGED <<boardsByID, boardIDsByJoinCode>>
  BY <1>2, StoreInvIdle DEF StoreInv, TypeOK
<1>3. ASSUME Exists(b), boardsByID[b].joinCode # NoCode,
             boardIDsByJoinCode' = Unindex({boardsByID[b].joinCode}),
             boardsByID' = [boardsByID EXCEPT ![b] = WithoutCode(@, now)]
      PROVE  StoreInv'
  <2> DEFINE old == boardsByID[b]
             r == WithoutCode(old, now)
  <2>1. old \in BoardRecord /\ old.joinCode \in JoinCodes
    BY <1>3, RecordType DEF StoreInv, BoardRecord
  <2>2. /\ r \in BoardRecord /\ r # NoBoard
        /\ r.joinCode = NoCode
        /\ r.participants = old.participants
        /\ r.participantOrder = old.participantOrder
    BY <2>1, WithoutCodeType, NoBoardAssumption
  <2>3. boardIDsByJoinCode[old.joinCode] = b
    BY <1>3 DEF StoreInv, IndexInverse
  <2>4. boardsByID' = [boardsByID EXCEPT ![b] = r]
    BY <1>3
  <2> HIDE DEF r
  <2>5. \A d \in BoardIDs : boardsByID'[d] = IF d = b THEN r ELSE boardsByID[d]
    BY <2>4 DEF StoreInv, TypeOK
  <2>6. \A k \in JoinCodes : boardIDsByJoinCode'[k] =
            IF k = old.joinCode THEN NoBoard ELSE boardIDsByJoinCode[k]
    BY <1>3 DEF Unindex
  <2>7. TypeOK'
    <3>1. boardsByID' \in [BoardIDs -> BoardRecord \cup {NoBoard}]
      BY <2>2, <2>4 DEF StoreInv, TypeOK
    <3>2. boardIDsByJoinCode' \in [JoinCodes -> BoardIDs \cup {NoBoard}]
      BY <1>3 DEF Unindex, StoreInv, TypeOK
    <3> QED
      BY <3>1, <3>2 DEF StoreInv, TypeOK
  <2>8. IndexInverse'
    <3>1. ASSUME NEW k \in JoinCodes, NEW d \in BoardIDs, boardIDsByJoinCode'[k] = d
          PROVE  d # b /\ Exists(d) /\ boardsByID[d].joinCode = k
      BY <3>1, <2>3, <2>6, NoneAssumption DEF StoreInv, IndexInverse
    <3>2. ASSUME NEW d \in BoardIDs, d # b, Exists(d), boardsByID[d].joinCode # NoCode
          PROVE  boardIDsByJoinCode'[boardsByID[d].joinCode] = d
      <4>1. boardsByID[d].joinCode \in JoinCodes
        BY <3>2, RecordType DEF StoreInv, BoardRecord
      <4>2. boardIDsByJoinCode[boardsByID[d].joinCode] = d
        BY <3>2 DEF StoreInv, IndexInverse
      <4> QED
        BY <4>1, <4>2, <3>2, <2>3, <2>6
    <3> QED
      BY <3>1, <3>2, <2>2, <2>5 DEF IndexInverse, Exists
  <2>9. RosterConsistent' /\ OrderWithinCapacity'
    BY <2>2, <2>5, <1>3 DEF StoreInv, RosterConsistent, OrderWithinCapacity, Exists
  <2> QED
    BY <2>7, <2>8, <2>9 DEF StoreInv
<1> QED
  BY <1>1, <1>2, <1>3 DEF RevokeJoinCode, OpenBoard

(* RemoveParticipant preserves the invariant. *)
LEMMA RemoveParticipantInv ==
  ASSUME StoreInv, NEW b \in BoardIDs, NEW actor \in Actors, NEW now \in Nat,
         NEW err, RemoveParticipant(b, actor, now, err), UNCHANGED clock
  PROVE  StoreInv'
<1>1. CASE MissingBoard(b, now, err)
  BY <1>1, MissingBoardInv
<1>2. CASE UNCHANGED <<boardsByID, boardIDsByJoinCode>>
  BY <1>2, StoreInvIdle DEF StoreInv, TypeOK
<1>3. ASSUME Exists(b), actor \in boardsByID[b].participants,
             boardsByID' = [boardsByID EXCEPT ![b] = WithoutParticipant(@, actor, now)],
             UNCHANGED boardIDsByJoinCode
      PROVE  StoreInv'
  <2> DEFINE old == boardsByID[b]
             r == WithoutParticipant(old, actor, now)
  <2>1. /\ old \in BoardRecord
        /\ old.participantOrder \in Seq(Actors)
        /\ IsRoster(old.participantOrder, old.participants)
        /\ Len(old.participantOrder) <= MaxParticipants
    BY <1>3, RecordType, RosterOf DEF StoreInv
  <2>2. /\ r \in BoardRecord
        /\ r.joinCode = old.joinCode
        /\ r.participants = old.participants \ {actor}
        /\ r.participantOrder = RemoveValue(old.participantOrder, actor)
    BY <2>1, WithoutParticipantType
  <2>3. IsRoster(r.participantOrder, r.participants)
    BY <2>1, <2>2, <1>3, RemoveValueRoster
  <2>4. Len(r.participantOrder) <= MaxParticipants
    <3>1. /\ Len(RemoveValue(old.participantOrder, actor)) \in Nat
          /\ Len(old.participantOrder) \in Nat
          /\ Len(RemoveValue(old.participantOrder, actor)) <= Len(old.participantOrder)
      BY <2>1, RemoveValueType, LenProperties
    <3> QED
      BY <3>1, <2>1, <2>2, NumbersAssumption
  <2>5. boardsByID' = [boardsByID EXCEPT ![b] = r]
    BY <1>3
  <2> QED
    BY <2>2, <2>3, <2>4, <2>5, <1>3, StoreInvUpdate
<1> QED
  BY <1>1, <1>2, <1>3 DEF RemoveParticipant, OpenBoard

(* TouchBoard preserves the invariant. *)
LEMMA TouchBoardInv ==
  ASSUME StoreInv, NEW b \in BoardIDs, NEW now \in Nat, NEW err,
         TouchBoard(b, now, err), UNCHANGED clock
  PROVE  StoreInv'
<1>1. CASE MissingBoard(b, now, err)
  BY <1>1, MissingBoardInv
<1>2. ASSUME Exists(b), boardsByID' = [boardsByID EXCEPT ![b] = Touched(@, now)],
             UNCHANGED boardIDsByJoinCode
      PROVE  StoreInv'
  <2>1. boardsByID[b] \in BoardRecord
    BY <1>2, RecordType DEF StoreInv
  <2> QED
    BY <2>1, <1>2, TouchedType, RosterOf, StoreInvUpdate
<1> QED
  BY <1>1, <1>2 DEF TouchBoard, OpenBoard

(* PruneExpired preserves the invariant, however many boards it removes. *)
LEMMA PruneExpiredInv ==
  ASSUME StoreInv, NEW now, PruneExpired(now), UNCHANGED clock
  PROVE  StoreInv'
BY StoreInvDelete DEF PruneExpired

(***************************************************************************)
(* The theorems.                                                           *)
(***************************************************************************)

(* Every step of the specification preserves the invariant. *)
LEMMA StoreInvNext == StoreInv /\ [Next]_vars => StoreInv'
<1> SUFFICES ASSUME StoreInv, [Next]_vars PROVE StoreInv'
  OBVIOUS
<1>1. CASE UNCHANGED vars
  BY <1>1, StoreInvIdle DEF StoreInv, TypeOK, vars
<1>2. CASE Tick
  <2>1. clock' \in 0 .. MaxClock
    BY <1>2, NumbersAssumption DEF Tick, StoreInv, TypeOK
  <2> QED
    BY <1>2, <2>1, StoreInvIdle DEF Tick
<1> CallerNow \subseteq Nat
  BY DEF CallerNow
<1>3. CASE Prune
  BY <1>3, PruneExpiredInv DEF Prune
<1>4. ASSUME NEW b \in BoardIDs, NEW actor \in Actors, Create(b, actor)
      PROVE  StoreInv'
  BY <1>4, CreateBoardInv DEF Create
<1>5. ASSUME NEW k \in JoinCodes, Get(k)
      PROVE  StoreInv'
  BY <1>5, GetBoardInv DEF Get
<1>6. ASSUME NEW k \in JoinCodes, NEW actor \in Actors, Join(k, actor)
      PROVE  StoreInv'
  BY <1>6, JoinBoardInv DEF Join
<1>7. ASSUME NEW b \in BoardIDs, Revoke(b)
      PROVE  StoreInv'
  BY <1>7, RevokeJoinCodeInv DEF Revoke
<1>8. ASSUME NEW b \in BoardIDs, NEW actor \in Actors, Remove(b, actor)
      PROVE  StoreInv'
  BY <1>8, RemoveParticipantInv DEF Remove
<1>9. ASSUME NEW b \in BoardIDs, Touch(b)
      PROVE  StoreInv'
  BY <1>9, TouchBoardInv DEF Touch
<1> QED
  BY <1>1, <1>2, <1>3, <1>4, <1>5, <1>6, <1>7, <1>8, <1>9 DEF Next

(* The invariant holds throughout. *)
THEOREM StoreInvariant == Spec => []StoreInv
BY StoreInvInit, StoreInvNext, PTL DEF Spec

(* The state has its type, whatever the callers do. *)
THEOREM TypeCorrect == Spec => []TypeOK
<1>1. StoreInv => TypeOK
  BY DEF StoreInv
<1> QED
  BY <1>1, StoreInvariant, PTL

(* The two maps of Store stay inverse to each other: no code leads nowhere or
   to a board with another code, no board is stranded behind a lost code. *)
THEOREM IndexAlwaysInverse == Spec => []IndexInverse
<1>1. StoreInv => IndexInverse
  BY DEF StoreInv
<1> QED
  BY <1>1, StoreInvariant, PTL

(* ParticipantOrder and Participants always describe the same roster. *)
THEOREM RosterAlwaysConsistent == Spec => []RosterConsistent
<1>1. StoreInv => RosterConsistent
  BY DEF StoreInv
<1> QED
  BY <1>1, StoreInvariant, PTL

(* A board has a finite number of participants, within its capacity: the list
   has no repetitions, and the list is what the code counts. *)
LEMMA ParticipantsWithinCapacity ==
  StoreInv => \A b \in BoardIDs : Exists(b) =>
                /\ IsFiniteSet(boardsByID[b].participants)
                /\ Cardinality(boardsByID[b].participants) <= MaxParticipants
<1> SUFFICES ASSUME StoreInv, NEW b \in BoardIDs, Exists(b)
             PROVE  /\ IsFiniteSet(boardsByID[b].participants)
                    /\ Cardinality(boardsByID[b].participants) <= MaxParticipants
  OBVIOUS
<1> DEFINE order == boardsByID[b].participantOrder
           n == Len(order)
           members == boardsByID[b].participants
<1>1. order \in Seq(Actors) /\ IsRoster(order, members) /\ n <= MaxParticipants
  BY RosterOf
<1>2. n \in Nat /\ DOMAIN order = 1 .. n
  BY <1>1
<1>3. \A m \in members : \E i \in 1 .. n : order[i] = m
  BY <1>1, <1>2 DEF IsRoster
<1>4. [i \in 1 .. n |-> order[i]] \in Surjection(1 .. n, members)
  BY <1>1, <1>2, <1>3 DEF IsRoster, Surjection
<1>5. IsFiniteSet(1 .. n) /\ Cardinality(1 .. n) = n
  BY <1>2, FS_Interval
<1>6. IsFiniteSet(members) /\ Cardinality(members) <= n
  BY <1>4, <1>5, FS_Surjection, FS_SurjCardinalityBound DEF ExistsSurjection
<1>7. Cardinality(members) \in Nat
  BY <1>6, FS_CardinalityType
<1> QED
  BY <1>1, <1>2, <1>6, <1>7, NumbersAssumption

(* No sequence of joins, leaves and late calls puts more than maxParticipants
   participants on a board. *)
THEOREM CapacityAlwaysRespected == Spec => []CapacityRespected
<1>1. StoreInv => CapacityRespected
  BY ParticipantsWithinCapacity DEF CapacityRespected
<1> QED
  BY <1>1, StoreInvariant, PTL

(***************************************************************************)
(* What one step may do to one board.  The clock reading a record is       *)
(* written with, or a board is found expired with, is at most MaxLag old.  *)
(***************************************************************************)
Kept(b) == boardsByID'[b] = boardsByID[b]

Expires(b) ==
  /\ Exists(b) /\ boardsByID'[b] = NoBoard
  /\ \E now \in CallerNow : IsExpired(b, now)

Begins(b) ==
  /\ ~Exists(b) /\ boardsByID'[b] # NoBoard
  /\ boardsByID'[b].lastActivityAt \in CallerNow

Rewritten(b) ==
  /\ Exists(b)
  /\ boardsByID'[b] # NoBoard
  /\ boardsByID'[b].lastActivityAt \in CallerNow
  /\ ~IsExpired(b, boardsByID'[b].lastActivityAt)
  /\ boardsByID[b].joinCode = NoCode =>
       /\ boardsByID'[b].joinCode = NoCode
       /\ boardsByID'[b].participants \subseteq boardsByID[b].participants

BoardStep(b) == Kept(b) \/ Expires(b) \/ Begins(b) \/ Rewritten(b)

(* An operation that writes one record writes no other. *)
LEMMA OneRecordStep ==
  ASSUME TypeOK, NEW b \in BoardIDs, NEW r,
         boardsByID' = [boardsByID EXCEPT ![b] = r], boardsByID'[b] = r => BoardStep(b)
  PROVE  \A d \in BoardIDs : BoardStep(d)
<1>1. boardsByID'[b] = r
  BY DEF TypeOK
<1>2. \A d \in BoardIDs \ {b} : Kept(d)
  BY DEF TypeOK, Kept
<1> QED
  BY <1>1, <1>2 DEF BoardStep

(* deleteBoardLocked on boards found expired is a legal step of each board. *)
LEMMA DeleteStep ==
  ASSUME NEW bs \in SUBSET BoardIDs, NEW now \in CallerNow,
         \A b \in bs : Exists(b) /\ IsExpired(b, now), DeleteBoards(bs)
  PROVE  \A d \in BoardIDs : BoardStep(d)
BY DEF DeleteBoards, BoardStep, Kept, Expires

(* So is leaving the boards alone. *)
LEMMA IdleStep ==
  ASSUME UNCHANGED boardsByID
  PROVE  \A d \in BoardIDs : BoardStep(d)
BY DEF BoardStep, Kept

(* A lookup by board id that fails. *)
LEMMA MissingBoardStep ==
  ASSUME NEW b \in BoardIDs, NEW now \in CallerNow, NEW err, MissingBoard(b, now, err)
  PROVE  \A d \in BoardIDs : BoardStep(d)
<1>1. CASE UNCHANGED boardsByID
  BY <1>1, IdleStep
<1>2. CASE Exists(b) /\ IsExpired(b, now) /\ DeleteBoards({b})
  BY <1>2, DeleteStep
<1> QED
  BY <1>1, <1>2 DEF MissingBoard

(* A lookup by join code that fails. *)
LEMMA MissingCodeStep ==
  ASSUME StoreInv, NEW k \in JoinCodes, NEW now \in CallerNow, NEW err,
         MissingCode(k, now, err)
  PROVE  \A d \in BoardIDs : BoardStep(d)
<1>1. CASE UNCHANGED boardsByID
  BY <1>1, IdleStep
<1>2. ASSUME NEW b \in BoardIDs, boardIDsByJoinCode[k] = b, IsExpired(b, now),
             DeleteBoards({b})
      PROVE  \A d \in BoardIDs : BoardStep(d)
  <2>1. Exists(b)
    BY <1>2 DEF StoreInv, IndexInverse
  <2> QED
    BY <2>1, <1>2, DeleteStep
<1> QED
  BY <1>1, <1>2 DEF MissingCode

(* Every step of the store keeps, expires, begins or rewrites each board. *)
LEMMA EveryBoardStep ==
  ASSUME StoreInv, [Next]_vars
  PROVE  \A d \in BoardIDs : BoardStep(d)
<1> USE DEF StoreInv
<1> CallerNow \subseteq Nat /\ clock \in CallerNow
  BY NumbersAssumption DEF CallerNow, TypeOK
<1>1. CASE UNCHANGED boardsByID
  BY <1>1, IdleStep
<1>2. ASSUME NEW now \in CallerNow, PruneExpired(now)
      PROVE  \A d \in BoardIDs : BoardStep(d)
  BY <1>2, DeleteStep DEF PruneExpired
<1>3. ASSUME NEW b \in BoardIDs, NEW owner \in Actors, NEW requested,
             NEW now \in CallerNow, NEW err, CreateBoard(b, requested, owner, now, err)
      PROVE  \A d \in BoardIDs : BoardStep(d)
  <2>1. ASSUME NEW k \in JoinCodes, ~Exists(b),
               boardsByID' = [boardsByID EXCEPT ![b] = NewRecord(k, owner, now)]
        PROVE  \A d \in BoardIDs : BoardStep(d)
    <3>1. /\ NewRecord(k, owner, now) # NoBoard
          /\ NewRecord(k, owner, now).lastActivityAt = now
      BY NewRecordType, NoBoardAssumption DEF NewRecord
    <3> QED
      BY <2>1, <3>1, OneRecordStep DEF BoardStep, Begins
  <2> QED
    BY <1>3, <2>1, IdleStep DEF CreateBoard
<1>4. ASSUME NEW k \in JoinCodes, NEW err, GetBoardByJoinCode(k, err)
      PROVE  \A d \in BoardIDs : BoardStep(d)
  BY <1>4, IdleStep, MissingCodeStep DEF GetBoardByJoinCode
<1>5. ASSUME NEW k \in JoinCodes, NEW actor \in Actors, NEW now \in CallerNow,
             NEW err, JoinBoard(k, actor, now, err)
      PROVE  \A d \in BoardIDs : BoardStep(d)
  <2>1. ASSUME NEW b \in BoardIDs, Admits(k, b, now),
               boardsByID' = [boardsByID EXCEPT ![b] = WithParticipant(@, actor, now)]
        PROVE  \A d \in BoardIDs : BoardStep(d)
    <3> DEFINE old == boardsByID[b]
               r == WithParticipant(old, actor, now)
    <3>1. old \in BoardRecord /\ old.joinCode # NoCode
      BY <2>1, RecordType, NoneAssumption DEF Admits, OpenBoard, IndexInverse
    <3>2. r # NoBoard /\ r.lastActivityAt = now
      <4>1. actor \in Actors /\ now \in Nat
        OBVIOUS
      <4> HIDE DEF old
      <4>2. r \in BoardRecord /\ r.lastActivityAt = now
        BY <3>1, <4>1, WithParticipantType
      <4> QED
        BY <4>2, NoBoardAssumption
    <3>3. boardsByID' = [boardsByID EXCEPT ![b] = r]
      BY <2>1
    <3> HIDE DEF r
    <3>4. boardsByID'[b] = r => Rewritten(b)
      BY <2>1, <3>1, <3>2 DEF Rewritten, Admits, OpenBoard
    <3> QED
      BY <3>3, <3>4, OneRecordStep DEF BoardStep
  <2> QED
    BY <1>5, <2>1, IdleStep, MissingCodeStep DEF JoinBoard
<1>6. ASSUME NEW b \in BoardIDs, NEW now \in CallerNow, NEW err,
             RevokeJoinCode(b, now, err)
      PROVE  \A d \in BoardIDs : BoardStep(d)
  <2>1. ASSUME OpenBoard(b, now),
               boardsByID' = [boardsByID EXCEPT ![b] = WithoutCode(@, now)]
        PROVE  \A d \in BoardIDs : BoardStep(d)
    <3> DEFINE r == WithoutCode(boardsByID[b], now)
    <3>1. /\ r # NoBoard /\ r.lastActivityAt = now /\ r.joinCode = NoCode
          /\ r.participants = boardsByID[b].participants
      BY <2>1, RecordType, WithoutCodeType, NoBoardAssumption DEF OpenBoard
    <3>2. boardsByID' = [boardsByID EXCEPT ![b] = r]
      BY <2>1
    <3> HIDE DEF r
    <3>3. boardsByID'[b] = r => Rewritten(b)
      BY <2>1, <3>1 DEF Rewritten, OpenBoard
    <3> QED
      BY <3>2, <3>3, OneRecordStep DEF BoardStep
  <2> QED
    BY <1>6, <2>1, IdleStep, MissingBoardStep DEF RevokeJoinCode
<1>7. ASSUME NEW b \in BoardIDs, NEW actor \in Actors, NEW now \in CallerNow,
             NEW err, RemoveParticipant(b, actor, now, err)
      PROVE  \A d \in BoardIDs : BoardStep(d)
  <2>1. ASSUME OpenBoard(b, now),
               boardsByID' = [boardsByID EXCEPT ![b] = WithoutParticipant(@, actor, now)]
        PROVE  \A d \in BoardIDs : BoardStep(d)
    <3> DEFINE old == boardsByID[b]
               r == WithoutParticipant(old, actor, now)
    <3>1. /\ r # NoBoard /\ r.lastActivityAt = now
          /\ r.joinCode = old.joinCode
          /\ r.participants \subseteq old.participants
      <4>1. old \in BoardRecord /\ actor \in Actors /\ now \in Nat
        BY <2>1, RecordType DEF OpenBoard
      <4> HIDE DEF old
      <4>2. /\ r \in BoardRecord /\ r.lastActivityAt = now
            /\ r.joinCode = old.joinCode
            /\ r.participants = old.participants \ {actor}
        BY <4>1, WithoutParticipantType
      <4> QED
        BY <4>2, NoBoardAssumption
    <3>2. boardsByID' = [boardsByID EXCEPT ![b] = r]
      BY <2>1
    <3> HIDE DEF r
    <3>3. boardsByID'[b] = r => Rewritten(b)
      BY <2>1, <3>1 DEF Rewritten, OpenBoard
    <3> QED
      BY <3>2, <3>3, OneRecordStep DEF BoardStep
  <2> QED
    BY <1>7, <2>1, IdleStep, MissingBoardStep DEF RemoveParticipant
<1>8. ASSUME NEW b \in BoardIDs, NEW now \in CallerNow, NEW err, TouchBoard(b, now, err)
      PROVE  \A d \in BoardIDs : BoardStep(d)
  <2>1. ASSUME OpenBoard(b, now),
               boardsByID' = [boardsByID EXCEPT ![b] = Touched(@, now)]
        PROVE  \A d \in BoardIDs : BoardStep(d)
    <3> DEFINE r == Touched(boardsByID[b], now)
    <3>1. /\ r # NoBoard /\ r.lastActivityAt = now
          /\ r.joinCode = boardsByID[b].joinCode
          /\ r.participants = boardsByID[b].participants
      BY <2>1, RecordType, TouchedType, NoBoardAssumption DEF OpenBoard
    <3>2. boardsByID' = [boardsByID EXCEPT ![b] = r]
      BY <2>1
    <3> HIDE DEF r
    <3>3. boardsByID'[b] = r => Rewritten(b)
      BY <2>1, <3>1 DEF Rewritten, OpenBoard
    <3> QED
      BY <3>2, <3>3, OneRecordStep DEF BoardStep
  <2> QED
    BY <1>8, <2>1, MissingBoardStep DEF TouchBoard
<1>9. Tick \/ UNCHANGED vars => UNCHANGED boardsByID
  BY DEF Tick, vars
<1> QED
  BY <1>1, <1>2, <1>3, <1>4, <1>5, <1>6, <1>7, <1>8, <1>9
     DEF Next, Prune, Create, Get, Join, Revoke, Remove, Touch

(***************************************************************************)
(* The action properties.                                                  *)
(***************************************************************************)

(* Recorded activity is never ahead of the wall clock. *)
ActivityNotAhead ==
  \A b \in BoardIDs : Exists(b) => boardsByID[b].lastActivityAt <= clock

(* Callers' clock readings are never ahead of the clock, nor is what they write. *)
LEMMA ActivityNext == StoreInv /\ ActivityNotAhead /\ [Next]_vars => ActivityNotAhead'
<1> SUFFICES ASSUME StoreInv, ActivityNotAhead, [Next]_vars, NEW b \in BoardIDs, Exists(b)'
             PROVE  boardsByID'[b].lastActivityAt <= clock'
  BY DEF ActivityNotAhead
<1>1. clock \in Nat /\ clock' \in Nat /\ clock <= clock'
  BY NumbersAssumption
     DEF StoreInv, TypeOK, Next, vars, Tick, Prune, Create, Get, Join, Revoke, Remove, Touch
<1>2. BoardStep(b)
  BY EveryBoardStep
<1>3. CASE Kept(b)
  <2>1. Exists(b) /\ boardsByID'[b] = boardsByID[b]
    BY <1>3 DEF Kept, Exists
  <2>2. boardsByID[b].lastActivityAt \in Nat
    BY <2>1, RecordType DEF StoreInv, BoardRecord
  <2> QED
    BY <1>1, <2>1, <2>2 DEF ActivityNotAhead
<1>4. CASE boardsByID'[b].lastActivityAt \in CallerNow
  BY <1>1, <1>4 DEF CallerNow
<1> QED
  BY <1>2, <1>3, <1>4 DEF BoardStep, Expires, Begins, Rewritten, Exists

(* The inductive invariant together with the bound on the recorded activity. *)
THEOREM ActivityInvariant == Spec => [](StoreInv /\ ActivityNotAhead)
<1>1. Init => ActivityNotAhead
  BY DEF Init, ActivityNotAhead, Exists
<1> QED
  BY <1>1, StoreInvInit, StoreInvNext, ActivityNext, PTL DEF Spec

(* Revoking a code is for good: no interleaving of later calls lets anybody
   into the board or gives it a code again. *)
THEOREM RevokedForGood == Spec => RevokedAdmitsNobody
<1>1. StoreInv /\ [Next]_vars =>
        [\A b \in BoardIDs :
           Exists(b) /\ boardsByID[b].joinCode = NoCode /\ Exists(b)' =>
             /\ boardsByID'[b].joinCode = NoCode
             /\ boardsByID'[b].participants \subseteq boardsByID[b].participants]_vars
  <2> SUFFICES ASSUME StoreInv, [Next]_vars, NEW b \in BoardIDs, Exists(b),
                      boardsByID[b].joinCode = NoCode, Exists(b)'
               PROVE  /\ boardsByID'[b].joinCode = NoCode
                      /\ boardsByID'[b].participants \subseteq boardsByID[b].participants
    OBVIOUS
  <2>1. BoardStep(b)
    BY EveryBoardStep
  <2> QED
    BY <2>1 DEF BoardStep, Kept, Expires, Begins, Rewritten, Exists
<1> QED
  BY <1>1, StoreInvariant, PTL DEF Spec, RevokedAdmitsNobody

(* A board nobody used for its TTL and a caller's delay is past saving. *)
THEOREM ExpiredForGood == Spec => ExpiredStaysExpired
<1>1. StoreInv /\ [Next]_vars =>
        [\A b \in BoardIDs :
           Exists(b) /\ clock - boardsByID[b].lastActivityAt >= CodeTTL + MaxLag =>
             boardsByID'[b] \in {NoBoard, boardsByID[b]}]_vars
  <2> SUFFICES ASSUME StoreInv, [Next]_vars, NEW b \in BoardIDs, Exists(b),
                      clock - boardsByID[b].lastActivityAt >= CodeTTL + MaxLag
               PROVE  boardsByID'[b] \in {NoBoard, boardsByID[b]}
    OBVIOUS
  <2>1. clock \in Nat /\ boardsByID[b].lastActivityAt \in Nat
    BY RecordType, NumbersAssumption DEF StoreInv, TypeOK, BoardRecord
  <2>2. \A now \in CallerNow : IsExpired(b, now)
    BY <2>1, NumbersAssumption DEF CallerNow, IsExpired
  <2>3. BoardStep(b)
    BY EveryBoardStep
  <2> QED
    BY <2>2, <2>3 DEF BoardStep, Kept, Expires, Begins, Rewritten, Exists
<1> QED
  BY <1>1, StoreInvariant, PTL DEF Spec, ExpiredStaysExpired

(* A late caller sets the activity back by no more than its delay, and no board
   is removed before its TTL has passed since its recorded activity. *)
THEOREM ActivityKept == Spec => ActivityNeverLost
<1>1. StoreInv /\ ActivityNotAhead /\ [Next]_vars =>
        [\A b \in BoardIDs : Exists(b) =>
           /\ ~Exists(b)' => clock - boardsByID[b].lastActivityAt >= CodeTTL
           /\ Exists(b)' =>
                boardsByID'[b].lastActivityAt >= boardsByID[b].lastActivityAt - MaxLag]_vars
  <2> SUFFICES ASSUME StoreInv, ActivityNotAhead, [Next]_vars, NEW b \in BoardIDs, Exists(b)
               PROVE  /\ ~Exists(b)' => clock - boardsByID[b].lastActivityAt >= CodeTTL
                      /\ Exists(b)' => boardsByID'[b].lastActivityAt
                                         >= boardsByID[b].lastActivityAt - MaxLag
    OBVIOUS
  <2>1. /\ clock \in Nat /\ boardsByID[b].lastActivityAt \in Nat
        /\ boardsByID[b].lastActivityAt <= clock
        /\ MaxLag \in Nat /\ CodeTTL \in Nat
    BY RecordType, NumbersAssumption DEF StoreInv, TypeOK, BoardRecord, ActivityNotAhead
  <2>2. BoardStep(b)
    BY EveryBoardStep
  <2>3. CASE Kept(b)
    BY <2>1, <2>3 DEF Kept, Exists
  <2>4. CASE Expires(b)
    BY <2>1, <2>4 DEF Expires, Exists, IsExpired, CallerNow
  <2>5. CASE Rewritten(b)
    <3>1. PICK now \in CallerNow : now = boardsByID'[b].lastActivityAt
      BY <2>5 DEF Rewritten
    <3>2. now >= boardsByID[b].lastActivityAt - MaxLag
      BY <2>1 DEF CallerNow
    <3> QED
      BY <2>5, <3>1, <3>2 DEF Rewritten, Exists
  <2> QED
    BY <2>2, <2>3, <2>4, <2>5 DEF BoardStep, Begins
<1> QED
  BY <1>1, ActivityInvariant, PTL DEF Spec, ActivityNeverLost

=============================================================================
