---------------------------- MODULE ProgressProofs ----------------------------
(***************************************************************************)
(* Theorems about the run of MCProgress, for any messages, any number of   *)
(* sockets and of calls: the socket client alone, with whatever user, and  *)
(* the controller above it both keep the client's invariant; what the      *)
(* client accepts is neither lost nor reordered (AcceptedInOrder), and an  *)
(* owner's board is kept whole.                                            *)
(***************************************************************************)
EXTENDS MCProgress, SocketClientProofs, FiniteSetTheorems, WellFoundedInduction

-----------------------------------------------------------------------------
(* Induction over 1 .. n, with a set for the property.                      *)

LEMMA LeastIsThere ==
  ASSUME NEW n \in Nat, NEW T \in SUBSET (1 .. n), T # {}
  PROVE  \E x \in T : \A y \in T : x <= y
<1> DEFINE Below(x) == {y \in T : y < x}
           Belows == {Below(x) : x \in T}
<1>1. IsFiniteSet(T)
  <2>1. IsFiniteSet(1 .. n)
    BY FS_Interval
  <2> QED BY <2>1, FS_Subset
<1>2. Belows \subseteq FiniteSubsetsOf(T)
  <2>1. \A x \in T : IsFiniteSet(Below(x)) /\ Below(x) \in SUBSET T
    BY <1>1, FS_Subset
  <2> QED BY <2>1 DEF FiniteSubsetsOf
<1>3. PICK A \in Belows : \A B \in Belows : <<B, A>> \notin StrictSubsetOrdering(T)
  <2>1. Belows # {}
    OBVIOUS
  <2> HIDE DEF Belows
  <2> QED BY <1>1, <1>2, <2>1, FS_StrictSubsetOrderingWellFounded, WFMin
<1>4. PICK x \in T : A = Below(x)
  BY <1>3
<1>5. \A y \in T : x <= y
  <2> SUFFICES ASSUME NEW y \in T, y < x PROVE FALSE
    BY <1>4
  <2>1. Below(y) \subseteq Below(x) /\ y \in Below(x) /\ y \notin Below(y)
    <3>1. \A z \in T : z < y => z < x
      OBVIOUS
    <3>2. ~(y < y)
      OBVIOUS
    <3> QED BY <3>1, <3>2
  <2>2. <<Below(y), A>> \in StrictSubsetOrdering(T)
    BY <1>4, <2>1 DEF StrictSubsetOrdering
  <2>3. Below(y) \in Belows
    OBVIOUS
  <2> QED BY <1>3, <2>2, <2>3
<1> QED BY <1>5

LEMMA StepByStep ==
  ASSUME NEW n \in Nat, NEW S, n > 0 => 1 \in S,
         \A k \in 1 .. n : k < n /\ k \in S => k + 1 \in S
  PROVE  1 .. n \subseteq S
<1> DEFINE T == {k \in 1 .. n : k \notin S}
<1> SUFFICES ASSUME T # {} PROVE FALSE
  OBVIOUS
<1>1. PICK x \in T : \A y \in T : x <= y
  <2> HIDE DEF T
  <2>1. T \in SUBSET (1 .. n)
    BY DEF T
  <2> QED BY <2>1, LeastIsThere
<1>2. x # 1
  BY <1>1
<1>3. x - 1 \in 1 .. n /\ x - 1 \notin T
  BY <1>1, <1>2
<1> QED BY <1>1, <1>3

-----------------------------------------------------------------------------
(* The sequences of a sequence, one after the other.                        *)

\* f[i] holds the first i sequences of w: the function FlattenSeq is defined by.
Flattens(f, w, n) ==
  f = [i \in 1 .. n |-> IF i = 1 THEN w[i] ELSE f[i - 1] \o w[i]]

LEMMA FlatteningExists ==
  ASSUME NEW n \in Nat \ {0}, NEW w
  PROVE  \E f : Flattens(f, w, n)
<1> DEFINE S == {m \in 1 .. n : \E f : Flattens(f, w, m)}
<1>1. 1 \in S
  <2> DEFINE f == [i \in 1 .. 1 |-> w[1]]
  <2>1. Flattens(f, w, 1)
    BY DEF Flattens
  <2> QED BY <2>1
<1>2. ASSUME NEW k \in 1 .. n, k < n, k \in S PROVE k + 1 \in S
  <2>1. PICK f : Flattens(f, w, k)
    BY <1>2
  <2> DEFINE g == [i \in 1 .. k + 1 |-> IF i <= k THEN f[i] ELSE f[k] \o w[k + 1]]
  <2>2. ASSUME NEW i \in 1 .. k + 1
        PROVE  g[i] = IF i = 1 THEN w[i] ELSE g[i - 1] \o w[i]
    <3>1. CASE i <= k
      <4>1. i \in 1 .. k /\ g[i] = f[i] /\ (i # 1 => g[i - 1] = f[i - 1])
        BY <3>1
      <4>2. f[i] = IF i = 1 THEN w[i] ELSE f[i - 1] \o w[i]
        BY <2>1, <4>1 DEF Flattens
      <4> QED BY <4>1, <4>2
    <3>2. CASE i = k + 1
      BY <3>2
    <3> QED BY <3>1, <3>2
  <2>3. Flattens(g, w, k + 1)
    <3> DEFINE h == [i \in 1 .. k + 1 |-> IF i = 1 THEN w[i] ELSE g[i - 1] \o w[i]]
    <3>1. DOMAIN g = 1 .. k + 1 /\ DOMAIN h = 1 .. k + 1
      OBVIOUS
    <3>2. \A i \in 1 .. k + 1 : h[i] = g[i]
      BY <2>2
    <3>3. g = [i \in DOMAIN g |-> g[i]] /\ h = [i \in DOMAIN h |-> h[i]]
      OBVIOUS
    <3>4. g = h
      <4> HIDE DEF g, h
      <4> QED BY <3>1, <3>2, <3>3
    <3> QED BY <3>4 DEF Flattens
  <2> HIDE DEF g
  <2> QED BY <1>2, <2>3
<1> HIDE DEF S
<1>3. 1 .. n \subseteq S
  BY <1>1, <1>2, StepByStep
<1> QED BY <1>3 DEF S

LEMMA FlattenSeqFlattens ==
  ASSUME NEW n \in Nat \ {0}, NEW M, NEW w \in [1 .. n -> Seq(M)]
  PROVE  \E f : Flattens(f, w, n) /\ FlattenSeq(w) = f[n]
<1> DEFINE flat == CHOOSE f : Flattens(f, w, n)
<1>1. Flattens(flat, w, n)
  BY FlatteningExists
<1>2. Len(w) = n
  OBVIOUS
<1>3. FlattenSeq(w) = flat[n]
  BY <1>2 DEF FlattenSeq, Flattens
<1> HIDE DEF flat
<1> QED BY <1>1, <1>3

\* m at the end of the sequence s of w, behind which there are only empty ones.
AddedTo(w, s, m) == [w EXCEPT ![s] = @ \o m]
NothingBehind(w, s, n) == \A t \in 1 .. n : s < t => w[t] = <<>>

\* What is added to one of the sequences, behind which there are only empty ones,
\* is added to them all.
LEMMA AppendedToOne ==
  ASSUME NEW n \in Nat \ {0}, NEW M, NEW w \in [1 .. n -> Seq(M)],
         NEW s \in 1 .. n, NEW m \in Seq(M),
         NothingBehind(w, s, n)
  PROVE  /\ FlattenSeq(w) \in Seq(M)
         /\ FlattenSeq(AddedTo(w, s, m)) = FlattenSeq(w) \o m
<1> USE DEF NothingBehind
<1> DEFINE v == [w EXCEPT ![s] = @ \o m]
<1>1. v \in [1 .. n -> Seq(M)]
  BY ConcatProperties
<1>2. PICK f : Flattens(f, w, n) /\ FlattenSeq(w) = f[n]
  BY FlattenSeqFlattens
<1>3. PICK g : Flattens(g, v, n) /\ FlattenSeq(v) = g[n]
  <2> HIDE DEF v
  <2> QED BY <1>1, FlattenSeqFlattens
<1>4. \A i \in 1 .. n : f[i] = IF i = 1 THEN w[i] ELSE f[i - 1] \o w[i]
  BY <1>2 DEF Flattens
<1>5. \A i \in 1 .. n : g[i] = IF i = 1 THEN v[i] ELSE g[i - 1] \o v[i]
  <2> HIDE DEF v
  <2> QED BY <1>3 DEF Flattens
<1>6. v[s] = w[s] \o m /\ \A i \in 1 .. n : i # s => v[i] = w[i]
  OBVIOUS
<1> DEFINE S == {i \in 1 .. n : /\ f[i] \in Seq(M)
                                /\ i < s => g[i] = f[i]
                                /\ s <= i => g[i] = f[i] \o m}
<1> HIDE DEF v
<1>7. 1 \in S
  <2>0. 1 \in 1 .. n /\ w[1] \in Seq(M)
    OBVIOUS
  <2>1. f[1] = w[1] /\ g[1] = v[1]
    BY <1>4, <1>5, <2>0
  <2>2. CASE s = 1
    <3>1. g[1] = f[1] \o m
      BY <1>6, <2>1, <2>2
    <3>2. f[1] \in Seq(M) /\ ~(1 < s)
      BY <2>0, <2>1, <2>2
    <3> QED BY <2>0, <3>1, <3>2
  <2>3. CASE s # 1
    <3>1. g[1] = f[1] /\ ~(s <= 1) /\ f[1] \in Seq(M)
      BY <1>6, <2>0, <2>1, <2>3
    <3> QED BY <2>0, <3>1
  <2> QED BY <2>2, <2>3
<1>8. ASSUME NEW k \in 1 .. n, k < n, k \in S PROVE k + 1 \in S
  <2>1. /\ f[k] \in Seq(M) /\ w[k + 1] \in Seq(M)
        /\ k < s => g[k] = f[k]
        /\ s <= k => g[k] = f[k] \o m
    BY <1>8
  <2>2. f[k + 1] = f[k] \o w[k + 1] /\ g[k + 1] = g[k] \o v[k + 1]
    <3>1. k + 1 \in 1 .. n /\ k + 1 # 1 /\ (k + 1) - 1 = k
      BY <1>8
    <3> QED BY <1>4, <1>5, <3>1
  <2>3. f[k + 1] \in Seq(M) /\ k + 1 \in 1 .. n
    BY <1>8, <2>1, <2>2, ConcatProperties
  <2>4. CASE k + 1 < s
    <3>1. v[k + 1] = w[k + 1] /\ k < s
      BY <1>6, <2>3, <2>4
    <3>2. g[k] = f[k]
      BY <2>1, <3>1
    <3>3. g[k + 1] = f[k + 1]
      BY <2>2, <3>1, <3>2
    <3>4. ~(s <= k + 1)
      BY <2>4
    <3> QED BY <2>3, <3>3, <3>4
  <2>5. CASE k + 1 = s
    <3>1. k < s /\ v[k + 1] = w[k + 1] \o m
      BY <1>6, <2>5
    <3>2. g[k + 1] = f[k] \o (w[k + 1] \o m)
      BY <2>1, <2>2, <3>1
    <3>3. f[k] \o (w[k + 1] \o m) = (f[k] \o w[k + 1]) \o m
      <4>1. \A a, b, c \in Seq(M) : (a \o b) \o c = a \o (b \o c)
        BY ConcatAssociative
      <4> QED BY <2>1, <4>1
    <3>4. g[k + 1] = f[k + 1] \o m
      BY <2>2, <3>2, <3>3
    <3> QED BY <2>3, <2>5, <3>4
  <2>6. CASE k + 1 > s
    <3>1. s <= k /\ w[k + 1] = <<>> /\ v[k + 1] = <<>>
      BY <1>6, <2>3, <2>6
    <3>2. f[k] \o <<>> = f[k]
      BY <2>1, ConcatEmptySeq
    <3>3. f[k] \o m \in Seq(M)
      BY <2>1, ConcatProperties
    <3>4. (f[k] \o m) \o <<>> = f[k] \o m
      BY <3>3, ConcatEmptySeq
    <3>5. f[k + 1] = f[k] /\ g[k + 1] = f[k] \o m
      BY <2>1, <2>2, <3>1, <3>2, <3>4
    <3>6. g[k + 1] = f[k + 1] \o m /\ ~(k + 1 < s)
      BY <2>6, <3>5
    <3> QED BY <2>3, <3>6
  <2> QED BY <1>8, <2>4, <2>5, <2>6
<1> HIDE DEF S
<1>9. n \in S
  <2>1. 1 .. n \subseteq S
    BY <1>7, <1>8, StepByStep
  <2> QED BY <2>1
<1>10. f[n] \in Seq(M) /\ g[n] = f[n] \o m
  BY <1>9 DEF S
<1>11. FlattenSeq(v) = FlattenSeq(w) \o m
  BY <1>2, <1>3, <1>10
<1> QED BY <1>2, <1>10, <1>11 DEF v, AddedTo

-----------------------------------------------------------------------------
(* What the client is handed, in the order of the network.                  *)

\* Sockets are created in order, the current one is the newest, and nothing is
\* written to one that does not exist.
NewestIsCurrent ==
  /\ \A s, t \in Sockets :
       s < t /\ (readyState[s] = "none" \/ s = socket) => readyState[t] = "none"
  /\ \A s \in Sockets : readyState[s] = "none" => written[s] = <<>>

\* What an action property says of a step of the client.
Accepted ==
  \/ History' = History
  \/ /\ \E messages \in Batches : History' = History \o messages
     /\ status' = "connected" => status = "connected"
  \/ /\ written' = written
     /\ \/ status' = "stopped"
        \/ status' = "connecting" /\ socket' # socket

LEMMA NewestInit == Init => NewestIsCurrent
BY DEF Init, NewestIsCurrent, Sockets, NoSocket

LEMMA NewestStep ==
  ASSUME SocketInv, NewestIsCurrent, [Next]_vars
  PROVE  NewestIsCurrent'
<1> USE SocketAssumption DEF SocketInv, LinkInv, TypeOK, Sockets, NoSocket, NewestIsCurrent
<1>1. ASSUME NEW messages \in Batches, Send(messages) PROVE NewestIsCurrent'
  <2>1. CASE UNCHANGED written
    BY <1>1, <2>1 DEF Send
  <2>2. CASE IsOpen /\ written' = [written EXCEPT ![socket] = @ \o messages]
    BY <1>1, <2>2 DEF Send, IsOpen
  <2> QED BY <1>1, <2>1, <2>2 DEF Send
<1>2. ASSUME NEW url \in Urls, NEW messages \in Batches, OpenAnew(url, messages)
      PROVE  NewestIsCurrent'
  <2>1. PICK s \in Sockets : /\ IsNew(s) /\ socket' = s
                             /\ readyState' = [Abandoned EXCEPT ![s] = "connecting"]
    BY <1>2 DEF OpenAnew
  <2>2. /\ \A t \in Sockets : t # s /\ t # socket => readyState'[t] = readyState[t]
        /\ readyState'[s] = "connecting"
        /\ socket # 0 => readyState[socket] # "none" /\ readyState'[socket] # "none"
    BY <2>1 DEF Abandoned, TimerIsNeeded, IsNew
  <2>3. /\ \A t \in Sockets : s < t => readyState[t] = "none"
        /\ \A t \in Sockets : t < s => readyState[t] # "none"
    BY <2>1 DEF IsNew
  <2>4. \A t \in Sockets : t # s /\ readyState[t] = "none" <=> readyState'[t] = "none"
    <3>1. \A t \in Sockets : t = s \/ t = socket \/ (t # s /\ t # socket)
      OBVIOUS
    <3> QED BY <2>2, <3>1
  <2>5. /\ written' = written /\ socket' = s
        /\ \A t \in Sockets : readyState[t] = "none" => written[t] = <<>>
    BY <1>2, <2>1 DEF OpenAnew
  <2>6. ASSUME NEW t \in Sockets, NEW u \in Sockets, t < u,
               readyState'[t] = "none" \/ t = socket'
        PROVE  readyState'[u] = "none"
    <3>1. s < u
      <4>1. CASE t = s
        BY <2>6, <4>1
      <4>2. CASE t # s
        <5>1. readyState[t] = "none"
          BY <2>4, <2>5, <2>6, <4>2
        <5>2. ~(t < s)
          BY <2>3, <5>1
        <5> QED BY <2>6, <4>2, <5>2
      <4> QED BY <4>1, <4>2
    <3>2. readyState[u] = "none" /\ u # s
      BY <2>3, <3>1
    <3> QED BY <2>4, <3>2
  <2>7. \A t \in Sockets : readyState'[t] = "none" => written'[t] = <<>>
    BY <2>4, <2>5
  <2> QED BY <2>6, <2>7
<1>3. CASE Disconnect
  BY <1>3 DEF Disconnect, LetGo, Abandoned, TimerIsNeeded
<1>4. CASE TimerFires
  <2>1. PICK s \in Sockets : /\ IsNew(s) /\ socket' = s
                             /\ readyState' = [readyState EXCEPT ![s] = "connecting"]
    BY <1>4 DEF TimerFires
  <2> QED BY <1>4, <2>1 DEF TimerFires, IsNew
<1>5. ASSUME NEW s \in Sockets, SocketOpens(s) PROVE NewestIsCurrent'
  <2>1. CASE UNCHANGED written
    BY <1>5, <2>1 DEF SocketOpens
  <2>2. CASE written' = [written EXCEPT ![s] = @ \o queuedMessages]
    BY <1>5, <2>2 DEF SocketOpens
  <2> QED BY <1>5, <2>1, <2>2 DEF SocketOpens, FlushQueuedMessages
<1>6. ASSUME NEW s \in Sockets, NEW messages \in Batches, CurrentCloses(s, messages)
      PROVE  NewestIsCurrent'
  <2>1. /\ readyState' = [readyState EXCEPT ![s] = "closed"] /\ readyState[s] # "none"
        /\ socket' = 0 /\ written' = written
    BY <1>6 DEF CurrentCloses, MayClose
  <2>2. \A t \in Sockets : readyState[t] = "none" <=> readyState'[t] = "none"
    BY <2>1
  <2> QED BY <2>1, <2>2
<1>7. CASE UNCHANGED vars
  BY <1>7 DEF vars
<1>8. ASSUME NEW s \in Sockets, SocketCloseBegins(s) \/ StaleCloses(s)
      PROVE  NewestIsCurrent'
  BY <1>8 DEF SocketCloseBegins, StaleCloses, MayClose
<1> QED
  BY <1>1, <1>2, <1>3, <1>4, <1>5, <1>6, <1>7, <1>8 DEF Next, Connect

\* What is written to the newest socket is added to all that was written.
LEMMA WrittenToNewest ==
  ASSUME SocketInv, NewestIsCurrent, NEW m \in Seq(Messages), socket # NoSocket
  PROVE  /\ FlattenSeq(written) \in Seq(Messages)
         /\ FlattenSeq([written EXCEPT ![socket] = @ \o m]) = FlattenSeq(written) \o m
<1>1. MaxSockets \in Nat \ {0} /\ socket \in 1 .. MaxSockets
      /\ written \in [1 .. MaxSockets -> Seq(Messages)]
  BY SocketAssumption DEF SocketInv, LinkInv, TypeOK, Sockets, NoSocket
<1>2. \A t \in 1 .. MaxSockets : socket < t => written[t] = <<>>
  BY <1>1 DEF NewestIsCurrent, Sockets
<1>3. PICK n \in Nat \ {0} : n = MaxSockets
  BY <1>1
<1>4. /\ written \in [1 .. n -> Seq(Messages)] /\ socket \in 1 .. n
      /\ NothingBehind(written, socket, n)
  BY <1>1, <1>2, <1>3 DEF NothingBehind
<1>5. /\ FlattenSeq(written) \in Seq(Messages)
      /\ FlattenSeq(AddedTo(written, socket, m)) = FlattenSeq(written) \o m
  BY <1>4, AppendedToOne
<1> QED BY <1>5 DEF AddedTo

\* What was written is a sequence of messages, with a socket or without.
LEMMA WrittenIsSequence ==
  ASSUME SocketInv
  PROVE  FlattenSeq(written) \in Seq(Messages)
<1>1. MaxSockets \in Nat /\ written \in [1 .. MaxSockets -> Seq(Messages)]
  BY SocketAssumption DEF SocketInv, LinkInv, TypeOK, Sockets
<1>2. CASE MaxSockets = 0
  <2>1. written = <<>>
    BY <1>1, <1>2
  <2>2. Len(written) = 0
    BY <2>1
  <2>3. FlattenSeq(written) = <<>>
    BY <2>1, <2>2 DEF FlattenSeq
  <2> QED BY <2>3
<1>3. CASE MaxSockets # 0
  <2>1. PICK n \in Nat \ {0} : n = MaxSockets
    BY <1>1, <1>3
  <2>2. n \in 1 .. n /\ <<>> \in Seq(Messages) /\ NothingBehind(written, n, n)
    BY DEF NothingBehind
  <2>3. written \in [1 .. n -> Seq(Messages)]
    BY <1>1, <2>1
  <2> QED BY <2>2, <2>3, AppendedToOne
<1> QED BY <1>2, <1>3

\* A step of the client adds what it accepts at the end of what it was handed,
\* or drops what waits as it is stopped or led elsewhere.
LEMMA StepAccepts ==
  ASSUME SocketInv, NewestIsCurrent, [Next]_vars
  PROVE  Accepted
<1> DEFINE W == FlattenSeq(written)
           Q == queuedMessages
<1>1. W \in Seq(Messages) /\ Q \in Seq(Messages)
  BY WrittenIsSequence DEF SocketInv, LinkInv, TypeOK
<1>2. \A a, b, c \in Seq(Messages) : (a \o b) \o c = a \o (b \o c)
  BY ConcatAssociative
<1>3. \A a \in Seq(Messages) : a \o <<>> = a
  BY ConcatEmptySeq
<1>4. History = W \o Q
  BY DEF History
<1>5. \A m \in Batches : m \in Seq(Messages)
  BY SocketAssumption
<1>6. written' = written => W' = W
  OBVIOUS
<1>7. ASSUME NEW m \in Seq(Messages), socket # NoSocket,
             written' = [written EXCEPT ![socket] = @ \o m]
      PROVE  W' = W \o m
  BY <1>7, WrittenToNewest
<1>8. History' = W' \o Q'
  BY DEF History
<1> HIDE DEF W, Q
\* A message is queued behind the others.
<1>9. ASSUME NEW m \in Batches, written' = written, Q' = Q \o m
      PROVE  History' = History \o m
  <2>1. History' = W \o (Q \o m)
    BY <1>6, <1>8, <1>9
  <2>2. (W \o Q) \o m = W \o (Q \o m)
    BY <1>1, <1>2, <1>5
  <2> QED BY <1>4, <2>1, <2>2
<1>10. written' = written /\ Q' = Q => History' = History
  BY <1>4, <1>6, <1>8
<1>11. ASSUME NEW m \in Batches, Send(m) PROVE Accepted
  <2>1. status' = status
    BY <1>11 DEF Send
  <2>2. CASE Accepts /\ IsOpen
    <3>1. /\ socket # NoSocket /\ Q' = Q
          /\ written' = [written EXCEPT ![socket] = @ \o m]
      BY <1>11, <2>2 DEF Send, IsOpen, Q
    <3>2. Q = <<>>
      BY <2>2 DEF SocketInv, LinkInv, NothingWaitsWhileOpen, Q
    <3>3. W' = W \o m
      BY <1>5, <1>7, <3>1
    <3>4. History' = (W \o m) \o <<>> /\ History = W \o <<>>
      BY <1>4, <1>8, <3>1, <3>2, <3>3
    <3>5. W \o m \in Seq(Messages)
      BY <1>1, <1>5, ConcatProperties
    <3>6. History' = W \o m /\ History = W
      BY <1>1, <1>3, <3>4, <3>5
    <3>7. History' = History \o m
      BY <3>6
    <3> QED BY <2>1, <3>7 DEF Accepted
  <2>3. CASE Accepts /\ ~IsOpen
    <3>1. written' = written /\ Q' = Q \o m
      BY <1>11, <2>3 DEF Send, Q
    <3>2. History' = History \o m
      BY <1>9, <3>1
    <3> QED BY <2>1, <3>2 DEF Accepted
  <2>4. CASE ~Accepts
    <3>1. written' = written /\ Q' = Q
      BY <1>11, <2>4 DEF Send, Q
    <3> QED BY <1>10, <3>1 DEF Accepted
  <2> QED BY <2>2, <2>3, <2>4
<1>12. ASSUME NEW url \in Urls, NEW m \in Batches, OpenAnew(url, m) PROVE Accepted
  <2>1. PICK s \in Sockets : IsNew(s) /\ socket' = s
    BY <1>12 DEF OpenAnew
  <2>2. socket' # socket
    BY <2>1, SocketAssumption DEF SocketInv, LinkInv, TimerIsNeeded, IsNew, Sockets, NoSocket
  <2>3. written' = written /\ status' = "connecting"
    BY <1>12 DEF OpenAnew
  <2> QED BY <2>2, <2>3 DEF Accepted
<1>13. CASE Disconnect
  BY <1>13 DEF Disconnect, Accepted
<1>14. CASE TimerFires
  BY <1>10, <1>14 DEF TimerFires, Accepted, Q
<1>15. ASSUME NEW s \in Sockets, SocketOpens(s) PROVE Accepted
  <2>1. CASE socket = s /\ ~manualDisconnect
    <3>1. /\ written' = [written EXCEPT ![socket] = @ \o Q] /\ Q' = <<>>
          /\ socket # NoSocket
      BY <1>15, <2>1 DEF SocketOpens, FlushQueuedMessages, Q, Sockets, NoSocket
    <3>2. W' = W \o Q
      BY <1>1, <1>7, <3>1
    <3>3. W \o Q \in Seq(Messages)
      BY <1>1, ConcatProperties
    <3>4. History' = (W \o Q) \o <<>>
      BY <1>8, <3>1, <3>2
    <3>5. History' = History
      BY <1>3, <1>4, <3>3, <3>4
    <3> QED BY <3>5 DEF Accepted
  <2>2. CASE socket # s \/ manualDisconnect
    BY <1>10, <1>15, <2>2 DEF SocketOpens, Accepted, Q
  <2> QED BY <2>1, <2>2
<1>16. ASSUME NEW s \in Sockets, NEW m \in Batches, CurrentCloses(s, m) PROVE Accepted
  <2>1. written' = written /\ Q' = Q \o m /\ status' = "reconnecting"
    BY <1>16 DEF CurrentCloses, ScheduleReconnect, Q
  <2>2. History' = History \o m
    BY <1>9, <2>1
  <2> QED BY <2>1, <2>2 DEF Accepted
<1>17. ASSUME NEW s \in Sockets, SocketCloseBegins(s) \/ StaleCloses(s) PROVE Accepted
  BY <1>10, <1>17 DEF SocketCloseBegins, StaleCloses, Accepted, Q
<1>18. CASE UNCHANGED vars
  BY <1>10, <1>18 DEF vars, Accepted, Q
<1> QED
  BY <1>11, <1>12, <1>13, <1>14, <1>15, <1>16, <1>17, <1>18 DEF Next, Connect

-----------------------------------------------------------------------------
(* The parts of the run.                                                    *)

allVars == <<moving, vars, routerVars, controllerVars>>

\* The part that moves remains the same.
LEMMA OnePartMoves ==
  ASSUME [ProgressNext]_allVars
  PROVE  moving' = moving
BY DEF ProgressNext, Moves, allVars

LEMMA ClientMoves ==
  ASSUME [ProgressNext]_allVars, moving = "client"
  PROVE  [Next]_vars /\ UNCHANGED controllerVars
BY DEF ProgressNext, Moves, MCNext, allVars

LEMMA ControllerMoves ==
  ASSUME [ProgressNext]_allVars, moving # "client"
  PROVE  [Controller!Next]_(Controller!vars)
<1>1. CASE UNCHANGED <<vars, controllerVars>>
  BY <1>1 DEF vars, controllerVars, Controller!vars, Controller!clientVars,
              Controller!sessionVars, Controller!boardVars, Controller!relayVars,
              Controller!countVars
<1> QED BY <1>1 DEF ProgressNext, Moves, allVars

\* What the client promises its controller it promises any user.
LEMMA ControllersClientIsOne ==
  ASSUME Controller!Client!SocketInv
  PROVE  SocketInv
<1>1. RelayUrl \in Urls /\ Controller!Outgoing \subseteq Messages
  BY ProgressAssumption DEF MCUrls, MCMessages
<1>2. Controller!Client!TypeOK
  BY DEF Controller!Client!SocketInv, Controller!Client!LinkInv
<1>3. Seq(Controller!Outgoing) \subseteq Seq(Messages)
  BY <1>1
<1>4. TypeOK
  <2>1. queuedMessages \in Seq(Messages)
    BY <1>2, <1>3 DEF Controller!Client!TypeOK
  <2>2. written \in [Sockets -> Seq(Messages)]
    BY <1>2, <1>3 DEF Controller!Client!TypeOK, Controller!Client!Sockets, Sockets
  <2> QED
    BY <1>1, <1>2, <2>1, <2>2
    DEF TypeOK, Sockets, NoSocket, Statuses, ReadyStates, Controller!Client!TypeOK,
        Controller!Client!Sockets, Controller!Client!NoSocket, Controller!Client!Statuses,
        Controller!Client!ReadyStates
<1> USE DEF Accepts, IsOpen, Sockets, NoSocket, Controller!Client!Accepts,
            Controller!Client!IsOpen, Controller!Client!Sockets, Controller!Client!NoSocket,
            Controller!Client!SocketInv, Controller!Client!LinkInv
<1>5. CurrentIsWanted /\ OneLiveSocket
  BY DEF CurrentIsWanted, Controller!Client!CurrentIsWanted,
         OneLiveSocket, Controller!Client!OneLiveSocket
<1>6. TimerIsNeeded /\ KeepsTrying
  BY DEF TimerIsNeeded, Controller!Client!TimerIsNeeded,
         KeepsTrying, Controller!Client!KeepsTrying
<1>7. NothingWaitsWhileOpen /\ StatusIsTrue
  BY DEF NothingWaitsWhileOpen, Controller!Client!NothingWaitsWhileOpen,
         StatusIsTrue, Controller!Client!StatusIsTrue
<1> QED BY <1>4, <1>5, <1>6, <1>7 DEF SocketInv, LinkInv

\* With a client alone, its invariant and the order of its sockets.
ClientInv == moving = "client" => SocketInv /\ NewestIsCurrent

LEMMA ClientInvAlways == ProgressSpec => []ClientInv
<1>1. ProgressInit => ClientInv
  BY SocketInvInit, NewestInit DEF ProgressInit, ClientInv
<1>2. ClientInv /\ [ProgressNext]_allVars => ClientInv'
  <2> SUFFICES ASSUME ClientInv, [ProgressNext]_allVars, moving' = "client"
               PROVE  SocketInv' /\ NewestIsCurrent'
    BY DEF ClientInv
  <2>1. moving = "client"
    BY OnePartMoves
  <2>2. SocketInv /\ NewestIsCurrent /\ [Next]_vars
    BY <2>1, ClientMoves DEF ClientInv
  <2> QED BY <2>2, StepKeepsSocketInv, NewestStep
<1> QED BY <1>1, <1>2, PTL DEF ProgressSpec, allVars

LEMMA ControllerOrNot ==
  ProgressSpec => [](moving = "client") \/ (Controller!Spec /\ [](moving # "client"))
<1>1. ProgressInit => Controller!Init
  BY DEF ProgressInit
<1>2. [ProgressNext]_allVars => moving' = moving
  BY OnePartMoves
<1>3. moving # "client" /\ [ProgressNext]_allVars => [Controller!Next]_(Controller!vars)
  BY ControllerMoves
<1>4. moving = "client" /\ [ProgressNext]_allVars => (moving = "client")'
  BY <1>2
<1>5. moving # "client" /\ [ProgressNext]_allVars => (moving # "client")'
  BY <1>2
<1>6. ProgressSpec => (moving = "client" => [](moving = "client"))
  BY <1>4, PTL DEF ProgressSpec, allVars
<1>7. ProgressSpec => (moving # "client" => [](moving # "client"))
  BY <1>5, PTL DEF ProgressSpec, allVars
<1>8. ProgressSpec => ([](moving # "client") => [][Controller!Next]_(Controller!vars))
  BY <1>3, PTL DEF ProgressSpec, allVars
<1>9. ProgressSpec => ([](moving # "client") => Controller!Spec)
  BY <1>1, <1>8, PTL DEF ProgressSpec, Controller!Spec
<1>10. moving = "client" \/ moving # "client"
  OBVIOUS
<1> QED BY <1>6, <1>7, <1>9, <1>10, PTL

-----------------------------------------------------------------------------
(* Theorems.                                                                *)

\* The client under any order of calls, and under the controller, whose calls come
\* in its handlers, has one connection, that is wanted, told of as it is and never
\* given up (openSocket, scheduleReconnect, disconnect, the events of the sockets).
THEOREM ClientAlwaysSound == ProgressSpec => []SocketInv
<1>1. Controller!Spec => []Controller!Client!SocketInv
  BY ProgressAssumption, Controller!ControllerNeverGivesUp
<1>2. Controller!Client!SocketInv => SocketInv
  BY ControllersClientIsOne
<1>3. ClientInv /\ moving = "client" => SocketInv
  BY DEF ClientInv
<1> QED BY <1>1, <1>2, <1>3, ClientInvAlways, ControllerOrNot, PTL

\* Whatever its user sends, when it calls, and however its sockets fail, the client
\* neither loses, repeats nor reorders what it accepted, on its way through the
\* queue and over all its sockets, until it is stopped or led elsewhere (send,
\* flushQueuedMessages, connect, disconnect).
THEOREM NothingLostNorReordered == ProgressSpec => AcceptedInOrder
<1>1. ClientInv /\ [ProgressNext]_allVars => [moving = "client" => Accepted]_vars
  BY ClientMoves, StepAccepts DEF ClientInv
<1>2. [moving = "client" => Accepted]_vars
        => [moving = "client" =>
              \/ History' = History
              \/ /\ \E messages \in Batches : History' = History \o messages
                 /\ status' = "connected" => status = "connected"
              \/ /\ written' = written
                 /\ \/ status' = "stopped"
                    \/ status' = "connecting" /\ socket' # socket]_vars
  BY DEF Accepted
<1> QED BY <1>1, <1>2, ClientInvAlways, PTL DEF ProgressSpec, allVars, AcceptedInOrder

\* In this run, too, an owner's board comes back whole from storage.
THEOREM OwnersBoardComesBack == ProgressSpec => OwnerKeepsBoard
<1>1. Controller!Spec => Controller!OwnerKeepsBoard
  BY ProgressAssumption, Controller!OwnersKeepTheirBoard
<1>2. moving = "client" /\ [ProgressNext]_allVars
        => [role = "owner" /\ role' = "owner" => shownBoard \subseteq shownBoard']_(Controller!vars)
  <2> SUFFICES ASSUME moving = "client", [ProgressNext]_allVars
               PROVE  shownBoard \subseteq shownBoard'
    OBVIOUS
  <2> QED BY ClientMoves DEF controllerVars
<1> QED
  BY <1>1, <1>2, ControllerOrNot, PTL
  DEF ProgressSpec, allVars, OwnerKeepsBoard, Controller!OwnerKeepsBoard
=============================================================================
