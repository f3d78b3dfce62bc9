----------------------------- MODULE RateLimits -----------------------------
(***************************************************************************)
(* The rate limits of the relay (apps/relay/internal/httpapi/rate_limit.go)*)
(* and the two handlers that ask for them: session.create counts against   *)
(* the caller's address, session.join first against the address and, when  *)
(* the code it names leads to a board that can be joined, against the code.*)
(*                                                                         *)
(* A limiter is a fixed window per key.  It reads the clock BEFORE it      *)
(* takes its lock: a request may be decided with a reading up to MaxDelay  *)
(* ticks old, also one older than the start of the window it falls in.     *)
(***************************************************************************)
EXTENDS Integers, Sequences

CONSTANTS
  Addresses,   \* remote addresses, as normalizeRateLimitIP leaves them
  CodeKeys,    \* join codes, trimmed and in upper case
  NoCodeKey,   \* a connection that is not between the two checks of a join
  Connections, \* the connections that send requests
  Limit,       \* the limit of each of the three limiters
  Window,      \* the length of a window, in ticks
  MaxDelay,    \* age of the clock reading a request may be decided with
  MaxTime      \* bound: the clock stops there

Limiters == {"sessionCreateByIP", "sessionJoinByIP", "sessionJoinByCode"}

\* One count for each limiter and key.
Counters ==
  ({"sessionCreateByIP", "sessionJoinByIP"} \X Addresses)
    \cup ({"sessionJoinByCode"} \X CodeKeys)

ASSUME LimitAssumption ==
  /\ Limit \in [Limiters -> Int]
  /\ Window \in Int
  /\ MaxDelay \in Nat
  /\ MaxTime \in Nat
  /\ NoCodeKey \notin CodeKeys

VARIABLES
  windowStart, \* counter -> when its window began, or NoWindow
  counts,      \* counter -> requests admitted in this window
  joining,     \* connection -> the code of the join it is looking up
  time,        \* the wall clock
  granted,     \* history: counter -> when each of its requests was admitted
  refusedAt    \* history: counter -> when a request was last refused

rateVars == <<windowStart, counts, joining, time, granted, refusedAt>>

NoWindow == -1
NeverRefused == -1

RateTypeOK ==
  /\ windowStart \in [Counters -> Nat \cup {NoWindow}]
  /\ counts \in [Counters -> Nat]
  /\ joining \in [Connections -> CodeKeys \cup {NoCodeKey}]
  /\ time \in Nat
  /\ granted \in [Counters -> Seq(Nat)]
  /\ refusedAt \in [Counters -> Nat \cup {NeverRefused}]

RateInit ==
  /\ windowStart = [k \in Counters |-> NoWindow]
  /\ counts = [k \in Counters |-> 0]
  /\ joining = [conn \in Connections |-> NoCodeKey]
  /\ time = 0
  /\ granted = [k \in Counters |-> << >>]
  /\ refusedAt = [k \in Counters |-> NeverRefused]

Readings == {t \in 0 .. time : time - t <= MaxDelay}

\* A limiter without a positive limit and window lets everything pass.
Limited(k) == Limit[k[1]] > 0 /\ Window > 0

WindowOver(k, reading) ==
  windowStart[k] = NoWindow \/ reading - windowStart[k] >= Window

StartForReadingKept(k, reading) ==
  IF windowStart[k] = NoWindow THEN reading ELSE windowStart[k]
StartForReading(k, reading) ==
  IF WindowOver(k, reading) THEN reading ELSE windowStart[k]

CountForReadingKept(k, reading) == counts[k]
CountForReading(k, reading) == IF WindowOver(k, reading) THEN 0 ELSE counts[k]

Admit(k, reading) ==
  /\ Limited(k)
  /\ CountForReading(k, reading) < Limit[k[1]]
  /\ windowStart' = [windowStart EXCEPT ![k] = StartForReading(k, reading)]
  /\ counts' = [counts EXCEPT ![k] = CountForReading(k, reading) + 1]
  /\ granted' = [granted EXCEPT ![k] = Append(@, time)]
  /\ UNCHANGED refusedAt

Refuse(k, reading) ==
  /\ Limited(k)
  /\ CountForReading(k, reading) >= Limit[k[1]]
  /\ windowStart' = [windowStart EXCEPT ![k] = StartForReading(k, reading)]
  /\ counts' = [counts EXCEPT ![k] = CountForReading(k, reading)]
  /\ refusedAt' = [refusedAt EXCEPT ![k] = time]
  /\ UNCHANGED granted

\* fixedWindowRateLimiter.Allow, with the answer it gives.
Allow(k, reading, answer) ==
  \/ /\ ~Limited(k)
     /\ answer
     /\ UNCHANGED <<windowStart, counts, granted, refusedAt>>
  \/ answer /\ Admit(k, reading)
  \/ ~answer /\ Refuse(k, reading)

(***************************************************************************)
(* The handlers.  A join that passes the first check looks its code up; it *)
(* reaches the second check only when that finds a board to join, which is *)
(* left open here.                                                         *)
(***************************************************************************)
AskToCreate(conn, address) ==
  /\ joining[conn] = NoCodeKey
  /\ \E reading \in Readings, answer \in BOOLEAN :
       Allow(<<"sessionCreateByIP", address>>, reading, answer)
  /\ UNCHANGED <<joining, time>>

AskToJoin(conn, address, key) ==
  /\ joining[conn] = NoCodeKey
  /\ \E reading \in Readings, answer \in BOOLEAN :
       /\ Allow(<<"sessionJoinByIP", address>>, reading, answer)
       /\ joining' = IF answer THEN [joining EXCEPT ![conn] = key] ELSE joining
  /\ UNCHANGED time

AskForCode(conn) ==
  /\ joining[conn] # NoCodeKey
  /\ \/ UNCHANGED <<windowStart, counts, granted, refusedAt>>
     \/ \E reading \in Readings, answer \in BOOLEAN :
          Allow(<<"sessionJoinByCode", joining[conn]>>, reading, answer)
  /\ joining' = [joining EXCEPT ![conn] = NoCodeKey]
  /\ UNCHANGED time

RateTick ==
  /\ time < MaxTime
  /\ time' = time + 1
  /\ UNCHANGED <<windowStart, counts, joining, granted, refusedAt>>

RateNext ==
  \/ RateTick
  \/ \E conn \in Connections :
       \/ AskForCode(conn)
       \/ \E address \in Addresses :
            \/ AskToCreate(conn, address)
            \/ \E key \in CodeKeys : AskToJoin(conn, address, key)

RateSpec == RateInit /\ [][RateNext]_rateVars

(***************************************************************************)
(* Properties.                                                             *)
(***************************************************************************)

(* However late the readings, two windows of a key begin at least
   Window - MaxDelay ticks of real time apart, so that no stretch of real
   time shorter than that admits more than twice the limit: the request
   admitted 2 * limit requests after another is at least that much later.
   (A fixed window admits twice its limit around its end; a reading taken
   before the lock could have made it worse.) *)
BurstsBounded ==
  \A k \in Counters : \A i \in DOMAIN granted[k] :
    Limited(k) /\ i + 2 * Limit[k[1]] <= Len(granted[k])
      => granted[k][i + 2 * Limit[k[1]]] - granted[k][i] >= Window - MaxDelay

(* A request is refused for its own key's traffic only, and recent traffic:
   limit requests of that key were admitted, the first of them less than
   Window + MaxDelay ticks before. *)
RefusedForCause ==
  \A k \in Counters : refusedAt[k] # NeverRefused =>
    \E last \in DOMAIN granted[k] :
      /\ last >= Limit[k[1]]
      /\ granted[k][last] <= refusedAt[k]
      /\ refusedAt[k] - granted[k][last - Limit[k[1]] + 1] < Window + MaxDelay

=============================================================================
