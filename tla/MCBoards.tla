------------------------------- MODULE MCBoards -------------------------------
(***************************************************************************)
(* The parts of a board at the relay in one run: its store, the panels of  *)
(* its participants, the snapshot a guest gets, the rate limits, the       *)
(* relay's settings, and the messages.  They share no state in these       *)
(* models, so a behaviour is one of a single part, and TLC looks at their  *)
(* sum and not their product.                                              *)
(***************************************************************************)
EXTENDS RoomStore, Participants, SnapshotHandshake, RateLimits, Settings, Protocol, TLC

CONSTANTS b1, b2, c1, c2, a1, a2, a3, owner, g1, g2, n1, n2, u1, u2, padded, ip, key, conn

VARIABLE moving  \* the part of this behaviour

MCLimits == [limiter \in Limiters |-> CASE limiter = "sessionCreateByIP" -> 0
                                        [] limiter = "sessionJoinByIP" -> 2
                                        [] limiter = "sessionJoinByCode" -> 1]

\* Durations up to 31 ticks in a word of 64; 33 seconds of two wrap to one.
MCEnvNumbers == {-1, 0, 1, 6, 33}
MCDefaults ==
  [name \in Names |->
     CASE name = "participants" -> 4 [] name = "length" -> 8
       [] name = "ttl" -> 9 [] name = "heartbeat" -> 3]

MCRelayed == [text \in {padded} |-> u1]
MCNumbers == -1 .. 1

\* Boards, codes and actors of the store are interchangeable.
BoardsSymmetry ==
  UNION {Permutations(set) : set \in {BoardIDs, JoinCodes, {a1, a2, a3}}}

Moves(part) == moving = part /\ UNCHANGED moving

BoardsInit ==
  /\ moving \in {"store", "panels", "handshake", "rates", "settings", "protocol"}
  /\ Init /\ PanelsInit /\ HandshakeInit /\ RateInit /\ ProtocolInit
  /\ SettingsInit
  /\ moving # "settings" => environ = [name \in Names |-> Unset]

BoardsNext ==
  \/ /\ Moves("store") /\ Next
     /\ UNCHANGED <<panelsVars, handshakeVars, rateVars, settingsVars, protocolVars>>
  \/ /\ Moves("panels") /\ PanelsNext
     /\ UNCHANGED <<vars, handshakeVars, rateVars, settingsVars, protocolVars>>
  \/ /\ Moves("handshake") /\ HandshakeNext
     /\ UNCHANGED <<vars, panelsVars, rateVars, settingsVars, protocolVars>>
  \/ /\ Moves("rates") /\ RateNext
     /\ UNCHANGED <<vars, panelsVars, handshakeVars, settingsVars, protocolVars>>
  \/ /\ Moves("settings") /\ SettingsNext
     /\ UNCHANGED <<vars, panelsVars, handshakeVars, rateVars, protocolVars>>
  \/ /\ Moves("protocol") /\ ProtocolNext
     /\ UNCHANGED <<vars, panelsVars, handshakeVars, rateVars, settingsVars>>

BoardsSpec ==
  BoardsInit
    /\ [][BoardsNext]_<<moving, vars, panelsVars, handshakeVars, rateVars, settingsVars,
                         protocolVars>>
=============================================================================
