CONSTANTS
  p1 = p1
  p2 = p2
  p3 = p3
  b1 = b1
  b2 = b2
  k1 = k1
  NoConn = NoConn
  NoCode = NoCode
  NoBoard = NoBoard
  Conns = {p1, p2, p3}
  BoardIDs = {b1}
  JoinCodes = {k1}
  Requests = {"session.create", "session.join", "board.snapshot", "board.snapshot.ack", "board.action", "heartbeat.ping"}
  MaxParticipants = 2
  CodeTTL = 1
  MaxLag = 0
  MaxClock = 1
SPECIFICATION Spec
SYMMETRY ConnSymmetry
INVARIANTS
  RelayInv
  NoWaitForAbsentOwner
  OneOutcome
