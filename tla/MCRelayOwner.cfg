CONSTANTS
  p1 = p1
  p2 = p2
  p3 = p3
  b1 = b1
  b2 = b2
  k1 = k1
  NoConn = NoConn
  NoCode = NoCode
  NoBoard = NoBoard
  Conns = {p1, p2, p3}
  BoardIDs = {b1}
  JoinCodes = {k1}
  Requests = {"session.create", "session.join", "board.snapshot", "participant.kick", "board.code.revoke"}
  MaxParticipants = 3
  CodeTTL = 1
  MaxLag = 0
  MaxClock = 0
SPECIFICATION Spec
SYMMETRY ConnSymmetry
INVARIANTS
  NobodyForgotten
  OwnerNotPutOut
