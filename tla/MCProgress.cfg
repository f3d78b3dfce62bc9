CONSTANTS
  other = other
  Urls <- MCUrls
  NoUrl = NoUrl
  Messages <- MCMessages
  m1 = m1
  m2 = m2
  Batches <- MCBatches
  MaxSockets = 3
  MaxHistory = 3
  p1 = p1
  p2 = p2
  b1 = b1
  k1 = k1
  NoConn = NoConn
  NoCode = NoCode
  NoBoard = NoBoard
  Conns = {p1, p2}
  BoardIDs = {b1}
  JoinCodes = {k1}
  Requests = {"session.create", "session.join", "board.snapshot", "board.snapshot.ack", "board.action", "heartbeat.ping", "participant.kick", "board.code.revoke"}
  MaxParticipants = 2
  CodeTTL = 1
  MaxLag = 0
  MaxClock = 1
  RelayUrl = RelayUrl
  Roles = {"owner", "guest"}
  Guests = {1}
  StorageFails = FALSE
  DropsOnlyWhenReady = TRUE
  MaxCalls = 1
  MaxRealtime = 1
  MaxPushes = 2
SPECIFICATION ProgressSpec
INVARIANT SocketInv
PROPERTIES
  AcceptedInOrder
  Reconnects
  GuestsServed
  PlacesGivenBack
  SessionReturns
  OwnerKeepsBoard
CHECK_DEADLOCK FALSE
