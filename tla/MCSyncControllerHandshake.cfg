CONSTANTS
  RelayUrl = RelayUrl
  NoUrl = NoUrl
  Roles = {"guest"}
  Guests = {}
  StorageFails = FALSE
  DropsOnlyWhenReady = FALSE
  MaxSockets = 3
  MaxCalls = 1
  MaxRealtime = 0
  MaxPushes = 0
SPECIFICATION Spec
INVARIANT HandshakeOnEveryConnection
CHECK_DEADLOCK FALSE
