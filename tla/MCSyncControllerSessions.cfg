CONSTANTS
  RelayUrl = RelayUrl
  NoUrl = NoUrl
  Roles = {"owner", "guest"}
  Guests = {1}
  StorageFails = TRUE
  DropsOnlyWhenReady = FALSE
  MaxSockets = 3
  MaxCalls = 2
  MaxRealtime = 2
  MaxPushes = 1
SPECIFICATION Spec
INVARIANTS SyncInv GuestEditsOnSnapshot RealtimeInOrder
PROPERTIES AcceptedIsKept
CHECK_DEADLOCK FALSE
