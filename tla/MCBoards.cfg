CONSTANTS
  b1 = b1
  b2 = b2
  c1 = c1
  c2 = c2
  a1 = a1
  a2 = a2
  a3 = a3
  NoCode = NoCode
  NoBoard = NoBoard
  BoardIDs = {b1, b2}
  JoinCodes = {c1, c2}
  Actors = {a1, a2, a3}
  MaxParticipants = 2
  CodeTTL = 2
  MaxLag = 1
  MaxClock = 3
  owner = owner
  g1 = g1
  g2 = g2
  Owner = owner
  Guests = {g1, g2}
  n1 = n1
  n2 = n2
  Newcomers = {n1, n2}
  MaxVersion = 1
  ip = ip
  key = key
  Addresses = {ip}
  CodeKeys = {key}
  NoCodeKey = NoCodeKey
  conn = conn
  Connections = {conn}
  Limit <- MCLimits
  Window = 3
  MaxDelay = 1
  MaxTime = 6
  EnvNumbers <- MCEnvNumbers
  Word = 64
  Second = 2
  Defaults <- MCDefaults
  Unset = Unset
  Garbage = Garbage
  u1 = u1
  u2 = u2
  padded = padded
  Ids = {u1, u2}
  Padded = {padded}
  Relayed <- MCRelayed
  Numbers <- MCNumbers
  None = None
SPECIFICATION BoardsSpec
SYMMETRY BoardsSymmetry
INVARIANTS
  StoreInv
  PanelsInv OwnerSeesEverybody OneOfTwoSees
  ErrorsHaveCause LetInOnce TargetsAreAwaited
  BurstsBounded RefusedForCause
  LimitsInForce UnderstandEachOther
PROPERTIES
  RevokedAdmitsNobody
  ExpiredStaysExpired
  ActivityNeverLost
CHECK_DEADLOCK FALSE
