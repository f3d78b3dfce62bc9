CONSTANTS
  aShape = aShape
  aStroke = aStroke
  ownStroke = ownStroke
  Objects = {aShape, aStroke, ownStroke}
  OwnIds = {ownStroke}
  NoObject = NoObject
  NoElement = NoElement
  NoEntry = NoEntry
  Actors = {"a", "b"}
  Me = "me"
  Actions <- MCActions
  Looks <- MCLooks
  Strokes <- MCStrokes
  Picks <- MCPicks
  Snapshots <- MCSnapshots
  HistoryLimit = 2
  BatchSize = 2
  MaxPoints = 3
  MaxSequence = 4
  MaxTurns = 4
  good = good
  flawed = flawed
  h1 = h1
  h2 = h2
  Elements = {good, flawed}
  WellFormed = {good}
  BoardNames = {h1, h2}
  ForeignFiles <- MCFiles
  MaxSteps = 4
  SceneElements <- MCSceneElements
  Padding = 4
  MinimumWidth = 10
  MinimumHeight = 3
  MaxDrawn = 2
  DefaultCode = DefaultCode
  NoCode = NoCode
  newCode = newCode
  ShellCodes = {DefaultCode, newCode}
  PageTools = {"select", "pen", "text"}
  PaletteOptions = {"Amber", "Sky", "Mint"}
  BrushPresets = {4, 6}
  g1 = g1
  g2 = g2
  Owner = owner
  owner = owner
  Guests = {g1, g2}
  MaxEdits = 1
  MaxVisits = 2
SPECIFICATION WhiteboardSpec
SYMMETRY GuestSymmetry
INVARIANTS WhiteboardInv EditorSound AppliedOnce PointsAreSent PictureHoldsBoard
  EditsArrive OwnerHasEverything
PROPERTIES AppliedInOrder Spec PageSound
CHECK_DEADLOCK FALSE
