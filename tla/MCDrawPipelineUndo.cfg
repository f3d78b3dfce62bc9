CONSTANTS
  aShape = aShape
  aStroke = aStroke
  ownStroke = ownStroke
  Objects = {aShape, aStroke, ownStroke}
  OwnIds = {ownStroke}
  NoObject = NoObject
  NoElement = NoElement
  NoEntry = NoEntry
  Actors = {"a", "b"}
  Me = "me"
  Actions <- MCActions
  Looks <- MCLooks
  Strokes <- MCStrokes
  Picks <- MCPicks
  Snapshots <- MCSnapshots
  HistoryLimit = 2
  BatchSize = 2
  MaxPoints = 3
  MaxSequence = 4
  MaxTurns = 3
SPECIFICATION PipelineSpec
PROPERTIES UndoKeepsOthersWork
CHECK_DEADLOCK FALSE
