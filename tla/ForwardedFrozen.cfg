SPECIFICATION ForwardSpec
CONSTANTS
  MaxCommands = 2
  MaxChildren = 1
  MaxBlocks = 3
  MaxQueue = 1
  MaxUnread = 1
  Sizes <- MCSizes
  SpawnSize = "80x24"
  GridSize = "120x36"
PROPERTY
  CompletedBlocksFrozen
CHECK_DEADLOCK FALSE
