SPECIFICATION FairSpec
CONSTANTS
  MaxCommands = 2
  MaxChildren = 2
  MaxBlocks = 3
  MaxQueue = 1
  MaxUnread = 2
  Sizes <- MCSizes
  SpawnSize = "80x24"
  GridSize = "120x36"
INVARIANTS
  StreamingIsActive
  NoOrphanShell
PROPERTIES
  CompletedBlocksFrozen
  ReportedExitIsReal
  ImplementsLedger
  DeadShellClosesCommand
CHECK_DEADLOCK FALSE
