SPECIFICATION FairSpec
CONSTANTS
  Watchers = {w1, w2}
  MaxEvents = 3
  Limit = 2
  MaxSeq = 5
  MaxLives = 3
INVARIANTS
  SameNumberSameEvent
PROPERTIES
  GapsOnlyWhenFarBehind
  CatchesUp
CHECK_DEADLOCK FALSE
