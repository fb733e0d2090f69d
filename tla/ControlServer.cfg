SPECIFICATION FairSpec
CONSTANTS
  Clients = {c1, c2}
  MaxRequests = 4
  Inputs <- MCInputs
INVARIANTS
  AnswersMatchLines
  HandledInOrder
PROPERTIES
  EveryLineIsAnswered
  QueuedIsHandled
CHECK_DEADLOCK FALSE
