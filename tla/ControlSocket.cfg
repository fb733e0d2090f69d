SPECIFICATION SocketFairSpec
CONSTANTS
  Instances = {a1, a2, a3}
INVARIANTS
  SerialStartsExclude
PROPERTY
  StaleFileIsReplaced
