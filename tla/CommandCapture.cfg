SPECIFICATION Spec
CONSTANTS
  Commands = {"plain", "claude"}
  Outputs <- MCOutputs
  ExitCodes <- MCExitCodes
  Reads = {"anywhere", "lines"}
INVARIANTS
  ClosedOnlyByMarker
  
  AlignedReadsAreExact
CHECK_DEADLOCK FALSE
