SPECIFICATION AgentSpec
CONSTANTS
    A = "a"
    B = "b"
    Scripts <- MCScripts
    MaxMeddles = 1
INVARIANTS RepliesAreOwn GivesUpForACause
CHECK_DEADLOCK FALSE
