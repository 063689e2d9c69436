SPECIFICATION WorkspaceSpec
CONSTANTS
    MaxCalls = 4
    MaxParallel = 2
    MaxFaults = 1
INVARIANTS RunsCodeOfTheMoment AloneDoesAsItSays
CHECK_DEADLOCK FALSE
