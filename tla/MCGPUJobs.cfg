SPECIFICATION FairJobSpec
CONSTANTS
    Job = {j1, j2}
    MaxRetained = 1
INVARIANTS StatusIsTrue
PROPERTIES FinishedOnce EveryJobFinishes
CHECK_DEADLOCK FALSE
