SPECIFICATION FairSpec
CONSTANTS
    MaxTurns = 2
    MaxTokens = 3
    HasDeadline = TRUE
    Finalize = TRUE
    Coalesce = TRUE
    Store = "reliable"
    s1 = s1
    SteerMsg <- OneSteer
    MaxRuns = 2
    MaxCalls = 2
    MaxCost = 2
    Null = Null
INVARIANTS ToolCallsAnswered SteeringReachesModel HistoryPreserved CutOffTurnFailsClosed AnswerIsLatest
PROPERTIES NoCallBeyondBudget NothingAfterFinalization RunEnds
CHECK_DEADLOCK FALSE
