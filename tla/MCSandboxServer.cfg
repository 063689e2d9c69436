SPECIFICATION FairSpec
CONSTANTS
    Client = {c1, c2}
    MaxRequests = 3
    MaxConns = 2
    MaxCrashes = 2
INVARIANTS OwnAnswerUntilTimeout HistorySurvives
PROPERTY CallReturns
CHECK_DEADLOCK FALSE
