SPECIFICATION FairSpec
CONSTANTS
    Task <- MCTask
    TaskId <- MCTaskId
    TaskPriority <- MCTaskPriority
    MaxParallel = 2
    Outsider = {o1}
    Client <- MCClient
    Provider <- MCProvider
    MaxConcurrent <- MCOne
    Priority <- MCPriority
    NoLease = NoLease
INVARIANTS LeaseWhileRunning EveryTaskAccounted
PROPERTIES RefusedOnlyWhenOversubscribed BatchReturns
CHECK_DEADLOCK FALSE
