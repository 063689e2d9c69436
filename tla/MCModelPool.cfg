SPECIFICATION ConfiguredSpec
CONSTANTS
    Client = {c1, c2, c3, c4}
    Provider <- MCProvider
    MaxConcurrent <- MCMaxConcurrent
    Priority <- MCPriority
    NoLease = NoLease
INVARIANTS CapacityRespected CapacityAccounting
PROPERTY ImplementsLeases
