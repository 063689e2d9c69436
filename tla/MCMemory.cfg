SPECIFICATION MemorySpec
CONSTANTS
    Id = {i1, i2, i3}
    TopK = 1
    Oversample = 2
    MaxScan = 2
    MaxRow = 3
SYMMETRY MCSymmetry
INVARIANTS IndexAgrees FoundWasWanted WantedIsFound
CHECK_DEADLOCK FALSE
