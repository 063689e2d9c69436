SPECIFICATION Spec
CONSTANTS
    Agent = {a1, a2}
    MaxEntries = 4
    MaxCreates = 2
    MaxFaults = 1
SYMMETRY MCSymmetry
INVARIANTS HoldsWhatItTold OwnEntriesInOrder
CHECK_DEADLOCK FALSE
