SPECIFICATION Spec
CONSTANTS
    Agent = {a1, a2}
    MaxItems = 2
    Exchange = {x1, x2, x3}
    Kept = 4
    MaxTodo = 2
    MaxDeaths = 1
SYMMETRY MCSymmetry
INVARIANTS WholeExchangesInOrder SessionRemembers AloneIsAllOrNothing
CHECK_DEADLOCK FALSE
