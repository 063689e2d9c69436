SPECIFICATION Spec
CONSTANTS
    l1 = l1
    l2 = l2
    Loop <- TwoLoops
    Prompt <- SamePrompt
    Exclusive = TRUE
    MaxRetries = 1
    MaxRuns = 1
    MaxTurns = 2
    MaxAnswers = 5
INVARIANTS FullContext InstructionsFollow
CHECK_DEADLOCK FALSE
