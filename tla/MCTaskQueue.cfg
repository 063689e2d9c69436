SPECIFICATION Spec
CONSTANTS
    Agent = {a1, a2}
    Idea <- MCIdea
    MultiLine <- MCMultiLine
    AssetOf <- MCAssetOf
    MaxFailures = 1
    None = None
INVARIANTS JournalInOrder IdsNameOneIdea TableKeepsUp
CHECK_DEADLOCK FALSE
