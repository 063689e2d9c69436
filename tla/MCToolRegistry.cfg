SPECIFICATION Spec
CONSTANTS
    c1 = c1
    c2 = c2
    t1 = t1
    t2 = t2
    main = main
    view = view
    Name <- MCName
    NoName = NoName
    Registry = {main, view}
    NoRegistry = NoRegistry
    Thread = {t1, t2}
    Similar <- MCSimilar
    Makes <- MCMakes
    Caller = {c1, c2}
    Uses <- MCUses
    Home <- MCHome
    Main = main
    View = view
    InRole = {"read_file"}
    Ask <- MCAsk
    Served = {{"read_file"}}
    Late = {"find_files"}
    Batch <- MCBatch
    Aliases <- MCAliases
    Alias <- MCAlias
    MaxBatches = 2
    MaxChanges = 2
    MaxTicks = 1
SYMMETRY MCSymmetry
INVARIANTS LoadedAsAsked ResolutionIsCurrent BatchAnsweredInOrder RaisesOnlyWhenShared
CHECK_DEADLOCK FALSE
