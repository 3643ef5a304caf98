SPECIFICATION Spec
CONSTANTS
    u = u
    v = v
    first = first
    second = second
    library = library
    None = None
    Content <- MCContent
    Files = {u, v}
    Listed = {u, v}
    TextsOf <- MCTextsOf
    FirstDisk <- MCFirstDisk
    Queries <- MCQueries
    Positions <- MCPositions
    Threads = 2
    CacheSize = 1
    Loads <- MCLoads
INVARIANT WorkspaceIsCurrent
PROPERTIES AnswersAreCurrent RenameReplacesAll
CHECK_DEADLOCK FALSE
