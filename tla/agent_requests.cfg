SPECIFICATION Spec
CONSTANTS
    Units <- MCUnits
    Contents <- MCContents
    Facts <- MCFacts
    ItemText <- MCItemText
    MatchOf <- MCMatchOf
    Menus <- MCMenus
    Lightweight = TRUE
    MaxEdits = 1
    PreparedLimit = 2
    RankedLimit = 1
    RankedEntries = 3
    SourceBudget = 14
    CpgLimit = 4
    ChunkWrapper = 2
    SourceWrapper = 3
    RoleChars = 3
    SourceChunk = 4
    CompactChars = 18
    Radix = 4
    Placeholder = 2
INVARIANTS AnswersAreCold PagesAreWhole
CHECK_DEADLOCK FALSE
