SPECIFICATION FairSpec
CONSTANTS
    w1 = w1
    P = P  Q = Q
    Prewarmer = Prewarmer
    None = None
    Target = Target
    Workers = {w1}
    Projects = {P, Q}
    FirstProject = P
    Lost <- GoneInOne
    Kinds <- SymbolKinds
    MaxEdits = 1
INVARIANTS NoStaleReply FindMatchesEnvelope FocusResolves
PROPERTIES RequestsEnd
CHECK_DEADLOCK FALSE
