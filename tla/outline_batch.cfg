SPECIFICATION FairSpec
CONSTANTS
    Count = 4
    Cpus = 4
    Shares = 8
    Settings = {0, 1, 2}
    Faults = {"noPool", "poolBreaks", "taskError", "parse", "callback", "callbackOSError"}
INVARIANTS WindowIsBounded
PROPERTIES KeepsPromise BatchEnds
CHECK_DEADLOCK FALSE
