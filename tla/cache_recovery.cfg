SPECIFICATION FairSpec
CONSTANTS
    t1 = t1  t2 = t2  t3 = t3
    d1 = d1  d2 = d2
    p1 = p1  p2 = p2
    c1 = c1  c2 = c2
    None = None
    Junk = Junk
    OldRecords = {None}
    Threads <- PairThreads
    Procs = {p1, p2}
    Daemons = {d1, d2}
    Confs = {c1, c2}
    ProcOf <- TwoProcs
    ConfOf <- SameConf
    OpsOf <- StartAndAll
    Loads <- OnceEach
    Faults = {"daemonCrash", "clientCrash", "startTimeout", "exchange",
              "interrupt", "writeFails"}
    MaxFaults = 1
INVARIANTS FailedStartLeavesNothing StoppedIsGone
PROPERTIES OperationEnds CrashedHolderIsReplaced
CHECK_DEADLOCK FALSE
