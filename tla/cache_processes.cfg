SPECIFICATION Spec
CONSTANTS
    t1 = t1  t2 = t2  t3 = t3
    d1 = d1  d2 = d2
    p1 = p1  p2 = p2
    c1 = c1  c2 = c2
    None = None
    Junk = Junk
    OldRecords = {None, Junk}
    Threads <- MCThreads
    Procs = {p1, p2}
    Daemons = {d1, d2}
    Confs = {c1, c2}
    ProcOf <- MCProcOf
    ConfOf <- MCConfOf
    OpsOf <- MCOpsOf
    Loads <- AloneOrBeside
    Faults = {"daemonCrash", "clientCrash", "startTimeout", "exchange",
              "interrupt", "slowWrite", "writeFails"}
    MaxFaults = 1
INVARIANTS ProcessExclusion OneDaemon ServingIsRecorded OkHasConf
CONSTRAINT AloneAfterSlip
SYMMETRY AnyDaemon
CHECK_DEADLOCK FALSE
