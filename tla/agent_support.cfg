SPECIFICATION SupportSpec
CONSTANTS
    LF = "LF"
    CR = "CR"
    MaxRecord = 2
    Roots <- MCRoots
    Calls <- MCCalls
    Call <- MCCall
    Hosts <- MCHosts
    Disks <- MCDisks
    MaxFaults = 1
    Exporters = {"first", "second", "third"}
    MaxFailures = 2
INVARIANTS AnswersMatch InstallIsAllOrNothing RecordsAreFramed
PROPERTIES BundleIsNeverTorn CallsSettle
CHECK_DEADLOCK FALSE
