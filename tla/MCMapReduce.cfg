CONSTANTS
    Workers = {w1, w2}
    NMap = 2
    NReduce = 2
    Timeout = 0
    MaxCrashes = 1
    RenameCanFail = FALSE
SPECIFICATION FairSpec
INVARIANTS TypeOK ReportAfterCompletion NoMissingFile NoPartialOutput NoEarlyExit
PROPERTIES NeverUndone ImplementsJob Termination
CHECK_DEADLOCK FALSE
