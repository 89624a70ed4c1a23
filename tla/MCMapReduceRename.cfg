CONSTANTS
    Workers = {w1, w2}
    NMap = 2
    NReduce = 2
    Timeout = 1
    MaxCrashes = 1
    RenameCanFail = TRUE
SPECIFICATION Spec
CHECK_DEADLOCK FALSE
INVARIANTS ReportAfterCompletion
