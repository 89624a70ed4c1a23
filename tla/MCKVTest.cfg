CONSTANTS
    Clerks = {c1, c2, ck}
    Keys = {k, c1, c2, l, l0}
    Values <- StoredValues
    Empty = Empty
    MaxVersion = 0
    Checker = ck
    SharedKey = k
    GuardedKey = l0
    LockKey = l
    Unlocked = unlocked
    MaxIter = 2
    MaxRounds = 2
    MaxLosses = 2
    MaxLockLosses = 1
SPECIFICATION TestFairSpec
INVARIANTS
    TestTypeOK NoFatalf OwnPutIsRead AppendsKept HistoryIsLegal
    MutualExclusion NeverFatal ReleaseTakesEffect
PROPERTIES TestEnds
CHECK_DEADLOCK FALSE
