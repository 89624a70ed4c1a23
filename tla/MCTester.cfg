CONSTANTS
    s1 = s1
    s2 = s2
    s3 = s3
    Servers = {s1, s2, s3}
    Order <- MCOrder
    Targets = {s1, s2}
    Clerk = clerk
    CallIds = {c1}
    Partitions <- MCPartitions
    MaxOps = 13
    MaxCallOps = 3
SPECIFICATION TestSpec
CHECK_DEADLOCK FALSE
INVARIANTS RegisteredIsLive PositiveRepliesArePersisted KilledAreCutOff LinksAreWhole
INVARIANTS FailuresAreShown NothingStray
PROPERTIES ImplementsRPC CallsReturn
