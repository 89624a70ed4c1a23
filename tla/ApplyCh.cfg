CONSTANTS
    n = 2
    Driver = Driver
    Free = Free
    MaxIndex = 2
SPECIFICATION FairSpec
PROPERTIES RaftDoesNotBlock
CHECK_DEADLOCK FALSE
