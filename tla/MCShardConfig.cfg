CONSTANTS
    NShards = 4
    Gids = {1, 2, 3, 4, 5}
    MaxNum = 4
SPECIFICATION Spec
CHECK_DEADLOCK FALSE
INVARIANT Balanced
PROPERTY MovesFewest
