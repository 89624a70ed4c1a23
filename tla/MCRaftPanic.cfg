CONSTANTS
    Servers = {s1, s2, s3}
    None = None
    MaxElections = 0
    MaxStarts = 3
    MaxBeats = 0
    MaxLosses = 0
    MaxRestarts = 0
SPECIFICATION PanicSpec
SYMMETRY Symmetry
CHECK_DEADLOCK FALSE
INVARIANT NoPanic
