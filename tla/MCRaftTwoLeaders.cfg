CONSTANTS
    Servers = {s1, s2, s3}
    None = None
    MaxElections = 2
    MaxStarts = 0
    MaxBeats = 1
    MaxLosses = 0
    MaxRestarts = 0
SPECIFICATION Spec
SYMMETRY Symmetry
CHECK_DEADLOCK FALSE
INVARIANT ElectionSafety
