CONSTANTS
    Servers = {s1, s2, s3}
    None = None
    MaxElections = 0
    MaxStarts = 2
    MaxBeats = 1
    MaxLosses = 0
    MaxRestarts = 0
SPECIFICATION DivergeSpec
SYMMETRY Symmetry
CHECK_DEADLOCK FALSE
INVARIANT StateMachineSafety
