CONSTANTS
    Servers = {s1, s2, s3}
    None = None
    MaxElections = 2
    MaxStarts = 2
    MaxBeats = 1
    MaxLosses = 1
    MaxRestarts = 1
SPECIFICATION ChangesSpec
SYMMETRY Symmetry
CHECK_DEADLOCK FALSE
INVARIANTS TypeOK LogIndexed
PROPERTY TermsGrow
