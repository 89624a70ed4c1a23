CONSTANTS
    Servers = {s1, s2, s3}
    None = None
    MaxElections = 2
    MaxStarts = 2
    MaxBeats = 1
    MaxLosses = 1
    MaxRestarts = 0
SPECIFICATION ReplicationSpec
CHECK_DEADLOCK FALSE
INVARIANTS NoPanic LogMatching CommittedOnMajority AcknowledgedHeld MajorityWakes
PROPERTIES StartedAreApplied ElectionsEnd
