SPECIFICATION FairSpec
CONSTANTS
    Plugin = {p1, p2}
    MaxId = 2
    MaxSignals = 2
    MaxFaults = 1
    MaxDamage = 1
CHECK_DEADLOCK FALSE
INVARIANTS
    FileInv
    StopPersists
    FileLoads
    NothingSkipped
PROPERTIES
    StopEnds
