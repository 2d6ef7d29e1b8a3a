SPECIFICATION Spec
CONSTANTS
    Plugin = {p1}
    MaxId = 2
    MaxSignals = 1
    MaxFaults = 0
    MaxDamage = 0
CHECK_DEADLOCK FALSE
INVARIANT HasStart
