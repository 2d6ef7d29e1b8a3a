\* One plugin, one event, no faults: the signal arrives inside a locked section.
SPECIFICATION FairSpec
CONSTANTS
    NumPlugins = 1
    MaxId = 1
    PendingLimit = 1
    MaxDispatched = 1
    MaxFaults = 0
    MaxRestarts = 0
CHECK_DEADLOCK FALSE
PROPERTIES
    ShutdownEnds
