SPECIFICATION FairSpec
CONSTANTS
    NumPlugins = 1
    NumCallbacks = 1
    MaxId = 3
    Interest <- AllEvents
    MaxBatch = 1
    MaxGap = 1
    MaxStaleLag = 1
    AlertThreshold = 2
    ClearThreshold = 0
    MaxSkew = 2
    MaxQueue = 2
    MaxRestarts = 0
    MaxEdits = 0
PROPERTIES
    EveryEventHandled
    AlertClears
