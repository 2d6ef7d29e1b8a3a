SPECIFICATION Spec
CONSTANTS
    NumPlugins = 1
    NumCallbacks = 1
    MaxId = 3
    Interest <- AllEvents
    MaxBatch = 3
    MaxGap = 1
    MaxStaleLag = 9
    AlertThreshold = 3
    ClearThreshold = 0
    MaxSkew = 1
    MaxQueue = 3
    MaxRestarts = 0
    MaxEdits = 0
INVARIANT MainThreadSurvives
