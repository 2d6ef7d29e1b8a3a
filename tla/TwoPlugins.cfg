SPECIFICATION Spec
CONSTANTS
    NumPlugins = 2
    NumCallbacks = 2
    MaxId = 3
    Interest <- LastEventOnly
    MaxBatch = 2
    MaxGap = 1
    MaxStaleLag = 1
    AlertThreshold = 2
    ClearThreshold = 0
    MaxSkew = 1
    MaxQueue = 1
    MaxRestarts = 1
    MaxEdits = 0
INVARIANTS
    NoNeedlessRerun
    DispatchedIsInFlight
