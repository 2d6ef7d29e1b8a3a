SPECIFICATION Spec
CONSTANTS
    NumPlugins = 1
    NumCallbacks = 1
    MaxId = 4
    Interest <- AllEvents
    MaxBatch = 2
    MaxGap = 1
    MaxStaleLag = 1
    AlertThreshold = 2
    ClearThreshold = 0
    MaxSkew = 3
    MaxQueue = 1
    MaxRestarts = 1
    MaxEdits = 1
INVARIANTS
    DaemonInv
    NoSilentLoss
    NoNeedlessRerun
    ExitedWorkerIsDrained
PROPERTIES
    LockProtectsRun
    ImplementsDelivery
