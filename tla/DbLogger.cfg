SPECIFICATION FairSpec
CONSTANTS
    NumRuns = 2
    EventRuns <- FirstRunFailed
    QueueMax = 1
    BatchSize = 2
    FlushRowThreshold = 2
    MaxFaults = 3
    MaxRestarts = 1
INVARIANTS
    NoUnreportedLoss
    NoUnexplainedDouble
    IInv
PROPERTY
    EveryRunCounted
CHECK_DEADLOCK FALSE
