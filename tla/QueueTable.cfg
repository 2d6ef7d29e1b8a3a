\* One plugin handed two events, possibly the same twice, of which a snapshot lists
\* one pending; one fault of the database, one restart, a stop at any moment.
SPECIFICATION FairSpec
CONSTANTS
    NumPlugins = 1
    MaxId = 2
    PendingLimit = 1
    MaxDispatched = 2
    MaxFaults = 1
    MaxRestarts = 1
CHECK_DEADLOCK FALSE
INVARIANTS
    QueueInv
    PendingMirrorsQueue
    WorkIsListed
    CleanTableIsMap
    CleanStopEmptiesTable
PROPERTIES
    TableCatchesUp
