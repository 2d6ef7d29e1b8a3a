\* Two tasks, the first with two versions; two edits by people.
SPECIFICATION Spec
CONSTANTS
    NumTasks = 2
    VersionsOf <- TwoVersions
    VersionMapping <- ToVersion
    TaskMapping <- ToTask
    MaxEdits = 2
    MaxDeletes = 1
    MaxInbox = 2
CHECK_DEADLOCK FALSE
INVARIANTS
    SyncInv
    VersionInStep
    NoFinWhileInProgress
    NoWorkOnHeldAsset
    ApprovalDated
