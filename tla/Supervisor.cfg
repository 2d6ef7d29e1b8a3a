\* Two supervisors, either launch mode, two events of any kind after the first
\* start: a crash, hang or kill, a failing ps, a reload, a stop, a daemon started
\* or stopped by hand, or a second supervisor.
SPECIFICATION FairSpec
CONSTANTS
    NumPids = 4
    Sups = {s1, s2}
    Cli = cli
    Tools = {}
    Modes = {"start", "foreground"}
    MaxFaults = 2
    MaxPsFaults = 1
    MaxPulls = 1
    MaxManual = 1
    MaxStops = 1
    MaxEvents = 2
CHECK_DEADLOCK FALSE
INVARIANTS
    SupInv
    OneActiveSupervisor
    OneLaunchedDaemon
    CleanStop
    NoLostReload
PROPERTIES
    Recovers
    StopEnds
