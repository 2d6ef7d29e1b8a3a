\* The repair runs once, at any moment, beside up to two supervisors and one
\* further event: a crash, a hang, a slow start, a kill, or a second supervisor.
SPECIFICATION FixFairSpec
CONSTANTS
    NumPids = 4
    Sups = {s1, s2}
    Cli = cli
    Fix = fix
    Tools = {fix}
    Modes = {"start"}
    MaxFaults = 1
    MaxPsFaults = 0
    MaxPulls = 0
    MaxManual = 0
    MaxStops = 0
    MaxEvents = 1
CHECK_DEADLOCK FALSE
INVARIANTS
    RepairInv
PROPERTIES
    Recovers
    FixLeavesDaemon
