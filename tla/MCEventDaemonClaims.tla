-------------------------- MODULE MCEventDaemonClaims --------------------------
EXTENDS EventDaemonClaims
AllEvents == [p \in Plugin |-> EventId]
================================================================================
