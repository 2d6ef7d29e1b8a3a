----------------------------- MODULE MCEventDaemon -----------------------------
(* Definitions that the .cfg files substitute for the constants of EventDaemon. *)
EXTENDS EventDaemonDelivery

\* Every plugin registered for every event type.
AllEvents == [p \in Plugin |-> EventId]

\* Plugin 1 registered for every type, the others for that of the last event.
LastEventOnly == [p \in Plugin |-> IF p = 1 THEN EventId ELSE {MaxId}]
================================================================================
