-------------------------- MODULE EventDaemonDelivery --------------------------
(***************************************************************************)
(* EventDaemon implements Delivery.  An id is reached by a cursor that has *)
(* passed it and does not list it in its backlog; what was delivered or    *)
(* given up is in the history.                                             *)
(***************************************************************************)
EXTENDS EventDaemonInvariants

handledBar == [p \in Plugin |-> {e \in EventId : fate[p][e] = "done"}]
waivedBar == [p \in Plugin |-> {e \in EventId : fate[p][e] \notin {"open", "done"}}]
reachedBar == [p \in Plugin |-> PassedBy(CursorOf(p))]
savedBar == [p \in Plugin |-> PassedBy(eventIdFile[p])]

Promise == INSTANCE Delivery WITH
    handled <- handledBar, waived <- waivedBar, reached <- reachedBar,
    saved <- savedBar

\* Every step of the engine, its threads, its crashes and restarts is a step of
\* Delivery or changes nothing there (_mainLoop, Plugin.process,
\* _updateLastEventId, _saveEventIdData, _loadEventIdData).
ImplementsDelivery == Promise!Spec
================================================================================
