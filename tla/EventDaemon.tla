------------------------------ MODULE EventDaemon ------------------------------
(***************************************************************************)
(* The engine of shotgunEventDaemon.py with one plugin collection: the     *)
(* main thread that fetches events, dispatches them and checkpoints the    *)
(* plugins' cursors, one worker thread per plugin, the event id file, the  *)
(* plugin files on disk, Shotgun's event log, and the ways the process     *)
(* ends and is started again.                                              *)
(*                                                                         *)
(* The main thread and the workers share the plugins' fields.  A worker    *)
(* holds its plugin's lock while the callbacks of one event run; the main  *)
(* thread takes that lock for an instant, so it is a guard (~Locked) of    *)
(* the steps that need it, and the steps without that guard are the ones   *)
(* that interleave with a running callback.                                *)
(***************************************************************************)
EXTENDS Naturals, Sequences, FiniteSets

CONSTANTS
    NumPlugins,       \* plugin files, numbered in the order of their names
    NumCallbacks,     \* callbacks each plugin registers, in order
    MaxId,            \* event ids are 1..MaxId
    Interest,         \* Interest[p]: the ids whose event type p registered for
    MaxBatch,         \* max_event_batch_size
    MaxGap,           \* MAX_BACKLOG_GAP
    MaxStaleLag,      \* MAX_STALE_PLUGIN_LAG
    AlertThreshold,   \* plugin_backlog_alert_threshold
    ClearThreshold,   \* plugin_backlog_clear_threshold
    MaxSkew,          \* bound: ids an event may overtake when it becomes visible
    MaxQueue,         \* bound: events in a plugin's queue
    MaxRestarts,      \* bound: kills and stop requests
    MaxEdits          \* bound: changes of the plugin files

ASSUME ConstantsAssumption ==
    /\ NumPlugins \in Nat \ {0}
    /\ NumCallbacks \in Nat
    /\ MaxId \in Nat \ {0}
    /\ Interest \in [1..NumPlugins -> SUBSET (1..MaxId)]
    /\ {MaxBatch, MaxGap, MaxStaleLag, AlertThreshold, ClearThreshold,
        MaxSkew, MaxQueue, MaxRestarts, MaxEdits} \subseteq Nat

Plugin == 1..NumPlugins
Callback == 1..NumCallbacks
EventId == 1..MaxId
NoId == 0                    \* None in the code; no event has this id
StopSentinel == 0            \* Plugin._stopSentinel, never an event

\* What Plugin.getState returns: the cursor a plugin checkpoints.
Cursor == [last : EventId \cup {NoId}, backlog : SUBSET EventId]
NoCursor == [last |-> NoId, backlog |-> {}]

\* The active flag and registered callbacks a run of Plugin.load may leave.  A
\* plugin may decline to register any (on another site's host); a failing
\* registerCallbacks has registered a prefix of its callbacks.
LoadResult == {<<TRUE, Callback>>, <<TRUE, {}>>}
              \cup {<<FALSE, 1..n>> : n \in 0..NumCallbacks}

\* Why a plugin's cursor may have passed an id (history, not in the code).
Fate == {"open", "done", "before", "expired", "largeGap", "fastForward", "reset"}

VARIABLES
    plugins,                \* the plugins the collection holds
    active, callbacks,      \* Plugin._active; the callbacks that are active
    lastEventId, backlog,   \* Plugin._lastEventId, the keys of Plugin._backlog
    lastDispatchedEventId, queue,
    backlogAlertActive,
    worker, current,        \* the worker thread's state and event
    pc, at,                 \* the main thread: its step, the plugin it is at
    continuing,             \* Engine._continue
    interrupted,            \* the step a signal handler's stop() returns to
    nextEventId, keys, types, batch, listed, maxStateId,   \* its locals
    stateData, stateNames,  \* PluginCollection._stateData and its keys
    eventIdFile, eventIdNames,   \* the file's contents and its keys
    onDisk, modified,       \* plugin files; those newer than Plugin._mtime
    published,              \* ids visible in Shotgun's event log
    restarts, edits,
    fate, clean, rerun,     \* history
    reloaded                \* history: a kept plugin's file was loaded again

cursorVars == <<lastEventId, backlog>>
dispatchVars == <<lastDispatchedEventId, queue>>
loadVars == <<active, callbacks, reloaded>>
workerVars == <<worker, current>>
runVars == <<continuing, interrupted>>
localVars == <<nextEventId, keys, types, batch, listed, maxStateId>>
stateVars == <<stateData, stateNames>>
fileVars == <<eventIdFile, eventIdNames>>
diskVars == <<onDisk, modified>>
boundVars == <<restarts, edits>>
historyVars == <<fate, clean, rerun>>
pluginVars == <<plugins, loadVars, cursorVars, dispatchVars,
                backlogAlertActive, workerVars>>
outsideVars == <<diskVars, published, boundVars>>
storeVars == <<stateVars, fileVars, outsideVars, historyVars>>
vars == <<pluginVars, pc, at, runVars, localVars, storeVars>>

Init ==
    /\ plugins = {}
    /\ active = [p \in Plugin |-> FALSE]
    /\ callbacks = [p \in Plugin |-> {}]
    /\ lastEventId = [p \in Plugin |-> NoId]
    /\ backlog = [p \in Plugin |-> {}]
    /\ lastDispatchedEventId = [p \in Plugin |-> NoId]
    /\ queue = [p \in Plugin |-> <<>>]
    /\ backlogAlertActive = [p \in Plugin |-> FALSE]
    /\ worker = [p \in Plugin |-> "idle"]
    /\ current = [p \in Plugin |-> NoId]
    /\ pc = "down" /\ at = 1
    /\ continuing = TRUE /\ interrupted = "down"
    /\ nextEventId = NoId /\ keys = {} /\ types = {} /\ batch = {}
    /\ listed = {} /\ maxStateId = NoId
    /\ stateData = [p \in Plugin |-> NoCursor] /\ stateNames = {}
    /\ eventIdFile = [p \in Plugin |-> NoCursor] /\ eventIdNames = {}
    /\ onDisk = Plugin
    /\ modified = [p \in Plugin |-> FALSE]
    /\ published = {1}
    /\ restarts = 0 /\ edits = 0
    /\ fate = [p \in Plugin |-> [e \in EventId |-> "open"]]
    /\ clean = [p \in Plugin |-> TRUE]
    /\ rerun = [p \in Plugin |-> FALSE]
    /\ reloaded = [p \in Plugin |-> FALSE]

-----------------------------------------------------------------------------
(* Shared operators *)

\* A worker runs callbacks with its plugin's lock held; any other thread has to
\* wait for it.
Locked(p) == worker[p] \in {"first", "retry"}
FreeWithoutLock(p) == TRUE                                      \* mutant
Free(p) == ~Locked(p)

CursorOf(p) == [last |-> lastEventId[p], backlog |-> backlog[p]]

\* The main thread moves on to the next plugin, or to step `next' after the last.
LoopOver(next) ==
    IF at = NumPlugins THEN at' = 1 /\ pc' = next
                       ELSE at' = at + 1 /\ UNCHANGED pc

\* Plugin.shutdown's message to the worker, behind the events that wait.
SentinelFirst(q) == <<StopSentinel>> \o q                       \* mutant
WithSentinel(q) == Append(q, StopSentinel)

Lower(a, b) == IF a = NoId \/ b < a THEN b ELSE a

\* History: the ids of S that nobody accounted for meet the fate f.
Drop(p, S, f) ==
    fate' = [fate EXCEPT ![p] =
                [e \in EventId |-> IF e \in S /\ @[e] = "open" THEN f ELSE @[e]]]

\* The memory of the process is gone.
Lost ==
    /\ plugins' = {}
    /\ active' = [p \in Plugin |-> FALSE]
    /\ callbacks' = [p \in Plugin |-> {}]
    /\ reloaded' = [p \in Plugin |-> FALSE]
    /\ lastEventId' = [p \in Plugin |-> NoId]
    /\ backlog' = [p \in Plugin |-> {}]
    /\ lastDispatchedEventId' = [p \in Plugin |-> NoId]
    /\ queue' = [p \in Plugin |-> <<>>]
    /\ backlogAlertActive' = [p \in Plugin |-> FALSE]
    /\ worker' = [p \in Plugin |-> "idle"]
    /\ current' = [p \in Plugin |-> NoId]
    /\ pc' = "down" /\ at' = 1
    /\ continuing' = TRUE /\ interrupted' = "down"
    /\ nextEventId' = NoId /\ keys' = {} /\ types' = {} /\ batch' = {}
    /\ listed' = {} /\ maxStateId' = NoId
    /\ stateData' = [p \in Plugin |-> NoCursor] /\ stateNames' = {}

-----------------------------------------------------------------------------
(* Engine._mainLoop's test, and the way out of it *)

LoopTop ==
    /\ pc = "loop"
    /\ pc' = IF continuing THEN "scan" ELSE "exit"
    /\ UNCHANGED <<pluginVars, at, runVars, localVars, storeVars>>

ProcessExit ==
    /\ pc = "exit"
    /\ Lost
    /\ UNCHANGED <<fileVars, outsideVars, historyVars>>

-----------------------------------------------------------------------------
(* Engine._getNewEvents *)

\* The dispatch cursor: the event after the last one queued.
OneTooFar(p) == lastDispatchedEventId[p] + 2                    \* mutant
NextToDispatch(p) == lastDispatchedEventId[p] + 1

\* PluginCollection.getNextUnprocessedEventId: the main thread, without the
\* lock, starts from the dispatch cursor and lists the keys of the backlog.
ScanPlugin ==
    /\ pc = "scan"
    /\ LET p == at IN
        IF p \in plugins /\ active[p]
        THEN /\ nextEventId' = IF lastDispatchedEventId[p] # NoId
                               THEN Lower(nextEventId, NextToDispatch(p))
                               ELSE nextEventId
             /\ keys' = backlog[p]
             /\ pc' = "entries"
             /\ UNCHANGED at
        ELSE /\ LoopOver("types")
             /\ UNCHANGED <<nextEventId, keys>>
    /\ UNCHANGED <<pluginVars, runVars, types, batch, listed, maxStateId,
                   storeVars>>

\* One key of the listed backlog at a time.  The worker may have removed it since
\* it was listed, and reading it raises KeyError in the main thread ...
EntryGone(k) ==
    /\ pc = "entries" /\ k \in keys \ backlog[at]
    /\ pc' = "crashed"
    /\ UNCHANGED <<pluginVars, at, runVars, localVars, storeVars>>

\* ... an entry that is past its time is dropped ...
EntryExpired(k) ==
    /\ pc = "entries" /\ k \in keys \cap backlog[at]
    /\ keys' = keys \ {k}
    /\ backlog' = [backlog EXCEPT ![at] = @ \ {k}]
    /\ Drop(at, {k}, "expired")
    /\ UNCHANGED <<plugins, loadVars, lastEventId, dispatchVars,
                   backlogAlertActive, workerVars, pc, at, runVars, nextEventId,
                   types, batch, listed, maxStateId, stateVars, fileVars,
                   outsideVars, clean, rerun>>

\* ... and any other pulls the fetch back to its id.
EntryForgotten(k) ==                                            \* mutant
    /\ pc = "entries" /\ k \in keys \cap backlog[at]
    /\ keys' = keys \ {k}
    /\ UNCHANGED <<pluginVars, pc, at, runVars, nextEventId, types, batch,
                   listed, maxStateId, storeVars>>
EntryPending(k) ==
    /\ pc = "entries" /\ k \in keys \cap backlog[at]
    /\ keys' = keys \ {k}
    /\ nextEventId' = Lower(nextEventId, k)
    /\ UNCHANGED <<pluginVars, pc, at, runVars, types, batch, listed,
                   maxStateId, storeVars>>

ScanDone ==
    /\ pc = "entries" /\ keys = {}
    /\ IF at = NumPlugins THEN at' = 1 /\ pc' = "types"
                          ELSE at' = at + 1 /\ pc' = "scan"
    /\ UNCHANGED <<pluginVars, runVars, localVars, storeVars>>

\* No plugin has a cursor: nothing is asked of Shotgun.
NothingToFetch ==
    /\ pc = "types" /\ nextEventId = NoId
    /\ pc' = "dispatch" /\ at' = 1
    /\ UNCHANGED <<pluginVars, runVars, localVars, storeVars>>

\* Engine._getRegisteredEventTypes: the active plugins are looked up first ...
CheckActive ==
    /\ pc = "types" /\ nextEventId # NoId
    /\ IF at \in plugins /\ active[at]
       THEN pc' = "lockTypes" /\ UNCHANGED at
       ELSE LoopOver("fetch")
    /\ UNCHANGED <<pluginVars, runVars, localVars, storeVars>>

\* ... and Plugin.getMatchedEventTypes then waits for the plugin's lock.
MatchTypes ==
    /\ pc = "lockTypes" /\ Free(at)
    /\ types' = IF callbacks[at] # {} THEN types \cup Interest[at] ELSE types
    /\ IF at = NumPlugins THEN at' = 1 /\ pc' = "fetch"
                          ELSE at' = at + 1 /\ pc' = "types"
    /\ UNCHANGED <<pluginVars, runVars, nextEventId, keys, batch, listed,
                   maxStateId, storeVars>>

\* The query: visible events of a registered type from nextEventId on, the
\* first MaxBatch of them.  While Shotgun is unreachable the step is not taken.
\* After a stop there is no query.
Fetch ==
    /\ pc = "fetch"
    /\ LET found == {e \in published \cap types : e >= nextEventId} IN
        batch' = IF ~continuing THEN {}
                 ELSE {e \in found : Cardinality({f \in found : f < e}) < MaxBatch}
    /\ pc' = "dispatch" /\ nextEventId' = NoId /\ types' = {}
    /\ UNCHANGED <<pluginVars, at, runVars, keys, listed, maxStateId,
                   storeVars>>

-----------------------------------------------------------------------------
(* Engine._mainLoop: dispatch, checkpoint, alerts *)

\* PluginCollection.process and Plugin.enqueue: the least event of the batch
\* goes to every plugin that is active when its turn comes.
Enqueue(e) ==
    /\ pc = "dispatch" /\ e \in batch
    /\ \A f \in batch : e <= f
    /\ LET p == at IN
        IF p \in plugins /\ active[p]
        THEN /\ Len(queue[p]) < MaxQueue \/ worker[p] = "exited"
             /\ queue' = [queue EXCEPT ![p] = Append(@, e)]
             /\ lastDispatchedEventId' = [lastDispatchedEventId EXCEPT ![p] = e]
        ELSE UNCHANGED dispatchVars
    /\ LoopOver("dispatch")
    /\ batch' = IF at = NumPlugins THEN batch \ {e} ELSE batch
    /\ UNCHANGED <<plugins, loadVars, cursorVars, backlogAlertActive,
                   workerVars, runVars, nextEventId, keys, types, listed,
                   maxStateId, storeVars>>

BatchDone ==
    /\ pc = "dispatch" /\ batch = {}
    /\ pc' = "save" /\ at' = 1
    /\ UNCHANGED <<pluginVars, runVars, localVars, storeVars>>

\* Engine._saveEventIdData, first half: Plugin.getState waits for each lock.
CollectState(from, to) ==
    /\ pc = from
    /\ IF at \in plugins
       THEN /\ Free(at)
            /\ stateData' = [stateData EXCEPT ![at] = CursorOf(at)]
            /\ stateNames' = stateNames \cup {at}
       ELSE UNCHANGED stateVars
    /\ LoopOver(to)
    /\ UNCHANGED <<pluginVars, runVars, localVars, fileVars, outsideVars,
                   historyVars>>

\* Second half: the temporary file replaces the real one, or the write fails
\* and is logged.  With no state at all nothing is written.
WriteState ==
    \/ /\ stateNames # {}
       /\ eventIdFile' = stateData /\ eventIdNames' = stateNames
    \/ UNCHANGED fileVars

WriteFile(from, to) ==
    /\ pc = from
    /\ WriteState
    /\ pc' = to
    /\ UNCHANGED <<pluginVars, at, runVars, localVars, stateVars, outsideVars,
                   historyVars>>

\* Plugin.getPendingCount
PendingCount(p) ==
    IF \/ lastDispatchedEventId[p] = NoId \/ lastEventId[p] = NoId
       \/ lastDispatchedEventId[p] < lastEventId[p]
    THEN 0
    ELSE lastDispatchedEventId[p] - lastEventId[p]

\* The alert, with two thresholds so that it does not flap.
AlertSticks(p) == IF backlogAlertActive[p] THEN PendingCount(p) >= ClearThreshold
                  ELSE PendingCount(p) >= AlertThreshold       \* mutant
Alert(p) == IF backlogAlertActive[p] THEN PendingCount(p) > ClearThreshold
            ELSE PendingCount(p) >= AlertThreshold

\* Engine._checkPluginBacklogs
CheckBacklog ==
    /\ pc = "check"
    /\ IF at \in plugins
       THEN /\ Free(at)
            /\ backlogAlertActive' = [backlogAlertActive EXCEPT ![at] = Alert(at)]
       ELSE UNCHANGED backlogAlertActive
    /\ LoopOver("load")
    /\ UNCHANGED <<plugins, loadVars, cursorVars, dispatchVars, workerVars,
                   runVars, localVars, storeVars>>

-----------------------------------------------------------------------------
(* PluginCollection.load *)

ListPlugins ==
    /\ pc = "load"
    /\ listed' = onDisk
    /\ pc' = "construct"
    /\ UNCHANGED <<pluginVars, at, runVars, nextEventId, keys, types, batch,
                   maxStateId, storeVars>>

\* Plugin.__init__ raises for a new file that is gone since it was listed, and
\* nothing catches it.
ConstructPlugins ==
    /\ pc = "construct"
    /\ pc' = IF listed \ plugins \subseteq onDisk THEN "reload" ELSE "crashed"
    /\ UNCHANGED <<pluginVars, at, runVars, localVars, storeVars>>

\* Plugin.load of a plugin that is already there; if its file is gone since it was
\* listed, the plugin stays as it is.
ReloadPlugin ==
    /\ pc = "reload"
    /\ IF at \in listed \cap plugins \cap onDisk /\ modified[at]
       THEN /\ Free(at)
            /\ \E r \in LoadResult :
                /\ active' = [active EXCEPT ![at] = r[1]]
                /\ callbacks' = [callbacks EXCEPT ![at] = r[2]]
            /\ modified' = [modified EXCEPT ![at] = FALSE]
            /\ reloaded' = [reloaded EXCEPT ![at] = TRUE]
       ELSE UNCHANGED <<loadVars, modified>>
    /\ LoopOver("retire")
    /\ UNCHANGED <<plugins, cursorVars, dispatchVars, backlogAlertActive,
                   workerVars, runVars, localVars, stateVars, fileVars, onDisk,
                   published, boundVars, historyVars>>

\* A plugin whose file is gone: Plugin.shutdown queues the sentinel, if the
\* worker is alive ...
RetirePlugin ==
    /\ pc = "retire"
    /\ IF at \in plugins \ listed
       THEN /\ queue' = [queue EXCEPT ![at] =
                    IF worker[at] = "exited" THEN @ ELSE WithSentinel(@)]
            /\ pc' = "join"
            /\ UNCHANGED at
       ELSE /\ LoopOver("install")
            /\ UNCHANGED queue
    /\ UNCHANGED <<plugins, loadVars, cursorVars, lastDispatchedEventId,
                   backlogAlertActive, workerVars, runVars, localVars,
                   storeVars>>

\* ... and joins the worker.
JoinWorker ==
    /\ pc = "join" /\ worker[at] = "exited"
    /\ IF at = NumPlugins THEN at' = 1 /\ pc' = "install"
                          ELSE at' = at + 1 /\ pc' = "retire"
    /\ UNCHANGED <<pluginVars, runVars, localVars, storeVars>>

\* self._plugins = newPlugins: new plugins (constructed and loaded) come in
\* with no cursor, retired ones go, and with them the cursor they had reached
\* since it was last collected.
InstallPlugins ==
    /\ pc = "install"
    /\ plugins' = listed
    /\ LET kept == plugins \cap listed
           new == listed \ plugins
       IN \E r \in [new -> LoadResult] :
            /\ active' = [p \in Plugin |->
                    IF p \in kept THEN active[p]
                    ELSE IF p \in new THEN r[p][1] ELSE FALSE]
            /\ callbacks' = [p \in Plugin |->
                    IF p \in kept THEN callbacks[p]
                    ELSE IF p \in new THEN r[p][2] ELSE {}]
            /\ reloaded' = [p \in Plugin |-> p \in kept /\ reloaded[p]]
            /\ lastEventId' = [p \in Plugin |-> IF p \in kept THEN lastEventId[p] ELSE NoId]
            /\ backlog' = [p \in Plugin |-> IF p \in kept THEN backlog[p] ELSE {}]
            /\ lastDispatchedEventId' = [p \in Plugin |->
                    IF p \in kept THEN lastDispatchedEventId[p] ELSE NoId]
            /\ queue' = [p \in Plugin |-> IF p \in kept THEN queue[p] ELSE <<>>]
            /\ backlogAlertActive' = [p \in Plugin |->
                    IF p \in kept THEN backlogAlertActive[p] ELSE FALSE]
            /\ worker' = [p \in Plugin |-> IF p \in kept THEN worker[p] ELSE "idle"]
            /\ current' = [p \in Plugin |-> IF p \in kept THEN current[p] ELSE NoId]
            /\ modified' = [p \in Plugin |-> IF p \in new THEN FALSE ELSE modified[p]]
    /\ clean' = [p \in Plugin |->
            IF p \in plugins \ listed THEN FALSE ELSE clean[p]]
    /\ listed' = {}
    /\ pc' = "readState"
    /\ UNCHANGED <<at, runVars, nextEventId, keys, types, batch, maxStateId,
                   stateVars, fileVars, onDisk, published, boundVars, fate,
                   rerun>>

-----------------------------------------------------------------------------
(* Engine._loadEventIdData *)

\* The file is there: its contents become the collection's state, whose
\* greatest id is PluginCollection._getMaxStateEventId.
ReadState ==
    /\ pc = "readState" /\ eventIdNames # {}
    /\ IF plugins = {}
       THEN pc' = "loop" /\ UNCHANGED <<stateVars, maxStateId>>
       ELSE /\ stateData' = eventIdFile /\ stateNames' = eventIdNames
            /\ \E m \in {NoId} \cup {eventIdFile[p].last : p \in eventIdNames} :
                /\ \A p \in eventIdNames : eventIdFile[p].last <= m
                /\ maxStateId' = m
            /\ pc' = "apply"
    /\ UNCHANGED <<pluginVars, at, runVars, nextEventId, keys, types, batch,
                   listed, fileVars, outsideVars, historyVars>>

\* PluginCollection._normalizePluginState
Stale(p) == /\ maxStateId # NoId /\ stateData[p].last # NoId
            /\ maxStateId > stateData[p].last + MaxStaleLag

NormalizedState(p) ==
    IF p \in stateNames /\ ~Stale(p) THEN stateData[p]
    ELSE [last |-> maxStateId, backlog |-> {}]

\* Plugin.setState: only a plugin that nothing was dispatched to takes the state.
AlwaysTakesState(p) == TRUE                                     \* mutant
TakesState(p) == lastDispatchedEventId[p] = NoId

\* PluginCollection.setState for one plugin, Plugin.setState included.
ApplyState ==
    /\ pc = "apply"
    /\ LET p == at
           state == NormalizedState(p)
       IN
        IF p \in plugins /\ (p \in stateNames \/ maxStateId # NoId)
        THEN /\ Free(p)
             /\ stateData' = [stateData EXCEPT ![p] = state]
             /\ stateNames' = stateNames \cup {p}
             /\ IF TakesState(p)
                THEN /\ lastEventId' = [lastEventId EXCEPT ![p] = state.last]
                     /\ backlog' = [backlog EXCEPT ![p] = state.backlog]
                     /\ lastDispatchedEventId' =
                            [lastDispatchedEventId EXCEPT ![p] = state.last]
                     /\ IF state = stateData[p] /\ p \in stateNames
                        THEN UNCHANGED fate
                        ELSE Drop(p, 1..state.last,
                                  IF p \in stateNames THEN "fastForward" ELSE "before")
                ELSE UNCHANGED <<cursorVars, lastDispatchedEventId, fate>>
        ELSE UNCHANGED <<stateVars, cursorVars, lastDispatchedEventId, fate>>
    /\ LoopOver("loop")
    /\ maxStateId' = IF at = NumPlugins THEN NoId ELSE maxStateId
    /\ UNCHANGED <<plugins, loadVars, queue, backlogAlertActive, workerVars,
                   runVars, nextEventId, keys, types, batch, listed, fileVars,
                   outsideVars, clean, rerun>>

\* There is no file: the newest id in Shotgun is every plugin's start.
NoFile ==
    /\ pc = "readState" /\ eventIdNames = {}
    /\ pc' = "askId"
    /\ UNCHANGED <<pluginVars, at, runVars, localVars, storeVars>>

\* _getLastEventIdFromDatabase keeps trying until Shotgun answers, stop or not.
AskLastEventId ==
    /\ pc = "askId"
    /\ \E m \in published :
        /\ \A e \in published : e <= m
        /\ maxStateId' = m
    /\ pc' = "seed"
    /\ UNCHANGED <<pluginVars, at, runVars, nextEventId, keys, types, batch,
                   listed, storeVars>>

SeedState ==
    /\ pc = "seed"
    /\ IF at \in plugins
       THEN /\ Free(at)
            /\ IF TakesState(at)
               THEN /\ lastEventId' = [lastEventId EXCEPT ![at] = maxStateId]
                    /\ lastDispatchedEventId' =
                            [lastDispatchedEventId EXCEPT ![at] = maxStateId]
                    /\ Drop(at, 1..maxStateId, "before")
               ELSE UNCHANGED <<lastEventId, lastDispatchedEventId, fate>>
            /\ stateData' = [stateData EXCEPT ![at] =
                    [last |-> lastEventId'[at], backlog |-> backlog[at]]]
            /\ stateNames' = stateNames \cup {at}
       ELSE UNCHANGED <<lastEventId, lastDispatchedEventId, fate, stateVars>>
    /\ LoopOver("firstSave")
    /\ maxStateId' = IF at = NumPlugins THEN NoId ELSE maxStateId
    /\ UNCHANGED <<plugins, loadVars, backlog, queue, backlogAlertActive,
                   workerVars, runVars, nextEventId, keys, types, batch, listed,
                   fileVars, outsideVars, clean, rerun>>

-----------------------------------------------------------------------------
(* Plugin._workerLoop, Plugin.process *)

\* An event ahead of the cursor; any event, when there is no cursor.
NotNext(p, e) == lastEventId[p] = NoId \/ e > lastEventId[p] + 1  \* mutant
Fresh(p, e) == lastEventId[p] = NoId \/ e > lastEventId[p]

\* The worker takes the next item.  The sentinel ends the thread; an event the
\* cursor has passed is discarded; for any other the worker takes the lock and
\* starts the callbacks, noting whether the event came from the backlog.
TakeItem(p) ==
    /\ worker[p] = "idle" /\ queue[p] # <<>>
    /\ queue' = [queue EXCEPT ![p] = Tail(@)]
    /\ LET e == Head(queue[p]) IN
        IF e = StopSentinel
        THEN worker' = [worker EXCEPT ![p] = "exited"] /\ UNCHANGED current
        ELSE IF e \in backlog[p] \/ Fresh(p, e)
        THEN /\ worker' = [worker EXCEPT ![p] =
                    IF e \in backlog[p] THEN "retry" ELSE "first"]
             /\ current' = [current EXCEPT ![p] = e]
        ELSE UNCHANGED workerVars
    /\ UNCHANGED <<plugins, loadVars, cursorVars, lastDispatchedEventId,
                   backlogAlertActive, pc, at, runVars, localVars, storeVars>>

\* The event is finished with and the lock released.
ReleaseEventOnly(p, state) == current' = [current EXCEPT ![p] = NoId]
                              /\ UNCHANGED worker               \* mutant
Release(p, state) ==
    /\ worker' = [worker EXCEPT ![p] = state]
    /\ current' = [current EXCEPT ![p] = NoId]

\* The ids between the cursor and event e; with no cursor there is no gap.
GapOffByOne(p, e) ==                                            \* mutant
    IF lastEventId[p] = NoId THEN {} ELSE (lastEventId[p] + 2)..(e - 1)
Gap(p, e) ==
    IF lastEventId[p] = NoId THEN {} ELSE (lastEventId[p] + 1)..(e - 1)

SmallGap(p, e) == e <= lastEventId[p] + 1 + MaxGap

\* Plugin._updateLastEventId, for an event that is leaving the backlog or was
\* never in it: a small gap goes to the backlog, a large one is passed over.
UpdateLastEventId(p, e) ==
    /\ backlog' = [backlog EXCEPT ![p] =
            (@ \ {e}) \cup (IF SmallGap(p, e) THEN Gap(p, e) ELSE {})]
    /\ lastEventId' = [lastEventId EXCEPT ![p] = e]

\* History: event e is done, and the ids its cursor passes over are accounted
\* for; running a finished event again counts while nothing excuses it.
RecordDone(p, e) ==
    LET passed == IF lastEventId[p] = NoId THEN 1..(e - 1)
                  ELSE IF SmallGap(p, e) THEN {} ELSE Gap(p, e)
        why == IF lastEventId[p] = NoId THEN "reset" ELSE "largeGap"
    IN  /\ fate' = [fate EXCEPT ![p] = [i \in EventId |->
                IF i = e THEN "done"
                ELSE IF i \in passed \ backlog[p] /\ @[i] = "open" THEN why
                ELSE @[i]]]
        /\ rerun' = [rerun EXCEPT ![p] =
                IF clean[p] /\ fate[p][e] = "done" /\ e \in Interest[p]
                THEN TRUE ELSE @]
        /\ clean' = [clean EXCEPT ![p] = IF e > lastEventId[p] THEN @ ELSE FALSE]

\* The callbacks have run, with no error or with errors that do not stop the
\* plugin, or none was meant for this event; Plugin._process returns _active.
\* The main thread may have dropped the backlog entry in the meantime, and
\* deleting it raises KeyError.
EventHandled(p) ==
    /\ Locked(p) /\ active[p]
    /\ LET e == current[p] IN
        IF worker[p] = "retry" /\ e \notin backlog[p]
        THEN /\ Release(p, "raised")
             /\ UNCHANGED <<cursorVars, historyVars>>
        ELSE /\ UpdateLastEventId(p, e)
             /\ RecordDone(p, e)
             /\ Release(p, "idle")
    /\ UNCHANGED <<plugins, loadVars, dispatchVars, backlogAlertActive, pc, at,
                   runVars, localVars, stateVars, fileVars, outsideVars>>

\* The same in a plugin that is inactive: its cursor stays where it is.
EventIgnored(p) ==
    /\ Locked(p) /\ ~active[p]
    /\ Release(p, "idle")
    /\ UNCHANGED <<plugins, loadVars, cursorVars, dispatchVars,
                   backlogAlertActive, pc, at, runVars, localVars, storeVars>>

\* A callback with stopOnError raises: it is deactivated, the callbacks after
\* it do not run, and the plugin is deactivated.
CallbackFails(p, c) ==
    /\ Locked(p) /\ current[p] \in Interest[p] /\ c \in callbacks[p]
    /\ callbacks' = [callbacks EXCEPT ![p] = @ \ {c}]
    /\ active' = [active EXCEPT ![p] = FALSE]
    /\ Release(p, "idle")
    /\ UNCHANGED <<plugins, reloaded, cursorVars, dispatchVars,
                   backlogAlertActive, pc, at, runVars, localVars, storeVars>>

\* _workerLoop's last resort, after the lock has been released.
DeactivateRaised(p) ==
    /\ worker[p] = "raised"
    /\ active' = [active EXCEPT ![p] = FALSE]
    /\ worker' = [worker EXCEPT ![p] = "idle"]
    /\ UNCHANGED <<plugins, callbacks, reloaded, cursorVars, dispatchVars,
                   backlogAlertActive, current, pc, at, runVars, localVars,
                   storeVars>>

-----------------------------------------------------------------------------
(* The process: start, stop, crash, kill *)

Start ==
    /\ pc = "down"
    /\ pc' = "load"
    /\ UNCHANGED <<pluginVars, at, runVars, localVars, storeVars>>

\* Engine.stop, wherever the main thread is: every plugin's shutdown queues the
\* sentinel behind the events that wait.  SIGINT and SIGUSR1 raise an exception
\* and the process exits after it; the SIGTERM handler calls it and returns to
\* the step it interrupted.  A stop that finds _continue cleared does nothing.
BeginStop ==
    /\ continuing /\ pc \notin {"down", "crashed", "stopping"}
    /\ restarts < MaxRestarts /\ restarts' = restarts + 1
    /\ continuing' = FALSE
    /\ queue' = [p \in Plugin |->
            IF p \in plugins /\ worker[p] # "exited"
            THEN WithSentinel(queue[p]) ELSE queue[p]]
    /\ interrupted' \in {pc, "exit"}
    /\ pc' = "stopping"
    /\ UNCHANGED <<plugins, loadVars, cursorVars, lastDispatchedEventId,
                   backlogAlertActive, workerVars, at, localVars,
                   stateVars, fileVars, diskVars, published, edits,
                   historyVars>>

\* Every worker has been joined: the states reached are collected and saved.
FinishStop ==
    /\ pc = "stopping"
    /\ \A p \in plugins : worker[p] = "exited"
    /\ stateData' = [p \in Plugin |->
            IF p \in plugins THEN CursorOf(p) ELSE stateData[p]]
    /\ stateNames' = stateNames \cup plugins
    /\ \/ /\ stateNames' # {}
          /\ eventIdFile' = stateData' /\ eventIdNames' = stateNames'
          /\ clean' = [p \in Plugin |->
                    clean[p] /\ ~(p \in plugins /\ lastEventId[p] = NoId)]
       \/ /\ UNCHANGED fileVars
          /\ clean' = [p \in Plugin |-> clean[p] /\ stateNames' = {}]
    /\ pc' = interrupted /\ interrupted' = "down"
    /\ UNCHANGED <<pluginVars, at, continuing, localVars, outsideVars, fate,
                   rerun>>

\* The main thread died of an exception.  By the time the exit handlers call
\* stop() no thread pool can be built, so nothing is saved, unless there is no
\* plugin to shut down.
CrashExit ==
    /\ pc = "crashed"
    /\ IF plugins = {} /\ continuing THEN WriteState ELSE UNCHANGED fileVars
    /\ Lost
    /\ clean' = [p \in Plugin |-> FALSE]
    /\ UNCHANGED <<outsideVars, fate, rerun>>

\* SIGKILL, _forceShutdownIfStuck, a power failure, a SIGINT during a stop.
Kill ==
    /\ pc # "down"
    /\ restarts < MaxRestarts /\ restarts' = restarts + 1
    /\ Lost
    /\ clean' = [p \in Plugin |-> FALSE]
    /\ UNCHANGED <<fileVars, diskVars, published, edits, fate, rerun>>

-----------------------------------------------------------------------------
(* Outside the process *)

\* An event becomes visible, perhaps after up to MaxSkew later ids.
Publish(e) ==
    /\ e \in EventId \ published
    /\ \E f \in published : e <= f + 1 + MaxSkew
    /\ published' = published \cup {e}
    /\ UNCHANGED <<pluginVars, pc, at, runVars, localVars, stateVars, fileVars,
                   diskVars, boundVars, historyVars>>

\* Somebody saves, adds or removes a plugin file.
EditFile(p) ==
    /\ edits < MaxEdits /\ edits' = edits + 1
    /\ \/ /\ onDisk' = onDisk \cup {p}
          /\ modified' = [modified EXCEPT ![p] = TRUE]
       \/ /\ p \in onDisk /\ onDisk' = onDisk \ {p}
          /\ UNCHANGED modified
    /\ UNCHANGED <<pluginVars, pc, at, runVars, localVars, stateVars, fileVars,
                   published, restarts, historyVars>>

-----------------------------------------------------------------------------

GetNewEvents ==
    \/ ScanPlugin \/ ScanDone
    \/ \E k \in EventId : EntryGone(k) \/ EntryExpired(k) \/ EntryPending(k)
    \/ NothingToFetch \/ CheckActive \/ MatchTypes \/ Fetch

SaveEventIdData ==
    \/ CollectState("save", "write") \/ WriteFile("write", "check")
    \/ CollectState("firstSave", "firstWrite") \/ WriteFile("firstWrite", "loop")

LoadPlugins ==
    \/ ListPlugins \/ ConstructPlugins \/ ReloadPlugin \/ RetirePlugin \/ JoinWorker \/ InstallPlugins

LoadEventIdData ==
    ReadState \/ ApplyState \/ NoFile \/ AskLastEventId \/ SeedState

MainThread ==
    \/ LoopTop \/ GetNewEvents
    \/ (\E e \in EventId : Enqueue(e)) \/ BatchDone
    \/ SaveEventIdData \/ CheckBacklog
    \/ LoadPlugins \/ LoadEventIdData
    \/ FinishStop \/ ProcessExit \/ CrashExit

RunCallbacks(p) ==
    \/ EventHandled(p) \/ EventIgnored(p)
    \/ \E c \in Callback : CallbackFails(p, c)

WorkerThread(p) == TakeItem(p) \/ RunCallbacks(p) \/ DeactivateRaised(p)

Next ==
    \/ MainThread
    \/ \E p \in Plugin : WorkerThread(p) \/ EditFile(p)
    \/ Start \/ BeginStop \/ Kill
    \/ \E e \in EventId : Publish(e)

Spec == Init /\ [][Next]_vars

\* The threads of the process run, callbacks return, the supervisor starts a
\* process that has ended, and BACKLOG_TIMEOUT is long enough to matter: the
\* entry of a visible event is fetched before it expires, that of an absent one
\* expires in the end.  Nobody has to stop, kill or edit anything, and an id may
\* never become visible.
NextInTime ==
    /\ Next
    /\ \A p \in Plugin : \A e \in published :
        fate[p][e] = "open" => fate'[p][e] # "expired"

Fairness ==
    /\ WF_vars(MainThread) /\ WF_vars(Start)
    /\ \A p \in Plugin : WF_vars(WorkerThread(p))
    /\ \A p \in Plugin, k \in EventId :
        SF_vars(at = p /\ k \notin published /\ EntryExpired(k))

FairSpec == Init /\ [][NextInTime]_vars /\ Fairness

-----------------------------------------------------------------------------
(* Properties *)

CollectionTypeOK ==
    /\ plugins \in SUBSET Plugin
    /\ active \in [Plugin -> BOOLEAN]
    /\ callbacks \in [Plugin -> SUBSET Callback]
    /\ reloaded \in [Plugin -> BOOLEAN]
    /\ backlogAlertActive \in [Plugin -> BOOLEAN]

CursorTypeOK ==
    /\ lastEventId \in [Plugin -> EventId \cup {NoId}]
    /\ backlog \in [Plugin -> SUBSET EventId]
    /\ lastDispatchedEventId \in [Plugin -> EventId \cup {NoId}]

WorkerTypeOK ==
    /\ queue \in [Plugin -> Seq(EventId \cup {StopSentinel})]
    /\ worker \in [Plugin -> {"idle", "first", "retry", "raised", "exited"}]
    /\ current \in [Plugin -> EventId \cup {NoId}]
    /\ \A p \in Plugin : Locked(p) => current[p] \in EventId

Step == {"down", "load", "construct", "reload", "retire", "join", "install", "readState",
         "apply", "askId", "seed", "firstSave", "firstWrite", "loop", "scan",
         "entries", "types", "lockTypes", "fetch", "dispatch", "save", "write",
         "check", "exit", "stopping", "crashed"}

StepTypeOK ==
    /\ pc \in Step
    /\ continuing \in BOOLEAN /\ interrupted \in Step
    /\ at \in Plugin

LocalTypeOK ==
    /\ nextEventId \in 0..(MaxId + 1)
    /\ keys \in SUBSET EventId
    /\ types \in SUBSET EventId
    /\ batch \in SUBSET EventId
    /\ listed \in SUBSET Plugin
    /\ maxStateId \in EventId \cup {NoId}

StateTypeOK ==
    /\ stateData \in [Plugin -> Cursor] /\ stateNames \in SUBSET Plugin
    /\ eventIdFile \in [Plugin -> Cursor] /\ eventIdNames \in SUBSET Plugin

OutsideTypeOK ==
    /\ onDisk \in SUBSET Plugin
    /\ modified \in [Plugin -> BOOLEAN]
    /\ published \in SUBSET EventId
    /\ restarts \in Nat /\ edits \in Nat

HistoryTypeOK ==
    /\ fate \in [Plugin -> [EventId -> Fate]]
    /\ clean \in [Plugin -> BOOLEAN]
    /\ rerun \in [Plugin -> BOOLEAN]

\* Every variable has its type; a worker that holds the lock has an event.
TypeOK ==
    /\ CollectionTypeOK /\ CursorTypeOK /\ WorkerTypeOK
    /\ StepTypeOK /\ LocalTypeOK /\ StateTypeOK
    /\ OutsideTypeOK /\ HistoryTypeOK

\* The ids up to a cursor, or up to an entry of its backlog: a late event moves the
\* cursor back, and leaves entries ahead of it.
Passed(cursor) ==
    {e \in EventId : e <= cursor.last \/ \E b \in cursor.backlog : e <= b}

\* Every id a cursor has passed is done, waits in that cursor's backlog, or was
\* given up for one of the reasons of Fate.
Accounted(p, cursor) ==
    \A e \in Passed(cursor) : e \in cursor.backlog \/ fate[p][e] # "open"

\* No event is lost silently, in memory or in the checkpoint a restart resumes
\* from (_updateLastEventId, _saveEventIdData, _loadEventIdData): whatever the
\* interleaving of dispatch, callbacks, failures, saves and restarts.
NoSilentLoss ==
    \A p \in Plugin :
        /\ Accounted(p, CursorOf(p))
        /\ Accounted(p, eventIdFile[p])

\* The collected state of plugin p may yet be written or restored as it is: a
\* plugin of the collection is collected anew before every write, so only what
\* was collected since then, or is being restored, counts.
CollectedStateCounts(p) ==
    \/ p \notin plugins
    \/ pc \in {"save", "firstSave"} /\ p < at
    \/ pc = "apply" /\ p >= at
    \/ pc \in {"write", "firstWrite", "check", "load", "construct", "reload",
               "retire", "join", "install"}

StateAccounted ==
    \A p \in Plugin : CollectedStateCounts(p) => Accounted(p, stateData[p])

\* The inductive invariant behind NoSilentLoss.
IInv ==
    /\ TypeOK
    /\ pc = "down" => plugins = {}
    /\ pc = "stopping" => interrupted \notin {"down", "stopping"}
    /\ NoSilentLoss
    /\ StateAccounted

\* An event whose callbacks have run is not run again, unless the process died
\* without saving, a write of the file failed, a plugin's file was removed, a
\* plugin had no cursor yet when a stop saved it, or a late event was run, which
\* moves the cursor back (_saveEventIdData, stop, Plugin.process).
NoNeedlessRerun == \A p \in Plugin : ~rerun[p]

\* The dispatch cursor, from which the next fetch starts, may be ahead of what the
\* plugin has reached: every id it has passed is accounted for, waits in the
\* backlog, or precedes an event that is still on its way to the callbacks and
\* will find the gap (NextToDispatch, enqueue, process).  That holds of a plugin
\* that runs; one that failed forgets the events it was sent, and does not recall
\* them when its file is loaded again.
InFlight(p) == ({current[p]} \cup {queue[p][i] : i \in DOMAIN queue[p]}) \ {NoId}

DispatchedIsInFlight ==
    \A p \in plugins : active[p] /\ ~reloaded[p] =>
        \A e \in 1..lastDispatchedEventId[p] :
            \/ fate[p][e] # "open" \/ e \in backlog[p]
            \/ \E f \in InFlight(p) : e <= f

\* While callbacks run, nothing changes under them: no reload swaps the plugin's
\* callbacks, and no loaded state moves its cursor (Plugin._lock).
LockProtectsRun ==
    [][\A p \in Plugin : Locked(p) /\ Locked(p)' =>
            UNCHANGED <<active[p], callbacks[p], lastEventId[p]>>]_vars

\* A worker thread ends only when everything queued for it has been taken
\* (Plugin.shutdown), so a stop saves what was dispatched before it.
ExitedWorkerIsDrained ==
    \A p \in Plugin : worker[p] = "exited" /\ (continuing \/ pc = "stopping") =>
        \A i \in DOMAIN queue[p] : queue[p][i] = StopSentinel

\* A plugin that runs, with callbacks that want events.
Listening(p) == p \in plugins /\ active[p] /\ callbacks[p] # {}

\* Every visible event is in the end run by every plugin, unless it was given up,
\* the plugin registered nothing or it was deactivated (_mainLoop, _getNewEvents).
EveryEventHandled ==
    \A p \in Plugin : \A e \in EventId :
        e \in published ~> (fate[p][e] # "open" \/ (p \in plugins /\ ~Listening(p)))

\* A backlog alert on a plugin that stays active is withdrawn in the end
\* (_checkPluginBacklogs: a plugin that catches up is reported as recovered).
AlertClears ==
    \A p \in Plugin :
        backlogAlertActive[p] ~> (~backlogAlertActive[p] \/ ~active[p])
================================================================================
