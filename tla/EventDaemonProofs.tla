--------------------------- MODULE EventDaemonProofs ---------------------------
(***************************************************************************)
(* Theorems about EventDaemon for every value of its constants: the type   *)
(* invariant, that no event is lost silently, and that EventDaemon         *)
(* implements Delivery.                                                    *)
(*                                                                         *)
(* The frame lemmas say which steps may change which part of the state;    *)
(* a later lemma about a part then has to look at those steps only.        *)
(* DeliveryInv is inductive, and from a state that satisfies it every step *)
(* is a step of Delivery or changes nothing there.                         *)
(***************************************************************************)
EXTENDS EventDaemonDelivery, SequenceTheorems, TLAPS

USE DEF vars, pluginVars, cursorVars, dispatchVars, loadVars, workerVars,
        runVars, localVars, stateVars, fileVars, diskVars, boundVars,
        historyVars, outsideVars, storeVars

-----------------------------------------------------------------------------
(* Frame lemmas *)

\* The plugins of the collection, their active flags, callbacks and alerts are
\* changed by alerts, loads and failures only.
LEMMA CollectionFrame ==
    [Next]_vars =>
        \/ UNCHANGED <<plugins, loadVars, backlogAlertActive>>
        \/ Lost \/ CheckBacklog \/ ReloadPlugin \/ InstallPlugins
        \/ \E p \in Plugin : DeactivateRaised(p)
        \/ \E p \in Plugin, c \in Callback : CallbackFails(p, c)
  BY DEF Next, MainThread, GetNewEvents, SaveEventIdData, LoadPlugins,
         LoadEventIdData, WorkerThread, RunCallbacks, LoopTop, ProcessExit,
         ScanPlugin, ScanDone, EntryGone, EntryExpired, EntryPending,
         NothingToFetch, CheckActive, MatchTypes, Fetch, Enqueue, BatchDone,
         CollectState, WriteFile, ListPlugins, ConstructPlugins, RetirePlugin,
         JoinWorker, ReadState, ApplyState, NoFile, AskLastEventId, SeedState,
         FinishStop, CrashExit, Start, BeginStop, Kill, TakeItem, EventHandled,
         EventIgnored, Publish, EditFile

\* The cursors move when events are dispatched or done, when backlog entries
\* expire, and when state is restored.
LEMMA CursorFrame ==
    [Next]_vars =>
        \/ UNCHANGED <<lastEventId, backlog, lastDispatchedEventId>>
        \/ Lost \/ InstallPlugins \/ ApplyState \/ SeedState
        \/ \E e \in EventId : EntryExpired(e) \/ Enqueue(e)
        \/ \E p \in Plugin : EventHandled(p)
  BY DEF Next, MainThread, GetNewEvents, SaveEventIdData, LoadPlugins,
         LoadEventIdData, WorkerThread, RunCallbacks, LoopTop, ProcessExit,
         ScanPlugin, ScanDone, EntryGone, EntryPending, NothingToFetch,
         CheckActive, MatchTypes, Fetch, BatchDone, CollectState, WriteFile,
         CheckBacklog, ListPlugins, ConstructPlugins, ReloadPlugin,
         RetirePlugin, JoinWorker, ReadState, NoFile, AskLastEventId,
         FinishStop, CrashExit, Start, BeginStop, Kill, TakeItem, EventIgnored,
         CallbackFails, DeactivateRaised, Publish, EditFile

\* Queues and workers are changed by the workers, by dispatch, and by shutdowns.
LEMMA WorkerFrame ==
    [Next]_vars =>
        \/ UNCHANGED <<queue, worker, current>>
        \/ Lost \/ RetirePlugin \/ InstallPlugins \/ BeginStop
        \/ \E e \in EventId : Enqueue(e)
        \/ \E p \in Plugin : \/ TakeItem(p) \/ EventHandled(p)
                             \/ EventIgnored(p) \/ DeactivateRaised(p)
        \/ \E p \in Plugin, c \in Callback : CallbackFails(p, c)
  BY DEF Next, MainThread, GetNewEvents, SaveEventIdData, LoadPlugins,
         LoadEventIdData, WorkerThread, RunCallbacks, LoopTop, ProcessExit,
         ScanPlugin, ScanDone, EntryGone, EntryExpired, EntryPending,
         NothingToFetch, CheckActive, MatchTypes, Fetch, BatchDone,
         CollectState, WriteFile, CheckBacklog, ListPlugins, ConstructPlugins,
         ReloadPlugin, JoinWorker, ReadState, ApplyState, NoFile,
         AskLastEventId, SeedState, FinishStop, CrashExit, Start, Kill, Publish,
         EditFile

\* The main thread's locals belong to the fetch, the loads and the restores.
LEMMA LocalFrame ==
    [Next]_vars =>
        \/ UNCHANGED localVars
        \/ Lost \/ ScanPlugin \/ MatchTypes \/ Fetch \/ ListPlugins
        \/ InstallPlugins \/ ReadState \/ ApplyState \/ AskLastEventId \/ SeedState
        \/ \E e \in EventId : EntryExpired(e) \/ EntryPending(e) \/ Enqueue(e)
  BY DEF Next, MainThread, GetNewEvents, SaveEventIdData, LoadPlugins,
         LoadEventIdData, WorkerThread, RunCallbacks, LoopTop, ProcessExit,
         ScanDone, EntryGone, NothingToFetch, CheckActive, BatchDone,
         CollectState, WriteFile, CheckBacklog, ConstructPlugins, ReloadPlugin,
         RetirePlugin, JoinWorker, NoFile, FinishStop, CrashExit, Start,
         BeginStop, Kill, TakeItem, EventHandled, EventIgnored, CallbackFails,
         DeactivateRaised, Publish, EditFile

\* The collected states and the event id file change when states are collected,
\* written or restored.
LEMMA StateFrame ==
    [Next]_vars =>
        \/ UNCHANGED <<stateVars, fileVars>>
        \/ ReadState \/ ApplyState \/ SeedState \/ FinishStop
        \/ CollectState("save", "write") \/ CollectState("firstSave", "firstWrite")
        \/ WriteFile("write", "check") \/ WriteFile("firstWrite", "loop")
        \/ CrashExit
        \/ Lost /\ UNCHANGED fileVars
  BY DEF Next, MainThread, GetNewEvents, SaveEventIdData, LoadPlugins,
         LoadEventIdData, WorkerThread, RunCallbacks, LoopTop, ProcessExit,
         ScanPlugin, ScanDone, EntryGone, EntryExpired, EntryPending,
         NothingToFetch, CheckActive, MatchTypes, Fetch, Enqueue, BatchDone,
         CheckBacklog, ListPlugins, ConstructPlugins, ReloadPlugin,
         RetirePlugin, JoinWorker, InstallPlugins, NoFile, AskLastEventId,
         Start, BeginStop, Kill, TakeItem, EventHandled, EventIgnored,
         CallbackFails, DeactivateRaised, Publish, EditFile

\* The outside world changes by itself; the program notices edited files and is
\* stopped or killed.
LEMMA OutsideFrame ==
    [Next]_vars =>
        \/ UNCHANGED outsideVars
        \/ ReloadPlugin \/ InstallPlugins \/ BeginStop \/ Kill
        \/ \E e \in EventId : Publish(e)
        \/ \E p \in Plugin : EditFile(p)
  BY DEF Next, MainThread, GetNewEvents, SaveEventIdData, LoadPlugins,
         LoadEventIdData, WorkerThread, RunCallbacks, LoopTop, ProcessExit,
         ScanPlugin, ScanDone, EntryGone, EntryExpired, EntryPending,
         NothingToFetch, CheckActive, MatchTypes, Fetch, Enqueue, BatchDone,
         CollectState, WriteFile, CheckBacklog, ListPlugins, ConstructPlugins,
         RetirePlugin, JoinWorker, ReadState, ApplyState, NoFile,
         AskLastEventId, SeedState, FinishStop, CrashExit, Start, TakeItem,
         EventHandled, EventIgnored, CallbackFails, DeactivateRaised

\* Ids meet their fate when they are done, expire, or a cursor is restored.
LEMMA FateFrame ==
    [Next]_vars =>
        \/ UNCHANGED fate
        \/ ApplyState \/ SeedState
        \/ \E e \in EventId : EntryExpired(e)
        \/ \E p \in Plugin : EventHandled(p)
  BY DEF Next, MainThread, GetNewEvents, SaveEventIdData, LoadPlugins,
         LoadEventIdData, WorkerThread, RunCallbacks, LoopTop, ProcessExit,
         ScanPlugin, ScanDone, EntryGone, EntryPending, NothingToFetch,
         CheckActive, MatchTypes, Fetch, Enqueue, BatchDone, CollectState,
         WriteFile, CheckBacklog, ListPlugins, ConstructPlugins, ReloadPlugin,
         RetirePlugin, JoinWorker, InstallPlugins, ReadState, NoFile,
         AskLastEventId, FinishStop, CrashExit, Start, BeginStop, Kill,
         TakeItem, EventIgnored, CallbackFails, DeactivateRaised, Publish,
         EditFile

\* The excuses for running an event again are the lost or stale checkpoints.
LEMMA ExcuseFrame ==
    [Next]_vars =>
        \/ UNCHANGED <<clean, rerun>>
        \/ InstallPlugins \/ FinishStop \/ CrashExit \/ Kill
        \/ \E p \in Plugin : EventHandled(p)
  BY DEF Next, MainThread, GetNewEvents, SaveEventIdData, LoadPlugins,
         LoadEventIdData, WorkerThread, RunCallbacks, LoopTop, ProcessExit,
         ScanPlugin, ScanDone, EntryGone, EntryExpired, EntryPending,
         NothingToFetch, CheckActive, MatchTypes, Fetch, Enqueue, BatchDone,
         CollectState, WriteFile, CheckBacklog, ListPlugins, ConstructPlugins,
         ReloadPlugin, RetirePlugin, JoinWorker, ReadState, ApplyState, NoFile,
         AskLastEventId, SeedState, Start, BeginStop, TakeItem, EventIgnored,
         CallbackFails, DeactivateRaised, Publish, EditFile

-----------------------------------------------------------------------------
(* Types *)

\* What a run of Plugin.load leaves, whether it succeeds or fails half-way.
LEMMA LoadResultType ==
    \A r \in LoadResult : r[1] \in BOOLEAN /\ r[2] \in SUBSET Callback
<1> TAKE r \in LoadResult
<1>1. CASE r = <<TRUE, Callback>> \/ r = <<TRUE, {}>>
  <2>1. CASE r = <<TRUE, Callback>>
    BY <2>1
  <2>2. CASE r = <<TRUE, {}>>
    BY <2>2
  <2> QED BY <1>1, <2>1, <2>2
<1>2. CASE r \in {<<FALSE, 1..n>> : n \in 0..NumCallbacks}
  <2>1. PICK n \in 0..NumCallbacks : r = <<FALSE, 1..n>>
    BY <1>2
  <2>2. 1..n \in SUBSET Callback
    BY ConstantsAssumption DEF Callback
  <2> QED BY <2>1, <2>2
<1> QED BY <1>1, <1>2 DEF LoadResult

\* The loop over the plugins stays among them and ends in the next step.
LEMMA LoopOverType ==
    ASSUME NEW next, at \in Plugin, LoopOver(next)
    PROVE  at' \in Plugin /\ pc' \in {pc, next}
  BY ConstantsAssumption DEF LoopOver, Plugin

\* The loop over the plugins starts at a plugin.
LEMMA FirstPlugin == 1 \in Plugin
  BY ConstantsAssumption DEF Plugin

\* The plugin after one that is not the last is a plugin.
LEMMA NextPlugin == \A p \in Plugin : p # NumPlugins => p + 1 \in Plugin
  BY ConstantsAssumption DEF Plugin

\* The plugins and their callbacks keep their types.
LEMMA CollectionType == TypeOK /\ [Next]_vars => CollectionTypeOK'
<1> SUFFICES ASSUME TypeOK, [Next]_vars PROVE CollectionTypeOK'
  OBVIOUS
<1> USE DEF CollectionTypeOK
<1>1. CASE UNCHANGED <<plugins, loadVars, backlogAlertActive>>
  BY <1>1 DEF TypeOK
<1>2. CASE Lost
  BY <1>2 DEF Lost
<1>3. CASE CheckBacklog
  <2>1. \A p \in Plugin : Alert(p) \in BOOLEAN
    <3> TAKE p \in Plugin
    <3>1. (PendingCount(p) > ClearThreshold) \in BOOLEAN
      OBVIOUS
    <3>2. (PendingCount(p) >= AlertThreshold) \in BOOLEAN
      OBVIOUS
    <3> QED BY <3>1, <3>2, Zenon DEF Alert
  <2> QED BY <1>3, <2>1 DEF CheckBacklog, TypeOK
<1>4. CASE ReloadPlugin
  BY <1>4, LoadResultType DEF ReloadPlugin, TypeOK
<1>5. CASE InstallPlugins
  <2>1. plugins' \in SUBSET Plugin /\ backlogAlertActive' \in [Plugin -> BOOLEAN]
    BY <1>5 DEF InstallPlugins, TypeOK, LocalTypeOK
  <2>2. PICK r \in [listed \ plugins -> LoadResult] :
            /\ active' = [p \in Plugin |->
                    IF p \in plugins \cap listed THEN active[p]
                    ELSE IF p \in listed \ plugins THEN r[p][1] ELSE FALSE]
            /\ callbacks' = [p \in Plugin |->
                    IF p \in plugins \cap listed THEN callbacks[p]
                    ELSE IF p \in listed \ plugins THEN r[p][2] ELSE {}]
    BY <1>5 DEF InstallPlugins
  <2>3. \A p \in listed \ plugins : r[p][1] \in BOOLEAN /\ r[p][2] \in SUBSET Callback
    BY LoadResultType
  <2>4. reloaded' \in [Plugin -> BOOLEAN]
    <3>1. reloaded' = [p \in Plugin |-> p \in plugins \cap listed /\ reloaded[p]]
      BY <1>5 DEF InstallPlugins
    <3> QED BY <3>1, Zenon
  <2> QED BY <2>1, <2>2, <2>3, <2>4 DEF TypeOK
<1>6. CASE \E p \in Plugin : DeactivateRaised(p)
  BY <1>6 DEF DeactivateRaised, TypeOK
<1>7. CASE \E p \in Plugin, c \in Callback : CallbackFails(p, c)
  BY <1>7 DEF CallbackFails, TypeOK
<1> QED
  BY <1>1, <1>2, <1>3, <1>4, <1>5, <1>6, <1>7, CollectionFrame

\* The ids of a gap lie between the last id and the event.
LEMMA GapBounds ==
    ASSUME NEW p \in Plugin, NEW e \in EventId, lastEventId[p] \in EventId \cup {NoId}
    PROVE  \A i \in Gap(p, e) : i \in EventId /\ i < e /\ i > lastEventId[p]
<1> DEFINE l == lastEventId[p]
<1>1. CASE l = NoId
  BY <1>1 DEF Gap
<1>2. CASE l # NoId
  <2>1. /\ l \in Nat /\ l >= 1 /\ e \in Nat /\ e <= MaxId /\ MaxId \in Nat
    BY <1>2, ConstantsAssumption DEF EventId
  <2>2. Gap(p, e) = (l + 1)..(e - 1)
    BY <1>2 DEF Gap
  <2> HIDE DEF l
  <2>3. \A i \in (l + 1)..(e - 1) : i \in 1..MaxId /\ i < e /\ i > l
    BY <2>1
  <2> QED BY <2>2, <2>3 DEF EventId, l
<1> QED BY <1>1, <1>2

\* The ids before an event.
LEMMA BelowBounds ==
    ASSUME NEW e \in EventId
    PROVE  \A i \in 1..(e - 1) : i \in EventId /\ i < e
<1>1. e \in Nat /\ e <= MaxId /\ MaxId \in Nat
  BY ConstantsAssumption DEF EventId
<1> QED BY <1>1 DEF EventId

\* The cursors and backlogs of the plugins keep their types.
LEMMA CursorType == TypeOK /\ [Next]_vars => CursorTypeOK'
<1> SUFFICES ASSUME TypeOK, [Next]_vars PROVE CursorTypeOK'
  OBVIOUS
<1> USE DEF CursorTypeOK
<1>1. CASE UNCHANGED <<lastEventId, backlog, lastDispatchedEventId>>
  BY <1>1 DEF TypeOK
<1>2. CASE Lost
  BY <1>2 DEF Lost
<1>3. CASE InstallPlugins
  BY <1>3 DEF InstallPlugins, TypeOK
<1>4. CASE ApplyState
  <2>1. NormalizedState(at).last \in EventId \cup {NoId}
        /\ NormalizedState(at).backlog \in SUBSET EventId
    BY DEF TypeOK, StepTypeOK, StateTypeOK, LocalTypeOK, NormalizedState, Cursor
  <2> QED BY <1>4, <2>1 DEF ApplyState, TypeOK
<1>5. CASE SeedState
  BY <1>5 DEF SeedState, TypeOK, LocalTypeOK
<1>6. CASE \E e \in EventId : EntryExpired(e)
  BY <1>6, ZenonT(60) DEF EntryExpired, TypeOK
<1>7. CASE \E e \in EventId : Enqueue(e)
  BY <1>7 DEF Enqueue, TypeOK
<1>8. CASE \E p \in Plugin : EventHandled(p)
  <2>1. PICK p \in Plugin : EventHandled(p)
    BY <1>8
  <2>2. current[p] \in EventId
    BY <2>1 DEF EventHandled, TypeOK, WorkerTypeOK
  <2>3. Gap(p, current[p]) \in SUBSET EventId
    BY <2>2, GapBounds DEF TypeOK
  <2> QED BY <2>1, <2>2, <2>3 DEF EventHandled, UpdateLastEventId, TypeOK
<1> QED
  BY <1>1, <1>2, <1>3, <1>4, <1>5, <1>6, <1>7, <1>8, CursorFrame

\* The queues and worker threads keep their types, and a worker that holds the lock
\* has an event.
LEMMA WorkerType == TypeOK /\ [Next]_vars => WorkerTypeOK'
<1> SUFFICES ASSUME TypeOK, [Next]_vars PROVE WorkerTypeOK'
  OBVIOUS
<1> DEFINE Item == EventId \cup {StopSentinel}
<1> USE DEF WorkerTypeOK, Locked
<1>1. CASE UNCHANGED <<queue, worker, current>>
  BY <1>1 DEF TypeOK
<1>2. CASE Lost
  BY <1>2 DEF Lost
<1>3. \A p \in Plugin : WithSentinel(queue[p]) \in Seq(Item)
  BY DEF TypeOK, WithSentinel
<1>4. CASE RetirePlugin
  BY <1>3, <1>4 DEF RetirePlugin, TypeOK
<1>5. CASE BeginStop
  BY <1>3, <1>5 DEF BeginStop, TypeOK
<1>6. CASE InstallPlugins
  BY <1>6 DEF InstallPlugins, TypeOK
<1>7. ASSUME NEW e \in EventId, Enqueue(e) PROVE WorkerTypeOK'
  <2>1. \A p \in Plugin : Append(queue[p], e) \in Seq(Item)
    BY DEF TypeOK
  <2> QED BY <1>7, <2>1, ZenonT(60) DEF Enqueue, TypeOK
<1>8. ASSUME NEW p \in Plugin, TakeItem(p) PROVE WorkerTypeOK'
  <2>1. Head(queue[p]) \in Item /\ Tail(queue[p]) \in Seq(Item)
    <3>1. queue[p] \in Seq(Item) /\ queue[p] # <<>>
      BY <1>8 DEF TakeItem, TypeOK
    <3> QED BY <3>1, HeadTailProperties
  <2> QED BY <1>8, <2>1 DEF TakeItem, TypeOK
<1>9. ASSUME NEW p \in Plugin, EventHandled(p) PROVE WorkerTypeOK'
  <2>1. \E state \in {"raised", "idle"} : Release(p, state)
    BY <1>9 DEF EventHandled
  <2>2. UNCHANGED queue
    BY <1>9 DEF EventHandled
  <2> QED BY <2>1, <2>2 DEF Release, TypeOK
<1>10. CASE \E p \in Plugin : EventIgnored(p)
  BY <1>10 DEF EventIgnored, Release, TypeOK
<1>11. CASE \E p \in Plugin : DeactivateRaised(p)
  BY <1>11 DEF DeactivateRaised, TypeOK
<1>12. CASE \E p \in Plugin, c \in Callback : CallbackFails(p, c)
  BY <1>12 DEF CallbackFails, Release, TypeOK
<1> QED
  BY <1>1, <1>2, <1>4, <1>5, <1>6, <1>7, <1>8, <1>9, <1>10, <1>11, <1>12,
     WorkerFrame

\* The step the main thread is at: the loops over the plugins stay among them, and
\* only stop() nests a step in another.
LEMMA StepType == TypeOK /\ [Next]_vars => StepTypeOK'
<1> SUFFICES ASSUME TypeOK, [Next]_vars PROVE StepTypeOK'
  OBVIOUS
<1> USE DEF StepTypeOK, Step
<1>1. pc \in Step /\ at \in Plugin
      /\ continuing \in BOOLEAN /\ interrupted \in Step
  BY DEF TypeOK
<1>2. at # NumPlugins => at + 1 \in Plugin
  BY <1>1, NextPlugin
<1>3. CASE GetNewEvents
  BY <1>1, <1>2, <1>3, FirstPlugin, LoopOverType
     DEF GetNewEvents, ScanPlugin, ScanDone, EntryGone, EntryExpired,
         EntryPending, NothingToFetch, CheckActive, MatchTypes, Fetch
<1>4. CASE (\E e \in EventId : Enqueue(e)) \/ BatchDone \/ CheckBacklog
  BY <1>1, <1>4, FirstPlugin, LoopOverType DEF Enqueue, BatchDone, CheckBacklog
<1>5. CASE SaveEventIdData
  BY <1>1, <1>5, LoopOverType DEF SaveEventIdData, CollectState, WriteFile
<1>6. CASE LoadPlugins
  <2>1. CASE ListPlugins \/ JoinWorker \/ InstallPlugins
    BY <1>1, <1>2, <2>1, FirstPlugin, ZenonT(60) DEF ListPlugins, JoinWorker, InstallPlugins
  <2>2. CASE ReloadPlugin
    BY <1>1, <2>2, LoopOverType DEF ReloadPlugin
  <2>3. CASE RetirePlugin
    BY <1>1, <2>3, LoopOverType DEF RetirePlugin
  <2>4. CASE ConstructPlugins
    <3>1. pc' \in {"reload", "crashed"} /\ UNCHANGED <<at, continuing, interrupted>>
      BY <2>4 DEF ConstructPlugins
    <3> QED BY <1>1, <3>1
  <2> QED BY <1>6, <2>1, <2>2, <2>3, <2>4 DEF LoadPlugins
<1>7. CASE LoadEventIdData
  BY <1>1, <1>7, LoopOverType
     DEF LoadEventIdData, ReadState, ApplyState, NoFile, AskLastEventId,
         SeedState
<1>8. CASE LoopTop \/ FinishStop \/ Start
  BY <1>1, <1>8 DEF LoopTop, FinishStop, Start
<1>9. CASE ProcessExit \/ CrashExit \/ Kill
  BY <1>9, FirstPlugin DEF ProcessExit, CrashExit, Kill, Lost
<1>10. CASE BeginStop
  BY <1>1, <1>10 DEF BeginStop
<1>11. CASE \E p \in Plugin : WorkerThread(p) \/ EditFile(p)
  BY <1>1, <1>11
     DEF WorkerThread, RunCallbacks, TakeItem, EventHandled, EventIgnored,
         CallbackFails, DeactivateRaised, EditFile
<1>12. CASE \E e \in EventId : Publish(e)
  BY <1>1, <1>12 DEF Publish
<1>13. CASE UNCHANGED vars
  BY <1>1, <1>13
<1> QED
  BY <1>3, <1>4, <1>5, <1>6, <1>7, <1>8, <1>9, <1>10, <1>11, <1>12, <1>13
     DEF Next, MainThread

\* The locals of the main thread keep their types.
LEMMA LocalType == TypeOK /\ [Next]_vars => LocalTypeOK'
<1> SUFFICES ASSUME TypeOK, [Next]_vars PROVE LocalTypeOK'
  OBVIOUS
<1> USE DEF LocalTypeOK
<1>1. CASE UNCHANGED localVars
  BY <1>1 DEF TypeOK
<1>2. CASE Lost
  BY <1>2, ConstantsAssumption DEF Lost, NoId
<1>3. CASE ScanPlugin
  <2>1. lastDispatchedEventId[at] \in 0..MaxId /\ backlog[at] \in SUBSET EventId
    BY ConstantsAssumption, SMTT(30) DEF TypeOK, CursorTypeOK, StepTypeOK, EventId, NoId
  <2>2. nextEventId \in 0..(MaxId + 1) /\ MaxId \in Nat
    BY ConstantsAssumption DEF TypeOK
  <2>3. NextToDispatch(at) \in 0..(MaxId + 1)
    BY <2>1, <2>2 DEF NextToDispatch
  <2>4. Lower(nextEventId, NextToDispatch(at)) \in 0..(MaxId + 1)
    BY <2>2, <2>3 DEF Lower
  <2> QED BY <1>3, <2>1, <2>4 DEF ScanPlugin, TypeOK
<1>4. CASE MatchTypes
  <2>1. Interest[at] \in SUBSET EventId
    BY ConstantsAssumption DEF TypeOK, StepTypeOK, Plugin, EventId
  <2> QED BY <1>4, <2>1 DEF MatchTypes, TypeOK
<1>5. CASE Fetch
  BY <1>5, ConstantsAssumption DEF Fetch, TypeOK, OutsideTypeOK, NoId
<1>6. CASE ListPlugins
  BY <1>6 DEF ListPlugins, TypeOK, OutsideTypeOK
<1>7. CASE InstallPlugins
  BY <1>7 DEF InstallPlugins, TypeOK
<1>8. CASE ReadState
  <2>1. \A p \in eventIdNames : eventIdFile[p].last \in EventId \cup {NoId}
    BY DEF TypeOK, StateTypeOK, Cursor
  <2> QED BY <1>8, <2>1 DEF ReadState, TypeOK
<1>9. CASE ApplyState
  BY <1>9 DEF ApplyState, TypeOK
<1>10. CASE AskLastEventId
  BY <1>10 DEF AskLastEventId, TypeOK, OutsideTypeOK
<1>11. CASE SeedState
  BY <1>11 DEF SeedState, TypeOK
<1>12. CASE \E e \in EventId : EntryExpired(e)
  BY <1>12 DEF EntryExpired, TypeOK
<1>13. CASE \E e \in EventId : EntryPending(e)
  <2>1. \A e \in EventId : Lower(nextEventId, e) \in 0..(MaxId + 1)
    BY ConstantsAssumption DEF TypeOK, Lower, EventId
  <2> QED BY <1>13, <2>1 DEF EntryPending, TypeOK
<1>14. CASE \E e \in EventId : Enqueue(e)
  BY <1>14 DEF Enqueue, TypeOK
<1> QED
  BY <1>1, <1>2, <1>3, <1>4, <1>5, <1>6, <1>7, <1>8, <1>9, <1>10, <1>11,
     <1>12, <1>13, <1>14, LocalFrame

\* A plugin's cursor and backlog make a state that can be collected.
LEMMA CursorOfType ==
    \A p \in Plugin : CursorTypeOK => CursorOf(p) \in Cursor
  BY DEF CursorTypeOK, CursorOf, Cursor

\* A state put right for a plugin is a cursor that plugin may take.
LEMMA NormalizedStateType ==
    \A p \in Plugin : TypeOK => NormalizedState(p) \in Cursor
  BY DEF TypeOK, StateTypeOK, LocalTypeOK, NormalizedState, Cursor

\* The collected states and the event id file keep their types.
LEMMA StateType == TypeOK /\ [Next]_vars => StateTypeOK'
<1> SUFFICES ASSUME TypeOK, [Next]_vars PROVE StateTypeOK'
  OBVIOUS
<1> USE DEF StateTypeOK
<1>1. \A p \in Plugin : CursorOf(p) \in Cursor
  BY CursorOfType DEF TypeOK
<1>2. at \in Plugin
  BY DEF TypeOK, StepTypeOK
<1>3. CASE UNCHANGED <<stateVars, fileVars>>
  BY <1>3 DEF TypeOK
<1>4. CASE ReadState
  BY <1>4 DEF ReadState, TypeOK
<1>5. CASE ApplyState
  BY <1>2, <1>5, NormalizedStateType DEF ApplyState, TypeOK
<1>6. CASE SeedState
  <2>1. [last |-> lastEventId'[at], backlog |-> backlog[at]] \in Cursor
    BY <1>2, CursorType DEF CursorTypeOK, TypeOK, Cursor
  <2> QED BY <1>2, <1>6, <2>1 DEF SeedState, TypeOK
<1>7. CASE FinishStop
  <2>1. stateData' \in [Plugin -> Cursor] /\ stateNames' \in SUBSET Plugin
    BY <1>1, <1>7 DEF FinishStop, TypeOK, CollectionTypeOK
  <2> QED BY <1>7, <2>1 DEF FinishStop, TypeOK
<1>8. CASE CollectState("save", "write") \/ CollectState("firstSave", "firstWrite")
  BY <1>1, <1>2, <1>8 DEF CollectState, TypeOK
<1>9. CASE WriteFile("write", "check") \/ WriteFile("firstWrite", "loop")
  BY <1>9 DEF WriteFile, WriteState, TypeOK
<1>10. CASE CrashExit \/ (Lost /\ UNCHANGED fileVars)
  BY <1>10 DEF CrashExit, WriteState, Lost, NoCursor, Cursor, TypeOK
<1> QED
  BY <1>3, <1>4, <1>5, <1>6, <1>7, <1>8, <1>9, <1>10, StateFrame

\* What Shotgun shows and the plugin files keep their types.
LEMMA OutsideType == TypeOK /\ [Next]_vars => OutsideTypeOK'
<1> SUFFICES ASSUME TypeOK, [Next]_vars PROVE OutsideTypeOK'
  OBVIOUS
<1> USE DEF OutsideTypeOK
<1>1. CASE UNCHANGED outsideVars
  BY <1>1 DEF TypeOK
<1>2. CASE ReloadPlugin
  BY <1>2 DEF ReloadPlugin, TypeOK
<1>3. CASE InstallPlugins
  BY <1>3 DEF InstallPlugins, TypeOK
<1>4. CASE BeginStop
  BY <1>4 DEF BeginStop, TypeOK
<1>5. CASE Kill
  BY <1>5 DEF Kill, TypeOK
<1>6. CASE \E e \in EventId : Publish(e)
  BY <1>6 DEF Publish, TypeOK
<1>7. CASE \E p \in Plugin : EditFile(p)
  <2>1. \A p \in Plugin : [modified EXCEPT ![p] = TRUE] \in [Plugin -> BOOLEAN]
    BY DEF TypeOK
  <2>2. edits' \in Nat /\ onDisk' \in SUBSET Plugin
    BY <1>7 DEF EditFile, TypeOK
  <2>3. modified' \in [Plugin -> BOOLEAN]
    BY <1>7, <2>1 DEF EditFile, TypeOK
  <2> QED BY <1>7, <2>2, <2>3 DEF EditFile, TypeOK
<1> QED
  BY <1>1, <1>2, <1>3, <1>4, <1>5, <1>6, <1>7, OutsideFrame

\* Giving up ids for a reason of Fate leaves every other fate alone.
LEMMA DropType ==
    ASSUME HistoryTypeOK, NEW p \in Plugin, NEW S, NEW f \in Fate, Drop(p, S, f)
    PROVE  fate' \in [Plugin -> [EventId -> Fate]]
  BY DEF Drop, HistoryTypeOK

\* The history variables keep their types.
LEMMA HistoryType == TypeOK /\ [Next]_vars => HistoryTypeOK'
<1> SUFFICES ASSUME TypeOK, [Next]_vars PROVE HistoryTypeOK'
  OBVIOUS
<1>1. at \in Plugin
  BY DEF TypeOK, StepTypeOK
<1>2. fate' \in [Plugin -> [EventId -> Fate]]
  <2>1. CASE UNCHANGED fate
    BY <2>1 DEF TypeOK, HistoryTypeOK
  <2>2. CASE ApplyState
    <3>1. \/ UNCHANGED fate
          \/ \E f \in {"fastForward", "before"} :
                Drop(at, 1..NormalizedState(at).last, f)
      BY <2>2 DEF ApplyState
    <3> QED BY <1>1, <3>1, DropType DEF TypeOK, HistoryTypeOK, Fate
  <2>3. CASE SeedState
    <3>1. UNCHANGED fate \/ Drop(at, 1..maxStateId, "before")
      BY <2>3 DEF SeedState
    <3> QED BY <1>1, <3>1, DropType DEF TypeOK, HistoryTypeOK, Fate
  <2>4. CASE \E e \in EventId : EntryExpired(e)
    <3>1. \E e \in EventId : Drop(at, {e}, "expired")
      BY <2>4 DEF EntryExpired
    <3> QED BY <1>1, <3>1, DropType DEF TypeOK, Fate
  <2>5. ASSUME NEW p \in Plugin, EventHandled(p)
        PROVE  fate' \in [Plugin -> [EventId -> Fate]]
    <3>1. UNCHANGED fate \/ RecordDone(p, current[p])
      BY <2>5 DEF EventHandled
    <3>2. ASSUME NEW S, NEW why \in Fate,
                 fate' = [fate EXCEPT ![p] = [i \in EventId |->
                    IF i = current[p] THEN "done"
                    ELSE IF i \in S /\ @[i] = "open" THEN why ELSE @[i]]]
          PROVE  fate' \in [Plugin -> [EventId -> Fate]]
      BY <3>2 DEF TypeOK, HistoryTypeOK, Fate
    <3>3. CASE RecordDone(p, current[p])
      <4> DEFINE e == current[p]
                 passed == IF lastEventId[p] = NoId THEN 1..(e - 1)
                           ELSE IF SmallGap(p, e) THEN {} ELSE Gap(p, e)
                 why == IF lastEventId[p] = NoId THEN "reset" ELSE "largeGap"
      <4>1. fate' = [fate EXCEPT ![p] = [i \in EventId |->
                    IF i = e THEN "done"
                    ELSE IF i \in passed \ backlog[p] /\ @[i] = "open" THEN why
                    ELSE @[i]]]
        BY <3>3 DEF RecordDone
      <4>2. why \in Fate
        BY DEF Fate
      <4> HIDE DEF passed, why
      <4> QED BY <3>2, <4>1, <4>2
    <3> QED BY <3>1, <3>3 DEF TypeOK, HistoryTypeOK
  <2> QED BY <2>1, <2>2, <2>3, <2>4, <2>5, FateFrame
<1>3. clean' \in [Plugin -> BOOLEAN] /\ rerun' \in [Plugin -> BOOLEAN]
  <2> USE DEF HistoryTypeOK
  <2>1. CASE UNCHANGED <<clean, rerun>>
    BY <2>1 DEF TypeOK
  <2>2. CASE InstallPlugins
    BY <2>2 DEF InstallPlugins, TypeOK
  <2>3. CASE FinishStop
    BY <2>3 DEF FinishStop, TypeOK
  <2>4. CASE CrashExit \/ Kill
    BY <2>4 DEF CrashExit, Kill, TypeOK
  <2>5. CASE \E p \in Plugin : EventHandled(p)
    BY <2>5 DEF EventHandled, RecordDone, TypeOK
  <2> QED BY <2>1, <2>2, <2>3, <2>4, <2>5, ExcuseFrame
<1> QED BY <1>2, <1>3 DEF HistoryTypeOK

\* The initial state has the types of TypeOK.
LEMMA TypeInit == Init => TypeOK
<1> SUFFICES ASSUME Init PROVE TypeOK
  OBVIOUS
<1>1. 1 \in EventId /\ NoId \in 0..(MaxId + 1)
  BY ConstantsAssumption DEF EventId, NoId
<1>2. CollectionTypeOK /\ CursorTypeOK /\ LocalTypeOK
  BY <1>1 DEF Init, CollectionTypeOK, CursorTypeOK, LocalTypeOK
<1>3. WorkerTypeOK
  BY DEF Init, WorkerTypeOK, Locked
<1>4. StepTypeOK
  BY FirstPlugin DEF Init, StepTypeOK, Step
<1>5. StateTypeOK
  BY DEF Init, StateTypeOK, NoCursor, Cursor
<1>6. OutsideTypeOK /\ HistoryTypeOK
  BY <1>1 DEF Init, OutsideTypeOK, HistoryTypeOK, Fate
<1> QED BY <1>2, <1>3, <1>4, <1>5, <1>6 DEF TypeOK

\* Every step keeps all the types.
LEMMA TypeStep == TypeOK /\ [Next]_vars => TypeOK'
  BY CollectionType, CursorType, WorkerType, StepType, LocalType, StateType,
     OutsideType, HistoryType DEF TypeOK

\* Every variable has its type in every reachable state, and a worker that holds
\* its plugin's lock has an event to run the callbacks for.
THEOREM TypeCorrect == Spec => []TypeOK
  BY TypeInit, TypeStep, PTL DEF Spec

-----------------------------------------------------------------------------
(* No silent loss *)

\* What has been accounted for stays so.
FateKept ==
    \A p \in Plugin, e \in EventId : fate[p][e] # "open" => fate'[p][e] # "open"

\* Accounted(p, cursor) in the next state, for a cursor of this one.
AccountedNext(p, cursor) ==
    \A e \in Passed(cursor) : e \in cursor.backlog \/ fate'[p][e] # "open"

\* A cursor that was never set has passed nothing.
LEMMA PassedNothing == Passed(NoCursor) = {}
  BY ConstantsAssumption DEF Passed, NoCursor, NoId, EventId

\* Drop accounts for the ids it is given and for no other.
LEMMA DropEffect ==
    ASSUME HistoryTypeOK, NEW q \in Plugin, NEW S, NEW f \in Fate \ {"open"},
           Drop(q, S, f)
    PROVE  FateKept /\ \A e \in S \cap EventId : fate'[q][e] # "open"
  BY DEF Drop, HistoryTypeOK, FateKept, Fate

\* So does finishing an event, for the event and the ids before it.
LEMMA DoneEffect ==
    ASSUME TypeOK, NEW q \in Plugin, NEW e \in EventId, RecordDone(q, e)
    PROVE  /\ FateKept
           /\ fate'[q][e] # "open"
           /\ lastEventId[q] = NoId =>
                \A i \in 1..(e - 1) : i \in backlog[q] \/ fate'[q][i] # "open"
           /\ lastEventId[q] # NoId /\ ~SmallGap(q, e) =>
                \A i \in Gap(q, e) : i \in backlog[q] \/ fate'[q][i] # "open"
<1> DEFINE passed == IF lastEventId[q] = NoId THEN 1..(e - 1)
                     ELSE IF SmallGap(q, e) THEN {} ELSE Gap(q, e)
           why == IF lastEventId[q] = NoId THEN "reset" ELSE "largeGap"
<1>1. fate' = [fate EXCEPT ![q] = [i \in EventId |->
            IF i = e THEN "done"
            ELSE IF i \in passed \ backlog[q] /\ @[i] = "open" THEN why ELSE @[i]]]
  BY DEF RecordDone
<1>2. why # "open"
  OBVIOUS
<1>3. \A i \in passed : i \in EventId
  BY GapBounds, BelowBounds DEF TypeOK, CursorTypeOK
<1>4. /\ FateKept /\ fate'[q][e] # "open"
      /\ \A i \in passed : i \in backlog[q] \/ fate'[q][i] # "open"
  <2> HIDE DEF passed, why
  <2> QED BY <1>1, <1>2, <1>3 DEF FateKept, TypeOK, HistoryTypeOK
<1> QED BY <1>4

\* An id of a plugin that has a fate keeps one.
LEMMA FateIsKept == TypeOK /\ [Next]_vars => FateKept
<1> SUFFICES ASSUME TypeOK, [Next]_vars PROVE FateKept
  OBVIOUS
<1>1. at \in Plugin /\ HistoryTypeOK
  BY DEF TypeOK, StepTypeOK
<1>2. CASE UNCHANGED fate
  BY <1>2 DEF FateKept
<1>3. CASE ApplyState
  <2>1. \/ UNCHANGED fate
        \/ \E f \in {"fastForward", "before"} :
                Drop(at, 1..NormalizedState(at).last, f)
    BY <1>3 DEF ApplyState
  <2> QED BY <1>1, <2>1, DropEffect DEF FateKept, Fate
<1>4. CASE SeedState
  <2>1. UNCHANGED fate \/ Drop(at, 1..maxStateId, "before")
    BY <1>4 DEF SeedState
  <2> QED BY <1>1, <2>1, DropEffect DEF FateKept, Fate
<1>5. CASE \E e \in EventId : EntryExpired(e)
  <2>1. \E e \in EventId : Drop(at, {e}, "expired")
    BY <1>5 DEF EntryExpired
  <2> QED BY <1>1, <2>1, DropEffect DEF Fate
<1>6. ASSUME NEW p \in Plugin, EventHandled(p) PROVE FateKept
  <2>1. current[p] \in EventId
    BY <1>6 DEF EventHandled, TypeOK, WorkerTypeOK
  <2>2. UNCHANGED fate \/ RecordDone(p, current[p])
    BY <1>6 DEF EventHandled
  <2> QED BY <2>1, <2>2, DoneEffect DEF FateKept
<1> QED BY <1>2, <1>3, <1>4, <1>5, <1>6, FateFrame

\* A cursor that is accounted for stays so while fates are kept.
LEMMA AccountedIsKept ==
    ASSUME TypeOK, FateKept, NEW p \in Plugin, NEW c \in Cursor, Accounted(p, c)
    PROVE  AccountedNext(p, c)
  BY DEF Accounted, AccountedNext, FateKept, Passed

\* A plugin's cursor stays accounted for when its plugin finishes an event ...
LEMMA HandledAccounted ==
    ASSUME TypeOK, NEW p \in Plugin, EventHandled(p), Accounted(p, CursorOf(p))
    PROVE  AccountedNext(p, CursorOf(p)')
<1> DEFINE e == current[p]
           l == lastEventId[p]
<1>1. e \in EventId /\ l \in EventId \cup {NoId} /\ backlog[p] \in SUBSET EventId
  BY DEF EventHandled, TypeOK, WorkerTypeOK, CursorTypeOK
<1>2. CASE UNCHANGED <<cursorVars, historyVars>>
  BY <1>2 DEF Accounted, AccountedNext, CursorOf
<1>3. CASE UpdateLastEventId(p, e) /\ RecordDone(p, e)
  <2>1. lastEventId'[p] = e
        /\ backlog'[p] = (backlog[p] \ {e})
                         \cup (IF SmallGap(p, e) THEN Gap(p, e) ELSE {})
    BY <1>3 DEF UpdateLastEventId, TypeOK, CursorTypeOK
  <2>2. SUFFICES ASSUME NEW i \in EventId, i # e, i \notin backlog'[p],
                        i <= e \/ \E b \in backlog'[p] : i <= b
                 PROVE  fate'[p][i] # "open"
    BY <1>1, <1>3, <2>1, DoneEffect DEF AccountedNext, CursorOf, Passed
  <2>3. i \notin backlog[p]
    BY <2>1, <2>2
  <2>4. CASE i \in Passed(CursorOf(p))
    <3>1. fate[p][i] # "open"
      BY <2>3, <2>4 DEF Accounted, CursorOf
    <3> QED BY <1>1, <1>3, <3>1, DoneEffect DEF FateKept
  <2>5. CASE i \notin Passed(CursorOf(p))
    <3>1. ~(i <= l) /\ \A b \in backlog[p] : ~(i <= b)
      BY <2>5 DEF Passed, CursorOf
    <3>2. i < e
      BY <1>1, <2>1, <2>2, <3>1, ConstantsAssumption, SMTT(30) DEF Gap, EventId, NoId
    <3>3. CASE l = NoId
      BY <1>1, <1>3, <2>3, <3>2, <3>3, DoneEffect DEF EventId
    <3>4. CASE l # NoId
      <4>1. i \in Gap(p, e)
        BY <1>1, <3>1, <3>2, <3>4 DEF Gap, EventId, NoId
      <4> QED BY <1>1, <1>3, <2>1, <2>2, <2>3, <3>4, <4>1, DoneEffect
    <3> QED BY <3>3, <3>4
  <2> QED BY <2>4, <2>5
<1> QED BY <1>2, <1>3 DEF EventHandled

\* ... and when the engine restores state into it.
LEMMA RestoredAccounted ==
    ASSUME IInv, ApplyState \/ SeedState,
           NEW p \in Plugin, p = at, p \in plugins, TakesState(p)
    PROVE  AccountedNext(p, CursorOf(p)')
<1>1. TypeOK /\ HistoryTypeOK
  BY DEF IInv, TypeOK
<1>2. CASE ApplyState /\ (p \in stateNames \/ maxStateId # NoId)
  <2> DEFINE state == NormalizedState(p)
  <2>1. state \in Cursor
    BY <1>1, NormalizedStateType
  <2>2. lastEventId'[p] = state.last /\ backlog'[p] = state.backlog
    BY <1>1, <1>2 DEF ApplyState, TypeOK, CursorTypeOK
  <2>3. CASE state = stateData[p] /\ p \in stateNames
    <3>1. UNCHANGED fate
      BY <1>2, <2>3 DEF ApplyState
    <3>2. Accounted(p, stateData[p])
      BY <1>1, <1>2, ConstantsAssumption
         DEF ApplyState, IInv, StateAccounted, CollectedStateCounts, Plugin
    <3> QED BY <2>2, <2>3, <3>1, <3>2 DEF Accounted, AccountedNext, CursorOf, Passed
  <2>4. CASE ~(state = stateData[p] /\ p \in stateNames)
    <3>1. /\ \E f \in {"fastForward", "before"} : Drop(p, 1..state.last, f)
          /\ state.backlog = {}
      BY <1>2, <2>4 DEF ApplyState, NormalizedState
    <3>2. \A e \in 1..state.last \cap EventId : fate'[p][e] # "open"
      BY <1>1, <3>1, DropEffect DEF Fate
    <3>3. \A e \in EventId : e <= state.last => e \in 1..state.last
      BY <2>1, ConstantsAssumption DEF Cursor, EventId, NoId
    <3> QED BY <2>2, <3>1, <3>2, <3>3 DEF AccountedNext, CursorOf, Passed
  <2> QED BY <2>3, <2>4
<1>3. CASE ApplyState /\ ~(p \in stateNames \/ maxStateId # NoId)
  <2>1. UNCHANGED <<cursorVars, fate>>
    BY <1>3 DEF ApplyState
  <2> QED BY <2>1 DEF IInv, NoSilentLoss, Accounted, AccountedNext, CursorOf
<1>4. CASE SeedState
  <2>1. /\ lastEventId'[p] = maxStateId /\ Drop(p, 1..maxStateId, "before")
        /\ backlog'[p] = backlog[p]
    BY <1>1, <1>4 DEF SeedState, TypeOK, CursorTypeOK
  <2>2. \A e \in 1..maxStateId \cap EventId : fate'[p][e] # "open"
    BY <1>1, <2>1, DropEffect DEF Fate
  <2>3. \A e \in EventId : e <= maxStateId => e \in 1..maxStateId
    BY <1>1, ConstantsAssumption DEF TypeOK, LocalTypeOK, EventId, NoId
  <2>4. FateKept /\ Accounted(p, CursorOf(p))
    BY <1>1, <2>1, DropEffect DEF IInv, NoSilentLoss, Fate
  <2> QED
    BY <2>1, <2>2, <2>3, <2>4
       DEF Accounted, AccountedNext, CursorOf, Passed, FateKept
<1> QED BY <1>2, <1>3, <1>4

\* The cursors in memory.
LEMMA CursorsAccounted ==
    ASSUME IInv, [Next]_vars, NEW p \in Plugin
    PROVE  Accounted(p, CursorOf(p))'
<1>1. TypeOK /\ HistoryTypeOK /\ at \in Plugin /\ FateKept
  BY FateIsKept DEF IInv, TypeOK, StepTypeOK
<1>2. CursorOf(p) \in Cursor /\ Accounted(p, CursorOf(p))
  BY CursorOfType DEF IInv, NoSilentLoss, TypeOK
<1>3. SUFFICES AccountedNext(p, CursorOf(p)')
  BY DEF AccountedNext, Accounted, CursorOf
<1>4. CASE lastEventId'[p] = lastEventId[p] /\ backlog'[p] = backlog[p]
  BY <1>1, <1>2, <1>4, AccountedIsKept DEF CursorOf
<1>5. CASE lastEventId'[p] = NoId /\ backlog'[p] = {}
  BY <1>5, PassedNothing DEF AccountedNext, CursorOf, NoCursor
<1>6. CASE Lost \/ InstallPlugins
  <2>1. \/ lastEventId'[p] = NoId /\ backlog'[p] = {}
        \/ lastEventId'[p] = lastEventId[p] /\ backlog'[p] = backlog[p]
    BY <1>6 DEF Lost, InstallPlugins
  <2> QED BY <1>4, <1>5, <2>1
<1>7. CASE ApplyState \/ SeedState
  <2>1. CASE p = at /\ p \in plugins /\ TakesState(p)
    BY <1>7, <2>1, RestoredAccounted
  <2>2. CASE ~(p = at /\ p \in plugins /\ TakesState(p))
    <3>1. lastEventId'[p] = lastEventId[p] /\ backlog'[p] = backlog[p]
      BY <1>1, <1>7, <2>2 DEF ApplyState, SeedState, TypeOK, CursorTypeOK
    <3> QED BY <1>4, <3>1
  <2> QED BY <2>1, <2>2
<1>8. ASSUME NEW e \in EventId, EntryExpired(e)
      PROVE  AccountedNext(p, CursorOf(p)')
  <2>1. lastEventId'[p] = lastEventId[p]
        /\ backlog' = [backlog EXCEPT ![at] = @ \ {e}] /\ Drop(at, {e}, "expired")
    BY <1>8 DEF EntryExpired
  <2>2. CASE p = at
    <3>1. fate'[p][e] # "open"
      BY <1>1, <2>1, <2>2, DropEffect DEF Fate
    <3>2. AccountedNext(p, CursorOf(p)) /\ backlog'[p] = backlog[p] \ {e}
      BY <1>1, <1>2, <2>1, <2>2, AccountedIsKept DEF TypeOK, CursorTypeOK
    <3> QED BY <2>1, <3>1, <3>2 DEF AccountedNext, CursorOf, Passed
  <2>3. CASE p # at
    BY <1>1, <1>4, <2>1, <2>3 DEF TypeOK, CursorTypeOK
  <2> QED BY <2>2, <2>3
<1>9. ASSUME NEW e \in EventId, Enqueue(e) PROVE AccountedNext(p, CursorOf(p)')
  BY <1>4, <1>9 DEF Enqueue
<1>10. ASSUME NEW q \in Plugin, EventHandled(q)
       PROVE  AccountedNext(p, CursorOf(p)')
  <2>1. CASE q = p
    BY <1>1, <1>2, <1>10, <2>1, HandledAccounted
  <2>2. CASE q # p
    <3>1. lastEventId'[p] = lastEventId[p] /\ backlog'[p] = backlog[p]
      BY <1>1, <1>10, <2>2
         DEF EventHandled, UpdateLastEventId, TypeOK, CursorTypeOK
    <3> QED BY <1>4, <3>1
  <2> QED BY <2>1, <2>2
<1> QED
  BY <1>4, <1>6, <1>7, <1>8, <1>9, <1>10, CursorFrame

\* The event id file: it receives collected states only.
LEMMA FileAccounted ==
    ASSUME IInv, [Next]_vars, NEW p \in Plugin
    PROVE  Accounted(p, eventIdFile[p])'
<1>1. TypeOK /\ FateKept
  BY FateIsKept DEF IInv
<1>2. SUFFICES AccountedNext(p, eventIdFile'[p])
  BY DEF AccountedNext, Accounted
<1>3. CASE UNCHANGED fileVars
  BY <1>1, <1>3, AccountedIsKept
     DEF IInv, NoSilentLoss, TypeOK, StateTypeOK
<1>4. CASE WriteFile("write", "check") \/ WriteFile("firstWrite", "loop")
  <2>1. UNCHANGED fileVars \/ eventIdFile' = stateData
    BY <1>4 DEF WriteFile, WriteState
  <2>2. Accounted(p, stateData[p]) /\ stateData[p] \in Cursor
    BY <1>1, <1>4 DEF WriteFile, IInv, StateAccounted, CollectedStateCounts,
                      TypeOK, StateTypeOK
  <2> QED BY <1>1, <1>3, <2>1, <2>2, AccountedIsKept
<1>5. CASE FinishStop
  <2>1. \/ UNCHANGED fileVars
        \/ p \in plugins /\ eventIdFile'[p] = CursorOf(p)
        \/ p \notin plugins /\ eventIdFile'[p] = stateData[p]
    BY <1>5 DEF FinishStop
  <2>2. CASE p \in plugins /\ eventIdFile'[p] = CursorOf(p)
    BY <1>1, <2>2, AccountedIsKept, CursorOfType DEF IInv, NoSilentLoss, TypeOK
  <2>3. CASE p \notin plugins /\ eventIdFile'[p] = stateData[p]
    BY <1>1, <2>3, AccountedIsKept
       DEF IInv, StateAccounted, CollectedStateCounts, TypeOK, StateTypeOK
  <2> QED BY <1>3, <2>1, <2>2, <2>3
<1>6. CASE ReadState \/ ApplyState \/ SeedState
           \/ CollectState("save", "write") \/ CollectState("firstSave", "firstWrite")
  BY <1>3, <1>6 DEF ReadState, ApplyState, SeedState, CollectState
<1>7. CASE CrashExit
  <2>1. \/ UNCHANGED fileVars
        \/ p \notin plugins /\ eventIdFile' = stateData
    BY <1>7 DEF CrashExit, WriteState
  <2>2. CASE p \notin plugins /\ eventIdFile' = stateData
    BY <1>1, <2>2, AccountedIsKept
       DEF IInv, StateAccounted, CollectedStateCounts, TypeOK, StateTypeOK
  <2> QED BY <1>3, <2>1, <2>2
<1> QED BY <1>3, <1>4, <1>5, <1>6, <1>7, StateFrame

\* The collected states.  A step that leaves them alone must not make one count
\* that did not: the five that change them, and Lost, are looked at one by one.
LEMMA StateIsAccounted ==
    ASSUME IInv, [Next]_vars, NEW p \in Plugin, CollectedStateCounts(p)'
    PROVE  Accounted(p, stateData[p])'
<1>1. TypeOK /\ FateKept /\ at \in Plugin /\ stateData \in [Plugin -> Cursor]
  BY FateIsKept DEF IInv, TypeOK, StateTypeOK, StepTypeOK
<1>2. SUFFICES AccountedNext(p, stateData'[p])
  BY DEF AccountedNext, Accounted
<1>3. CASE CollectedStateCounts(p) /\ stateData'[p] = stateData[p]
  BY <1>1, <1>3, AccountedIsKept DEF IInv, StateAccounted
<1>4. CASE stateData'[p] = CursorOf(p)
  BY <1>1, <1>4, AccountedIsKept, CursorOfType DEF IInv, NoSilentLoss, TypeOK
<1>5. CASE Lost \/ CrashExit
  BY <1>5, PassedNothing DEF CrashExit, Lost, AccountedNext
<1>6. CASE ReadState
  <2>1. CASE stateData' = eventIdFile
    BY <1>1, <2>1, AccountedIsKept DEF IInv, NoSilentLoss, TypeOK, StateTypeOK
  <2>2. CASE plugins = {} /\ UNCHANGED stateVars
    BY <1>3, <2>2 DEF CollectedStateCounts
  <2> QED BY <1>6, <2>1, <2>2 DEF ReadState
<1>7. CASE ApplyState \/ SeedState
  <2>1. p # at \/ p \notin plugins
    BY <1>1, <1>7, ConstantsAssumption
       DEF ApplyState, SeedState, LoopOver, CollectedStateCounts, Plugin
  <2>2. stateData'[p] = stateData[p]
    BY <1>1, <1>7, <2>1 DEF ApplyState, SeedState
  <2>3. CollectedStateCounts(p)
    BY <1>1, <1>7, ConstantsAssumption
       DEF ApplyState, SeedState, LoopOver, CollectedStateCounts, Plugin
  <2> QED BY <1>3, <2>2, <2>3
<1>8. CASE FinishStop
  <2>1. \/ p \in plugins /\ stateData'[p] = CursorOf(p)
        \/ p \notin plugins /\ stateData'[p] = stateData[p]
    BY <1>8 DEF FinishStop
  <2> QED BY <1>3, <1>4, <2>1 DEF CollectedStateCounts
<1>9. CASE CollectState("save", "write") \/ CollectState("firstSave", "firstWrite")
  <2>1. CASE p = at /\ p \in plugins
    BY <1>1, <1>4, <1>9, <2>1 DEF CollectState
  <2>2. CASE ~(p = at /\ p \in plugins)
    <3>1. stateData'[p] = stateData[p]
      BY <1>1, <1>9, <2>2 DEF CollectState
    <3>2. CollectedStateCounts(p)
      BY <1>1, <1>9, <2>2, ConstantsAssumption
         DEF CollectState, LoopOver, CollectedStateCounts, Plugin
    <3> QED BY <1>3, <3>1, <3>2
  <2> QED BY <2>1, <2>2
<1>10. CASE WriteFile("write", "check") \/ WriteFile("firstWrite", "loop")
  BY <1>3, <1>10 DEF WriteFile, CollectedStateCounts
<1>11. CASE UNCHANGED <<stateVars, fileVars>>
  <2>1. CASE GetNewEvents
    BY <1>3, <1>11, <2>1, ZenonT(60)
       DEF GetNewEvents, ScanPlugin, ScanDone, EntryGone, EntryExpired,
           EntryPending, NothingToFetch, CheckActive, MatchTypes, Fetch,
           LoopOver, CollectedStateCounts
  <2>2. CASE (\E e \in EventId : Enqueue(e)) \/ BatchDone \/ CheckBacklog
    BY <1>1, <1>3, <1>11, <2>2, ConstantsAssumption
       DEF Enqueue, BatchDone, CheckBacklog, LoopOver, CollectedStateCounts,
           Plugin
  <2>3. CASE LoadPlugins
    BY <1>3, <1>11, <2>3
       DEF LoadPlugins, ListPlugins, ConstructPlugins, ReloadPlugin,
           RetirePlugin, JoinWorker, InstallPlugins, LoopOver,
           CollectedStateCounts
  <2>4. CASE NoFile \/ AskLastEventId
    BY <1>3, <1>11, <2>4 DEF NoFile, AskLastEventId, CollectedStateCounts
  <2>5. CASE LoopTop
    BY <1>3, <1>11, <2>5 DEF LoopTop, CollectedStateCounts
  <2>6. CASE ProcessExit \/ CrashExit \/ Kill
    BY <1>5, <2>6 DEF ProcessExit, CrashExit, Kill
  <2>7. CASE Start
    BY <1>3, <1>11, <2>7 DEF Start, CollectedStateCounts, IInv
  <2>8. CASE BeginStop
    BY <1>3, <1>11, <2>8 DEF BeginStop, CollectedStateCounts
  <2>9. CASE \E q \in Plugin : WorkerThread(q) \/ EditFile(q)
    BY <1>3, <1>11, <2>9
       DEF WorkerThread, RunCallbacks, TakeItem, EventHandled, EventIgnored,
           CallbackFails, DeactivateRaised, EditFile, CollectedStateCounts
  <2>10. CASE \E e \in EventId : Publish(e)
    BY <1>3, <1>11, <2>10 DEF Publish, CollectedStateCounts
  <2>11. CASE UNCHANGED vars
    BY <1>3, <2>11 DEF CollectedStateCounts
  <2> QED
    BY <1>6, <1>7, <1>8, <1>9, <1>10, <2>1, <2>2, <2>3, <2>4, <2>5, <2>6, <2>7,
       <2>8, <2>9, <2>10, <2>11
       DEF Next, MainThread, SaveEventIdData, LoadEventIdData
<1> QED
  BY <1>5, <1>6, <1>7, <1>8, <1>9, <1>10, <1>11, StateFrame

\* Between two processes the collection is empty; a stop interrupts a step of a
\* running process, and never another stop.
LEMMA DownIsEmpty ==
    ASSUME IInv, [Next]_vars
    PROVE  /\ pc' = "down" => plugins' = {}
           /\ pc' = "stopping" => interrupted' \notin {"down", "stopping"}
<1> USE DEF IInv
<1>1. CASE GetNewEvents
  BY <1>1 DEF GetNewEvents, ScanPlugin, ScanDone, EntryGone, EntryExpired,
              EntryPending, NothingToFetch, CheckActive, MatchTypes, Fetch,
              LoopOver
<1>2. CASE (\E e \in EventId : Enqueue(e)) \/ BatchDone \/ CheckBacklog
  BY <1>2 DEF Enqueue, BatchDone, CheckBacklog, LoopOver
<1>3. CASE SaveEventIdData
  BY <1>3 DEF SaveEventIdData, CollectState, WriteFile, LoopOver
<1>4. CASE LoadPlugins
  BY <1>4 DEF LoadPlugins, ListPlugins, ConstructPlugins, ReloadPlugin,
              RetirePlugin, JoinWorker, InstallPlugins, LoopOver
<1>5. CASE LoadEventIdData
  BY <1>5 DEF LoadEventIdData, ReadState, ApplyState, NoFile, AskLastEventId,
              SeedState, LoopOver
<1>6. CASE LoopTop \/ FinishStop \/ Start \/ BeginStop
  BY <1>6 DEF LoopTop, FinishStop, Start, BeginStop
<1>7. CASE ProcessExit \/ CrashExit \/ Kill
  BY <1>7 DEF ProcessExit, CrashExit, Kill, Lost
<1>8. CASE \E p \in Plugin : WorkerThread(p) \/ EditFile(p)
  BY <1>8 DEF WorkerThread, RunCallbacks, TakeItem, EventHandled, EventIgnored,
              CallbackFails, DeactivateRaised, EditFile
<1>9. CASE (\E e \in EventId : Publish(e)) \/ UNCHANGED vars
  BY <1>9 DEF Publish
<1> QED
  BY <1>1, <1>2, <1>3, <1>4, <1>5, <1>6, <1>7, <1>8, <1>9 DEF Next, MainThread

\* The inductive invariant holds at the start.
LEMMA InvariantInit == Init => IInv
<1> SUFFICES ASSUME Init PROVE IInv
  OBVIOUS
<1>1. NoSilentLoss /\ StateAccounted
  BY PassedNothing
     DEF Init, NoSilentLoss, StateAccounted, Accounted, CursorOf, NoCursor
<1> QED BY <1>1, TypeInit DEF Init, IInv

\* Every step keeps the inductive invariant.
LEMMA InvariantStep == IInv /\ [Next]_vars => IInv'
<1> SUFFICES ASSUME IInv, [Next]_vars PROVE IInv'
  OBVIOUS
<1>1. TypeOK'
  BY TypeStep DEF IInv
<1>2. NoSilentLoss'
  BY CursorsAccounted, FileAccounted DEF NoSilentLoss
<1>3. StateAccounted'
  BY StateIsAccounted DEF StateAccounted
<1> QED BY <1>1, <1>2, <1>3, DownIsEmpty DEF IInv

\* The inductive invariant holds in every reachable state.
THEOREM InvariantHolds == Spec => []IInv
  BY InvariantInit, InvariantStep, PTL DEF Spec

\* No event is lost silently, in memory or in the checkpoint, for any number of
\* plugins and events, any sizes of gap, batch and lag, and any sequence of
\* failures, edits, stops and kills.
THEOREM NothingLostSilently == Spec => []NoSilentLoss
<1>1. IInv => NoSilentLoss
  BY DEF IInv
<1> QED BY <1>1, InvariantHolds, PTL

-----------------------------------------------------------------------------
(* The lock *)

\* While one and the same run of callbacks lasts, nothing changes the plugin's
\* flag, its callbacks or its cursor: every other thread that would has to find
\* the lock free, and the steps that end the run release it.
LEMMA RunStep ==
    ASSUME TypeOK, [Next]_vars, NEW p \in Plugin, Locked(p), Locked(p)'
    PROVE  UNCHANGED <<active[p], callbacks[p], lastEventId[p]>>
<1> USE DEF Locked
<1>1. at \in Plugin
  BY DEF TypeOK, StepTypeOK
<1>2. ~Lost
  BY DEF Lost
<1>3. CASE InstallPlugins
  <2>1. p \in plugins \cap listed
    BY <1>3 DEF InstallPlugins
  <2> QED BY <1>3, <2>1 DEF InstallPlugins
<1>4. ASSUME NEW q \in Plugin, EventHandled(q) PROVE q # p
  BY <1>4 DEF EventHandled, Release, TypeOK, WorkerTypeOK
<1>5. ASSUME NEW q \in Plugin, NEW c \in Callback, CallbackFails(q, c) PROVE q # p
  BY <1>5 DEF CallbackFails, Release, TypeOK, WorkerTypeOK
<1>6. ASSUME NEW q \in Plugin, DeactivateRaised(q) PROVE q # p
  BY <1>6 DEF DeactivateRaised
<1>7. active'[p] = active[p] /\ callbacks'[p] = callbacks[p]
  <2>1. CASE UNCHANGED <<plugins, loadVars, backlogAlertActive>>
             \/ CheckBacklog
    BY <2>1 DEF CheckBacklog
  <2>2. CASE ReloadPlugin
    BY <1>1, <2>2 DEF ReloadPlugin, Free, TypeOK, CollectionTypeOK
  <2>3. CASE \E q \in Plugin : DeactivateRaised(q)
    BY <1>6, <2>3 DEF DeactivateRaised, TypeOK, CollectionTypeOK
  <2>4. CASE \E q \in Plugin, c \in Callback : CallbackFails(q, c)
    BY <1>5, <2>4 DEF CallbackFails, TypeOK, CollectionTypeOK
  <2> QED BY <1>2, <1>3, <2>1, <2>2, <2>3, <2>4, CollectionFrame
<1>8. lastEventId'[p] = lastEventId[p]
  <2>1. CASE UNCHANGED <<lastEventId, backlog, lastDispatchedEventId>>
    BY <2>1
  <2>2. CASE ApplyState \/ SeedState
    BY <1>1, <2>2 DEF ApplyState, SeedState, Free, TypeOK, CursorTypeOK
  <2>3. CASE \E e \in EventId : EntryExpired(e) \/ Enqueue(e)
    BY <2>3 DEF EntryExpired, Enqueue
  <2>4. CASE \E q \in Plugin : EventHandled(q)
    BY <1>4, <2>4 DEF EventHandled, UpdateLastEventId, TypeOK, CursorTypeOK
  <2> QED BY <1>2, <1>3, <2>1, <2>2, <2>3, <2>4, CursorFrame
<1> QED BY <1>7, <1>8

\* No reload and no restored state interferes with callbacks that are running
\* (Plugin._lock), however many plugins and callbacks there are.
THEOREM RunIsProtected == Spec => LockProtectsRun
<1>1. TypeOK /\ [Next]_vars =>
        [\A p \in Plugin : Locked(p) /\ Locked(p)' =>
            UNCHANGED <<active[p], callbacks[p], lastEventId[p]>>]_vars
  BY RunStep
<1> QED BY <1>1, TypeCorrect, PTL DEF Spec, LockProtectsRun

-----------------------------------------------------------------------------
(* Queues *)

\* Appending an item, an event or the sentinel, adds it and nothing else.
LEMMA AppendItems ==
    ASSUME NEW S, NEW q \in Seq(S), NEW e \in S
    PROVE  ItemsOf(Append(q, e)) = ItemsOf(q) \cup {e}
<1>1. DOMAIN Append(q, e) = 1..(Len(q) + 1) /\ DOMAIN q = 1..Len(q) /\ Len(q) \in Nat
  OBVIOUS
<1>2. Append(q, e)[Len(q) + 1] = e /\ \A i \in DOMAIN q : Append(q, e)[i] = q[i]
  OBVIOUS
<1>3. \A i \in DOMAIN Append(q, e) : i \in DOMAIN q \/ i = Len(q) + 1
  BY <1>1
<1>4. DOMAIN q \subseteq DOMAIN Append(q, e) /\ Len(q) + 1 \in DOMAIN Append(q, e)
  BY <1>1
<1> QED BY <1>2, <1>3, <1>4, Zenon DEF ItemsOf

\* Taking the first item leaves items that were there.
LEMMA TailItems ==
    ASSUME NEW S, NEW q \in Seq(S), q # <<>>
    PROVE  Head(q) \in ItemsOf(q) /\ ItemsOf(Tail(q)) \subseteq ItemsOf(q)
  BY DEF ItemsOf

\* What each step may add to a queue: an event of the batch, or the sentinel.
LEMMA ItemsFrame ==
    ASSUME TypeOK, [Next]_vars, NEW p \in Plugin
    PROVE  \/ Items(p)' \subseteq Items(p) \cup {StopSentinel}
           \/ \E e \in batch : /\ Items(p)' = Items(p) \cup {e}
                               /\ lastDispatchedEventId'[p] = e
<1> DEFINE Item == EventId \cup {StopSentinel}
<1>1. at \in Plugin /\ queue \in [Plugin -> Seq(Item)]
      /\ lastDispatchedEventId \in [Plugin -> EventId \cup {NoId}]
  BY DEF TypeOK, StepTypeOK, WorkerTypeOK, CursorTypeOK
<1>2. CASE queue'[p] = queue[p]
  BY <1>2 DEF Items
<1>3. CASE queue'[p] = <<>>
  BY <1>3 DEF Items, ItemsOf
<1>4. CASE queue'[p] = WithSentinel(queue[p])
  BY <1>1, <1>4, AppendItems DEF Items, WithSentinel
<1>5. CASE RetirePlugin \/ BeginStop
  <2>1. queue'[p] = queue[p] \/ queue'[p] = WithSentinel(queue[p])
    BY <1>1, <1>5 DEF RetirePlugin, BeginStop
  <2> QED BY <1>2, <1>4, <2>1
<1>6. CASE Lost \/ InstallPlugins
  <2>1. queue'[p] = queue[p] \/ queue'[p] = <<>>
    BY <1>6 DEF Lost, InstallPlugins
  <2> QED BY <1>2, <1>3, <2>1
<1>7. ASSUME NEW e \in EventId, Enqueue(e)
      PROVE  \/ queue'[p] = queue[p]
             \/ \E f \in batch : /\ Items(p)' = Items(p) \cup {f}
                                 /\ lastDispatchedEventId'[p] = f
  <2>1. \/ queue'[p] = queue[p]
        \/ /\ queue'[p] = Append(queue[p], e) /\ e \in batch
           /\ lastDispatchedEventId'[p] = e
    BY <1>1, <1>7 DEF Enqueue
  <2>2. ItemsOf(Append(queue[p], e)) = ItemsOf(queue[p]) \cup {e}
    <3>1. queue[p] \in Seq(Item) /\ e \in Item
      BY <1>1
    <3> HIDE DEF Item
    <3> QED BY <3>1, AppendItems
  <2> QED BY <2>1, <2>2 DEF Items
<1>8. ASSUME NEW q \in Plugin, TakeItem(q)
      PROVE  Items(p)' \subseteq Items(p)
  <2>1. queue'[p] = queue[p] \/ (queue'[p] = Tail(queue[p]) /\ queue[p] # <<>>)
    BY <1>1, <1>8 DEF TakeItem
  <2> QED BY <1>1, <2>1, TailItems DEF Items
<1>9. CASE \/ UNCHANGED <<queue, worker, current>>
           \/ \E q \in Plugin : EventHandled(q) \/ EventIgnored(q) \/ DeactivateRaised(q)
           \/ \E q \in Plugin, c \in Callback : CallbackFails(q, c)
  BY <1>2, <1>9 DEF EventHandled, EventIgnored, DeactivateRaised, CallbackFails
<1> QED
  BY <1>2, <1>5, <1>6, <1>7, <1>8, <1>9, WorkerFrame

-----------------------------------------------------------------------------
(* The conjuncts of DeliveryInv, one by one *)

\* A run of callbacks goes on with the event it began with, or it ends; it begins
\* with an event that waited in the queue.
LEMMA RunFrame ==
    ASSUME TypeOK, [Next]_vars, NEW p \in Plugin
    PROVE  \/ worker'[p] = worker[p] /\ current'[p] = current[p]
           \/ worker'[p] \notin {"first", "retry"} /\ current'[p] = NoId
           \/ worker[p] = "raised" /\ worker'[p] = "idle" /\ current'[p] = current[p]
           \/ worker[p] = "idle" /\ worker'[p] = "exited" /\ current'[p] = current[p]
           \/ /\ current'[p] \in Items(p) \ {StopSentinel}
              /\ worker[p] = "idle"
              /\ worker'[p] = IF current'[p] \in backlog[p] THEN "retry" ELSE "first"
              /\ worker'[p] = "first" => Fresh(p, current'[p])
              /\ queue[p] # <<>>
              /\ UNCHANGED <<lastEventId, backlog, lastDispatchedEventId>>
<1>1. /\ worker \in [Plugin -> {"idle", "first", "retry", "raised", "exited"}]
      /\ current \in [Plugin -> EventId \cup {NoId}]
      /\ queue[p] \in Seq(EventId \cup {StopSentinel})
  BY DEF TypeOK, WorkerTypeOK
<1>2. CASE Lost \/ InstallPlugins
  BY <1>2 DEF Lost, InstallPlugins
<1>3. CASE \/ UNCHANGED <<queue, worker, current>>
           \/ RetirePlugin \/ BeginStop \/ \E e \in EventId : Enqueue(e)
  BY <1>3 DEF RetirePlugin, BeginStop, Enqueue
<1>4. ASSUME NEW q \in Plugin, EventHandled(q) \/ EventIgnored(q)
      PROVE  \/ worker'[p] = worker[p] /\ current'[p] = current[p]
             \/ worker'[p] \notin {"first", "retry"} /\ current'[p] = NoId
  BY <1>1, <1>4 DEF EventHandled, EventIgnored, Release
<1>5. ASSUME NEW q \in Plugin, NEW c \in Callback, CallbackFails(q, c)
      PROVE  \/ worker'[p] = worker[p] /\ current'[p] = current[p]
             \/ worker'[p] \notin {"first", "retry"} /\ current'[p] = NoId
  BY <1>1, <1>5 DEF CallbackFails, Release
<1>6. ASSUME NEW q \in Plugin, DeactivateRaised(q)
      PROVE  \/ worker'[p] = worker[p] /\ current'[p] = current[p]
             \/ worker[p] = "raised" /\ worker'[p] = "idle" /\ current'[p] = current[p]
  BY <1>1, <1>6 DEF DeactivateRaised
<1>7. ASSUME NEW q \in Plugin, TakeItem(q), q # p
      PROVE  worker'[p] = worker[p] /\ current'[p] = current[p]
  BY <1>1, <1>7 DEF TakeItem
<1>8. CASE TakeItem(p)
  <2> DEFINE e == Head(queue[p])
  <2>1. e \in Items(p)
    BY <1>1, <1>8, TailItems DEF TakeItem, Items
  <2>2. CASE e = StopSentinel
    BY <1>1, <1>8, <2>2 DEF TakeItem
  <2>3. CASE e # StopSentinel /\ (e \in backlog[p] \/ Fresh(p, e))
    <3>1. current'[p] = e /\ worker'[p] = IF e \in backlog[p] THEN "retry" ELSE "first"
      BY <1>1, <1>8, <2>3 DEF TakeItem
    <3> HIDE DEF e
    <3> QED BY <1>8, <2>1, <2>3, <3>1 DEF TakeItem
  <2>4. CASE e # StopSentinel /\ ~(e \in backlog[p] \/ Fresh(p, e))
    BY <1>8, <2>4 DEF TakeItem
  <2> QED BY <2>2, <2>3, <2>4
<1> QED BY <1>2, <1>3, <1>4, <1>5, <1>6, <1>7, <1>8, WorkerFrame

\* A plugin takes a cursor from the dispatch, from a restored state, or it keeps
\* the one it has until it is forgotten.
LEMMA DispatchFrame ==
    ASSUME TypeOK, [Next]_vars, NEW p \in Plugin
    PROVE  \/ lastDispatchedEventId'[p] = lastDispatchedEventId[p]
           \/ p \in plugins /\ lastDispatchedEventId'[p] \in EventId
                /\ UNCHANGED lastEventId
           \/ (Lost \/ InstallPlugins) /\ lastDispatchedEventId'[p] = NoId
           \/ /\ ApplyState \/ SeedState
              /\ p = at /\ p \in plugins /\ TakesState(p) /\ Free(p)
              /\ lastDispatchedEventId'[p] = lastEventId'[p]
<1>1. /\ lastDispatchedEventId \in [Plugin -> EventId \cup {NoId}]
      /\ lastEventId \in [Plugin -> EventId \cup {NoId}] /\ at \in Plugin
  BY DEF TypeOK, CursorTypeOK, StepTypeOK
<1>2. CASE Lost \/ InstallPlugins
  BY <1>2 DEF Lost, InstallPlugins
<1>3. CASE ApplyState \/ SeedState
  BY <1>1, <1>3 DEF ApplyState, SeedState
<1>4. ASSUME NEW e \in EventId, EntryExpired(e) \/ Enqueue(e)
      PROVE  \/ lastDispatchedEventId'[p] = lastDispatchedEventId[p]
             \/ p \in plugins /\ lastDispatchedEventId'[p] \in EventId
                  /\ UNCHANGED lastEventId
  BY <1>1, <1>4 DEF EntryExpired, Enqueue
<1>5. CASE \/ UNCHANGED <<lastEventId, backlog, lastDispatchedEventId>>
           \/ \E q \in Plugin : EventHandled(q)
  BY <1>5 DEF EventHandled
<1> QED BY <1>2, <1>3, <1>4, <1>5, CursorFrame

\* The ids are not the value for no id, nor the sentinel.
LEMMA IdIsKnown == NoId \notin EventId /\ StopSentinel \notin EventId
  BY DEF NoId, StopSentinel, EventId

\* Outside the collection nothing runs, waits or has a cursor.
LEMMA UnloadedStep ==
    ASSUME DeliveryInv, [Next]_vars PROVE UnloadedIsBlank'
<1>1. TypeOK /\ UnloadedIsBlank
  BY DEF DeliveryInv, IInv
<1>2. CASE Lost \/ InstallPlugins
  <2>1. CASE Lost
    BY <2>1 DEF Lost, UnloadedIsBlank
  <2>2. CASE InstallPlugins
    <3>1. \A p \in Plugin \ plugins' : p \notin plugins \cap listed
      BY <2>2 DEF InstallPlugins
    <3> QED BY <2>2, <3>1 DEF InstallPlugins, UnloadedIsBlank
  <2> QED BY <1>2, <2>1, <2>2
<1>3. CASE ~(Lost \/ InstallPlugins)
  <2>1. plugins' = plugins
    BY <1>3, CollectionFrame
       DEF CheckBacklog, ReloadPlugin, DeactivateRaised, CallbackFails
  <2>2. SUFFICES ASSUME NEW p \in Plugin \ plugins
                 PROVE  /\ worker'[p] = "idle" /\ queue'[p] = <<>>
                        /\ lastDispatchedEventId'[p] = NoId
    BY <2>1 DEF UnloadedIsBlank
  <2>3. /\ worker[p] = "idle" /\ queue[p] = <<>>
        /\ lastDispatchedEventId[p] = NoId
    BY <1>1 DEF UnloadedIsBlank
  <2>4. lastDispatchedEventId'[p] = NoId
    BY <1>1, <1>3, <2>3, DispatchFrame
  <2>5. queue'[p] = <<>> /\ worker'[p] = "idle"
    <3>1. /\ worker \in [Plugin -> {"idle", "first", "retry", "raised", "exited"}]
          /\ queue \in [Plugin -> Seq(EventId \cup {StopSentinel})] /\ at \in Plugin
      BY <1>1 DEF TypeOK, WorkerTypeOK, StepTypeOK
    <3>2. CASE RetirePlugin \/ BeginStop
      BY <2>3, <3>1, <3>2 DEF RetirePlugin, BeginStop
    <3>3. ASSUME NEW e \in EventId, Enqueue(e) PROVE UNCHANGED <<queue[p], worker[p]>>
      BY <3>1, <3>3 DEF Enqueue
    <3>4. ASSUME NEW q \in Plugin, TakeItem(q) PROVE UNCHANGED <<queue[p], worker[p]>>
      BY <2>3, <3>1, <3>4 DEF TakeItem
    <3>5. ASSUME NEW q \in Plugin,
                 EventHandled(q) \/ EventIgnored(q) \/ DeactivateRaised(q)
          PROVE  UNCHANGED <<queue[p], worker[p]>>
      BY <2>3, <3>1, <3>5
         DEF EventHandled, EventIgnored, DeactivateRaised, Release, Locked
    <3>6. ASSUME NEW q \in Plugin, NEW c \in Callback, CallbackFails(q, c)
          PROVE  UNCHANGED <<queue[p], worker[p]>>
      BY <2>3, <3>1, <3>6 DEF CallbackFails, Release, Locked
    <3> QED
      BY <1>3, <2>3, <3>2, <3>3, <3>4, <3>5, <3>6, WorkerFrame
  <2> QED BY <2>4, <2>5
<1> QED BY <1>2, <1>3

\* A plugin that nothing was dispatched to has no event waiting and no cursor.
LEMMA DispatchStep ==
    ASSUME DeliveryInv, [Next]_vars PROVE DispatchComesFirst'
<1>1. SUFFICES ASSUME NEW p \in Plugin, lastDispatchedEventId'[p] = NoId
               PROVE  lastEventId'[p] = NoId /\ Items(p)' \subseteq {StopSentinel}
  BY DEF DispatchComesFirst, Items
<1>2. TypeOK /\ DispatchComesFirst /\ RunIsFresh /\ UnloadedIsBlank
  BY DEF DeliveryInv, IInv
<1>3. CASE Lost \/ InstallPlugins
  <2>1. \/ queue'[p] = <<>> /\ lastEventId'[p] = NoId
        \/ UNCHANGED <<queue[p], lastEventId[p], lastDispatchedEventId[p]>>
    BY <1>3 DEF Lost, InstallPlugins
  <2> QED BY <1>1, <1>2, <2>1 DEF DispatchComesFirst, Items, ItemsOf
<1>4. CASE ~(Lost \/ InstallPlugins)
  <2>1. lastDispatchedEventId[p] = NoId
    BY <1>1, <1>2, <1>4, DispatchFrame, IdIsKnown DEF TakesState
  <2>2. lastEventId[p] = NoId /\ Items(p) \subseteq {StopSentinel} /\ ~Locked(p)
    BY <1>2, <2>1 DEF DispatchComesFirst, RunIsFresh
  <2>3. Items(p)' \subseteq {StopSentinel}
    <3>1. batch \subseteq EventId
      BY <1>2 DEF TypeOK, LocalTypeOK
    <3> QED BY <1>1, <1>2, <2>2, <3>1, ItemsFrame, IdIsKnown
  <2>4. lastEventId'[p] = NoId
    <3>1. CASE ApplyState \/ SeedState
      <4>1. lastEventId'[p] = lastEventId[p]
            \/ lastEventId'[p] = lastDispatchedEventId'[p]
        BY <1>2, <3>1 DEF ApplyState, SeedState, TypeOK, CursorTypeOK, StepTypeOK
      <4> QED BY <1>1, <2>2, <4>1
    <3>2. ASSUME NEW q \in Plugin, EventHandled(q)
          PROVE  lastEventId'[p] = lastEventId[p]
      BY <1>2, <2>2, <3>2
         DEF EventHandled, UpdateLastEventId, TypeOK, CursorTypeOK
    <3> QED BY <1>4, <2>2, <3>1, <3>2, CursorFrame DEF EntryExpired, Enqueue
  <2> QED BY <2>3, <2>4
<1> QED BY <1>3, <1>4

\* No cursor without an id has a backlog, neither in memory nor in a checkpoint.
LEMMA BacklogStep ==
    ASSUME DeliveryInv, [Next]_vars PROVE BacklogHasCursor'
<1> DEFINE Ok(c) == c.last = NoId => c.backlog = {}
<1>1. TypeOK /\ at \in Plugin /\ DispatchComesFirst /\ UnloadedIsBlank
  BY DEF DeliveryInv, IInv, TypeOK, StepTypeOK
<1>2. \A p \in Plugin : Ok(CursorOf(p)) /\ Ok(stateData[p]) /\ Ok(eventIdFile[p])
  BY DEF DeliveryInv, BacklogHasCursor
<1>3. \A p \in Plugin : Ok(NormalizedState(p))
  BY <1>2 DEF NormalizedState
<1>4. ASSUME NEW p \in Plugin PROVE Ok(CursorOf(p)')
  <2> SUFFICES Ok([last |-> lastEventId'[p], backlog |-> backlog'[p]])
    BY DEF CursorOf
  <2>1. lastEventId[p] = NoId => backlog[p] = {}
    BY <1>2 DEF CursorOf
  <2>2. CASE Lost \/ InstallPlugins
    BY <2>1, <2>2 DEF Lost, InstallPlugins
  <2>3. CASE ApplyState
    BY <1>1, <1>3, <2>1, <2>3 DEF ApplyState, TypeOK, CursorTypeOK
  <2>4. CASE SeedState
    <3>1. UNCHANGED backlog /\ (TakesState(at) => lastEventId[at] = NoId)
      BY <1>1, <2>4 DEF SeedState, TakesState, DispatchComesFirst
    <3>2. lastEventId'[p] = lastEventId[p] \/ (p = at /\ TakesState(at))
      BY <1>1, <2>4 DEF SeedState, TypeOK, CursorTypeOK
    <3> QED BY <2>1, <3>1, <3>2
  <2>5. ASSUME NEW e \in EventId, EntryExpired(e) \/ Enqueue(e)
        PROVE  lastEventId'[p] = lastEventId[p] /\ backlog'[p] \subseteq backlog[p]
    BY <1>1, <2>5 DEF EntryExpired, Enqueue, TypeOK, CursorTypeOK
  <2>6. ASSUME NEW q \in Plugin, EventHandled(q)
        PROVE  \/ UNCHANGED <<lastEventId[p], backlog[p]>>
               \/ lastEventId'[p] \in EventId
    BY <1>1, <2>6
       DEF EventHandled, UpdateLastEventId, TypeOK, CursorTypeOK, WorkerTypeOK
  <2> QED BY <2>1, <2>2, <2>3, <2>4, <2>5, <2>6, CursorFrame, IdIsKnown
<1>5. ASSUME NEW p \in Plugin PROVE Ok(stateData'[p])
  <2>1. \/ stateData'[p] \in {stateData[p], CursorOf(p), NormalizedState(p), NoCursor}
        \/ stateData'[p] = CursorOf(p)'
        \/ stateData'[p] = eventIdFile[p]
    <3>1. CASE ReadState \/ FinishStop \/ Lost
      BY <3>1 DEF ReadState, FinishStop, Lost
    <3>2. CASE ApplyState
      BY <1>1, <3>2 DEF ApplyState, TypeOK, StateTypeOK
    <3>3. CASE SeedState
      BY <1>1, <3>3 DEF SeedState, TypeOK, StateTypeOK, CursorOf
    <3>4. CASE CollectState("save", "write") \/ CollectState("firstSave", "firstWrite")
      BY <1>1, <3>4 DEF CollectState, TypeOK, StateTypeOK
    <3>5. CASE \/ WriteFile("write", "check") \/ WriteFile("firstWrite", "loop")
               \/ UNCHANGED <<stateVars, fileVars>>
      BY <3>5 DEF WriteFile
    <3> QED BY <3>1, <3>2, <3>3, <3>4, <3>5, StateFrame DEF CrashExit
  <2>2. Ok(NoCursor)
    BY DEF NoCursor
  <2> QED BY <1>2, <1>3, <1>4, <2>1, <2>2
<1>6. ASSUME NEW p \in Plugin PROVE Ok(eventIdFile'[p])
  <2>1. eventIdFile'[p] \in {eventIdFile[p], stateData[p]} \/ eventIdFile' = stateData'
    BY StateFrame DEF ReadState, ApplyState, SeedState, FinishStop, CollectState,
                      WriteFile, WriteState, CrashExit
  <2> QED BY <1>2, <1>5, <2>1
<1> QED BY <1>4, <1>5, <1>6 DEF BacklogHasCursor

\* Callbacks run only for a dispatched event, and for one ahead of the cursor, or
\* one from the backlog.
LEMMA FreshStep ==
    ASSUME DeliveryInv, [Next]_vars PROVE RunIsFresh'
<1>1. TypeOK /\ DispatchComesFirst /\ RunIsFresh
  BY DEF DeliveryInv, IInv
<1>2. SUFFICES ASSUME NEW p \in Plugin
               PROVE  /\ ~Locked(p)' => current'[p] = NoId
                      /\ Locked(p)' => lastDispatchedEventId'[p] # NoId
                      /\ worker'[p] = "first" => Fresh(p, current[p])'
  BY DEF RunIsFresh
<1>3. /\ ~Locked(p) => current[p] = NoId
      /\ Locked(p) => lastDispatchedEventId[p] # NoId
      /\ worker[p] = "first" => Fresh(p, current[p])
  BY <1>1 DEF RunIsFresh
<1>4. CASE worker'[p] = worker[p] /\ current'[p] = current[p]
  <2>1. Locked(p) = Locked(p)'
    BY <1>4 DEF Locked
  <2>2. Locked(p) => lastEventId'[p] = lastEventId[p]
    BY <1>1, <2>1, RunStep
  <2>3. Locked(p)' => lastDispatchedEventId'[p] # NoId
    <3> SUFFICES ASSUME Locked(p)' PROVE lastDispatchedEventId'[p] # NoId
      OBVIOUS
    <3>1. \/ ~(Lost \/ InstallPlugins)
          \/ lastDispatchedEventId'[p] = lastDispatchedEventId[p]
      BY DEF Lost, InstallPlugins, Locked
    <3> QED BY <1>1, <1>3, <2>1, <3>1, DispatchFrame, IdIsKnown DEF Free
  <2> QED BY <1>3, <1>4, <2>1, <2>2, <2>3 DEF Fresh, Locked
<1>5. CASE worker'[p] \notin {"first", "retry"} /\ current'[p] = NoId
  BY <1>5 DEF Locked
<1>6. CASE \/ worker[p] = "raised" /\ worker'[p] = "idle" /\ current'[p] = current[p]
           \/ worker[p] = "idle" /\ worker'[p] = "exited" /\ current'[p] = current[p]
  BY <1>3, <1>6 DEF Locked
<1>7. CASE /\ current'[p] \in Items(p) \ {StopSentinel}
           /\ worker'[p] = IF current'[p] \in backlog[p] THEN "retry" ELSE "first"
           /\ worker'[p] = "first" => Fresh(p, current'[p])
           /\ UNCHANGED <<lastEventId, backlog, lastDispatchedEventId>>
  <2>1. lastDispatchedEventId[p] # NoId
    BY <1>1, <1>7 DEF DispatchComesFirst
  <2> QED BY <1>7, <2>1 DEF Locked, Fresh
<1> QED BY <1>1, <1>4, <1>5, <1>6, <1>7, RunFrame

\* Events reach queues and callbacks only after Shotgun has shown them.
LEMMA PublishedStep ==
    ASSUME DeliveryInv, [Next]_vars PROVE DispatchedIsPublished'
<1>1. TypeOK /\ DispatchedIsPublished
  BY DEF DeliveryInv, IInv
<1>2. published \subseteq published'
  BY OutsideFrame DEF ReloadPlugin, InstallPlugins, BeginStop, Kill, Publish, EditFile
<1>3. batch' \subseteq published'
  <2>1. batch' \subseteq batch \/ batch' \subseteq published
    BY LocalFrame
       DEF Lost, ScanPlugin, MatchTypes, Fetch, ListPlugins, InstallPlugins,
           ReadState, ApplyState, AskLastEventId, SeedState, EntryExpired,
           EntryPending, Enqueue
  <2> QED BY <1>1, <1>2, <2>1 DEF DispatchedIsPublished
<1>4. ASSUME NEW p \in Plugin
      PROVE  /\ Items(p)' \subseteq published' \cup {StopSentinel}
             /\ current'[p] \in published' \cup {NoId}
  <2>1. Items(p) \subseteq published \cup {StopSentinel}
        /\ current[p] \in published \cup {NoId} /\ batch \subseteq published
    BY <1>1 DEF DispatchedIsPublished
  <2>2. Items(p)' \subseteq published' \cup {StopSentinel}
    BY <1>1, <1>2, <2>1, ItemsFrame
  <2>3. current'[p] \in {current[p], NoId} \/ current'[p] \in Items(p) \ {StopSentinel}
    BY <1>1, RunFrame
  <2> QED BY <1>2, <2>1, <2>2, <2>3
<1> QED BY <1>3, <1>4 DEF DispatchedIsPublished

\* Every state has the name of its plugin.
LEMMA UnnamedStep ==
    ASSUME DeliveryInv, [Next]_vars PROVE UnnamedIsNoCursor'
<1>1. TypeOK /\ UnnamedIsNoCursor /\ stateData \in [Plugin -> Cursor] /\ at \in Plugin
  BY DEF DeliveryInv, IInv, TypeOK, StateTypeOK, StepTypeOK
<1>2. ASSUME NEW p \in Plugin, p \notin stateNames' PROVE stateData'[p] = NoCursor
  <2>1. \/ stateData'[p] = stateData[p] /\ stateNames \subseteq stateNames'
        \/ stateData'[p] = eventIdFile[p] /\ stateNames' = eventIdNames
        \/ stateData'[p] = NoCursor
    <3>1. CASE ReadState \/ FinishStop \/ Lost
      BY <1>2, <3>1 DEF ReadState, FinishStop, Lost
    <3>2. CASE ApplyState
      BY <1>1, <1>2, <3>2 DEF ApplyState
    <3>3. CASE SeedState
      BY <1>1, <1>2, <3>3 DEF SeedState
    <3>4. CASE CollectState("save", "write") \/ CollectState("firstSave", "firstWrite")
      BY <1>1, <1>2, <3>4 DEF CollectState
    <3>5. CASE \/ WriteFile("write", "check") \/ WriteFile("firstWrite", "loop")
               \/ UNCHANGED <<stateVars, fileVars>>
      BY <3>5 DEF WriteFile
    <3> QED BY <3>1, <3>2, <3>3, <3>4, <3>5, StateFrame DEF CrashExit
  <2> QED BY <1>1, <1>2, <2>1 DEF UnnamedIsNoCursor
<1>3. ASSUME NEW p \in Plugin, p \notin eventIdNames'
      PROVE  eventIdFile'[p] = NoCursor
  <2>1. \/ UNCHANGED fileVars
        \/ eventIdFile' = stateData /\ eventIdNames' = stateNames
        \/ eventIdFile' = stateData' /\ eventIdNames' = stateNames'
    BY StateFrame DEF ReadState, ApplyState, SeedState, FinishStop, CollectState,
                      WriteFile, WriteState, CrashExit
  <2> QED BY <1>1, <1>2, <1>3, <2>1 DEF UnnamedIsNoCursor
<1> QED BY <1>2, <1>3 DEF UnnamedIsNoCursor

\* While the main thread restores state, nothing else moves the restore on, and a
\* stop comes back to where it was.
LEMMA RestoreFrame ==
    ASSUME IInv, [Next]_vars
    PROVE  \/ ReadState \/ NoFile \/ AskLastEventId \/ ApplyState \/ SeedState
           \/ FinishStop
           \/ \A step \in {"apply", "askId", "seed"} : ~At(step)'
           \/ /\ UNCHANGED <<at, maxStateId, stateData, eventIdFile, plugins,
                             lastDispatchedEventId>>
              /\ \A step \in {"apply", "askId", "seed"} : At(step)' => At(step)
<1> USE DEF At
<1>1. CASE GetNewEvents
  BY <1>1 DEF GetNewEvents, ScanPlugin, ScanDone, EntryGone, EntryExpired,
              EntryPending, NothingToFetch, CheckActive, MatchTypes, Fetch,
              LoopOver
<1>2. CASE (\E e \in EventId : Enqueue(e)) \/ BatchDone \/ CheckBacklog
  BY <1>2 DEF Enqueue, BatchDone, CheckBacklog, LoopOver
<1>3. CASE SaveEventIdData
  BY <1>3 DEF SaveEventIdData, CollectState, WriteFile, LoopOver
<1>4. CASE LoadPlugins
  BY <1>4 DEF LoadPlugins, ListPlugins, ConstructPlugins, ReloadPlugin,
              RetirePlugin, JoinWorker, InstallPlugins, LoopOver
<1>5. CASE LoopTop \/ Start
  BY <1>5 DEF LoopTop, Start
<1>6. CASE BeginStop
  BY <1>6 DEF BeginStop
<1>7. CASE ProcessExit \/ CrashExit \/ Kill
  BY <1>7 DEF ProcessExit, CrashExit, Kill, Lost
<1>8. CASE \E p \in Plugin : WorkerThread(p) \/ EditFile(p)
  BY <1>8 DEF WorkerThread, RunCallbacks, TakeItem, EventHandled, EventIgnored,
              CallbackFails, DeactivateRaised, EditFile
<1>9. CASE (\E e \in EventId : Publish(e)) \/ UNCHANGED vars
  BY <1>9 DEF Publish
<1> QED
  BY <1>1, <1>2, <1>3, <1>4, <1>5, <1>6, <1>7, <1>8, <1>9
     DEF Next, MainThread, LoadEventIdData

\* Where the restores begin and go on.
LEMMA RestoreMoves ==
    /\ ReadState => ~At("askId")' /\ ~At("seed")'
    /\ NoFile => ~At("apply")' /\ ~At("seed")'
    /\ AskLastEventId => ~At("apply")' /\ ~At("askId")'
    /\ ApplyState => /\ pc = "apply" /\ ~At("askId")' /\ ~At("seed")'
                     /\ At("apply")' => at' = at + 1 /\ maxStateId' = maxStateId
    /\ SeedState => /\ pc = "seed" /\ ~At("askId")' /\ ~At("apply")'
                    /\ At("seed")' => at' = at + 1 /\ maxStateId' = maxStateId
    /\ FinishStop => /\ UNCHANGED <<at, maxStateId>>
                     /\ \A step \in {"apply", "askId", "seed"} : At(step)' => At(step)
  BY DEF ReadState, NoFile, AskLastEventId, ApplyState, SeedState, FinishStop, At,
         LoopOver

\* A plugin that a state is yet to be restored to has in the file what it will be
\* given, or something older than what it will be given.
LEMMA RestoresStep ==
    ASSUME DeliveryInv, [Next]_vars PROVE RestoresFile'
<1>1. /\ IInv /\ TypeOK /\ RestoresFile /\ UnnamedIsNoCursor
      /\ DispatchComesFirst /\ at \in Plugin
  BY DEF DeliveryInv, IInv, TypeOK, StepTypeOK
<1>2. SUFFICES ASSUME NEW p \in plugins', TakesState(p)'
               PROVE  /\ At("apply")' /\ p >= at' =>
                            /\ eventIdFile'[p].last <= maxStateId'
                            /\ \/ stateData'[p].last = NoId
                               \/ stateData'[p] = eventIdFile'[p]
                      /\ At("askId")' \/ At("seed")' => eventIdFile'[p].last = NoId
  BY DEF RestoresFile
<1>3. TakesState(p)' = (lastDispatchedEventId'[p] = NoId)
  BY DEF TakesState
<1>4. CASE \A step \in {"apply", "askId", "seed"} : ~At(step)'
  BY <1>4
<1>5. CASE /\ UNCHANGED <<at, maxStateId, stateData, eventIdFile, plugins,
                          lastDispatchedEventId>>
           /\ \A step \in {"apply", "askId", "seed"} : At(step)' => At(step)
  BY <1>1, <1>2, <1>5 DEF RestoresFile, TakesState
<1>6. CASE ReadState
  <2>1. \/ eventIdFile[p].last <= maxStateId' /\ stateData'[p] = eventIdFile[p]
        \/ ~At("apply")'
    <3>1. p \in Plugin
      BY <1>1, <1>2, <1>6 DEF ReadState, TypeOK, CollectionTypeOK
    <3>2. CASE plugins # {}
      <4>1. p \in eventIdNames => eventIdFile[p].last <= maxStateId'
        BY <1>6, <3>2 DEF ReadState
      <4>2. p \notin eventIdNames => eventIdFile[p].last = 0
        BY <1>1, <3>1 DEF UnnamedIsNoCursor, NoCursor, NoId
      <4>3. maxStateId' \in Nat
        BY <1>1, <1>6, LocalType DEF LocalTypeOK, EventId, NoId
      <4> QED BY <1>6, <3>2, <4>1, <4>2, <4>3 DEF ReadState
    <3>3. CASE plugins = {}
      BY <1>2, <1>6, <3>3 DEF ReadState
    <3> QED BY <3>2, <3>3
  <2> QED BY <1>6, <2>1, RestoreMoves DEF ReadState
<1>7. CASE NoFile
  <2>1. eventIdFile'[p].last = NoId
    BY <1>1, <1>2, <1>7
       DEF NoFile, UnnamedIsNoCursor, NoCursor, TypeOK, CollectionTypeOK
  <2> QED BY <1>7, <2>1, RestoreMoves
<1>8. CASE AskLastEventId
  BY <1>1, <1>2, <1>8, RestoreMoves DEF AskLastEventId, RestoresFile, At, TakesState
<1>9. CASE ApplyState \/ SeedState
  <2>1. p \in plugins /\ p \in Plugin /\ UNCHANGED eventIdFile
    BY <1>1, <1>2, <1>9 DEF ApplyState, SeedState, TypeOK, CollectionTypeOK
  <2>2. CASE p # at
    <3>1. stateData'[p] = stateData[p]
          /\ lastDispatchedEventId'[p] = lastDispatchedEventId[p]
      BY <1>1, <1>9, <2>1, <2>2
         DEF ApplyState, SeedState, TypeOK, StateTypeOK, CursorTypeOK
    <3>2. p \in Nat /\ at \in Nat
      BY <1>1, <2>1, ConstantsAssumption DEF Plugin
    <3> QED
      BY <1>1, <1>2, <1>9, <2>1, <2>2, <3>1, <3>2, RestoreMoves
         DEF RestoresFile, TakesState, At
  <2>3. CASE p = at
    <3>1. ~(At("apply")' /\ p >= at')
      BY <1>1, <1>9, <2>3, RestoreMoves, ConstantsAssumption DEF Plugin
    <3>2. At("seed")' => eventIdFile[p].last = NoId
      <4> SUFFICES ASSUME At("seed")' PROVE eventIdFile[p].last = NoId
        OBVIOUS
      <4>1. SeedState /\ At("seed")
        BY <1>9, RestoreMoves DEF At
      <4>2. lastDispatchedEventId[p] = NoId
        BY <1>1, <1>2, <1>3, <2>1, <2>3, <4>1
           DEF SeedState, TakesState, TypeOK, CursorTypeOK
      <4> QED BY <1>1, <2>1, <4>1, <4>2 DEF RestoresFile, TakesState
    <3> QED BY <1>9, <2>1, <3>1, <3>2, RestoreMoves
  <2> QED BY <2>2, <2>3
<1>10. CASE FinishStop
  <2>1. p \in plugins /\ p \in Plugin /\ lastDispatchedEventId[p] = NoId
    BY <1>1, <1>2, <1>3, <1>10 DEF FinishStop, TypeOK, CollectionTypeOK
  <2>2. stateData'[p].last = NoId
    BY <1>1, <1>10, <2>1 DEF FinishStop, DispatchComesFirst, CursorOf
  <2>3. eventIdFile'[p] = eventIdFile[p] \/ eventIdFile'[p].last = NoId
    BY <1>10, <2>2 DEF FinishStop
  <2>4. maxStateId' = maxStateId /\ at' = at /\ NoId <= maxStateId
    BY <1>1, <1>10 DEF FinishStop, TypeOK, LocalTypeOK, EventId, NoId
  <2> QED
    BY <1>1, <1>10, <2>1, <2>2, <2>3, <2>4, RestoreMoves
       DEF RestoresFile, TakesState
<1> QED BY <1>1, <1>4, <1>5, <1>6, <1>7, <1>8, <1>9, <1>10, RestoreFrame

\* Cursors are seeded with an id that Shotgun has.
LEMMA SeedStep ==
    ASSUME DeliveryInv, [Next]_vars PROVE SeedIsKnown'
<1>1. IInv /\ TypeOK /\ SeedIsKnown
  BY DEF DeliveryInv, IInv
<1>2. CASE AskLastEventId
  BY <1>1, <1>2, IdIsKnown DEF AskLastEventId, SeedIsKnown, TypeOK, OutsideTypeOK
<1>3. CASE SeedState
  BY <1>1, <1>3, RestoreMoves DEF SeedIsKnown, At
<1> QED BY <1>1, <1>2, <1>3, RestoreFrame, RestoreMoves DEF SeedIsKnown

\* DeliveryInv holds at the start ...
LEMMA DeliveryInvInit == Init => DeliveryInv
<1> SUFFICES ASSUME Init PROVE DeliveryInv
  OBVIOUS
<1>1. DispatchComesFirst /\ UnloadedIsBlank /\ RunIsFresh
  BY DEF Init, DispatchComesFirst, UnloadedIsBlank, RunIsFresh, Items, ItemsOf,
         Locked
<1>2. BacklogHasCursor /\ UnnamedIsNoCursor /\ DispatchedIsPublished
  BY DEF Init, BacklogHasCursor, UnnamedIsNoCursor, DispatchedIsPublished,
         CursorOf, NoCursor, Items, ItemsOf
<1>3. RestoresFile /\ SeedIsKnown
  BY DEF Init, RestoresFile, SeedIsKnown, At
<1> QED BY <1>1, <1>2, <1>3, InvariantInit DEF DeliveryInv

\* ... and every step keeps it.
LEMMA DeliveryInvStep == DeliveryInv /\ [Next]_vars => DeliveryInv'
<1> SUFFICES ASSUME DeliveryInv, [Next]_vars PROVE DeliveryInv'
  OBVIOUS
<1>1. IInv'
  BY InvariantStep DEF DeliveryInv
<1> QED
  BY <1>1, UnloadedStep, DispatchStep, BacklogStep, FreshStep, PublishedStep,
     UnnamedStep, RestoresStep, SeedStep
     DEF DeliveryInv

\* What is dispatched, run, checkpointed and restored fits together in every
\* reachable state, for any constants.
THEOREM DeliveryInvHolds == Spec => []DeliveryInv
  BY DeliveryInvInit, DeliveryInvStep, PTL DEF Spec

-----------------------------------------------------------------------------
(* The refinement *)

\* What Delivery sees of the engine.
BarVars == <<published, handledBar, waivedBar, reachedBar, savedBar>>

\* Its view changes only with these variables.
LEMMA ViewFrame ==
    /\ UNCHANGED fate => UNCHANGED <<handledBar, waivedBar>>
    /\ UNCHANGED <<lastEventId, backlog>> => UNCHANGED reachedBar
    /\ UNCHANGED eventIdFile => UNCHANGED savedBar
  BY DEF CursorOf, handledBar, waivedBar, reachedBar, savedBar

\* What a cursor that is accounted for has passed is settled.
LEMMA PassedIsSettled ==
    ASSUME NEW p \in Plugin, NEW c, Accounted(p, c)
    PROVE  PassedBy(c) \subseteq Promise!Settled(p)
  BY DEF Accounted, Passed, PassedBy, Promise!Settled, handledBar, waivedBar

\* A cursor without an id has passed nothing.
LEMMA PassedByNothing ==
    ASSUME NEW c, c.last = NoId
    PROVE  PassedBy(c) = {}
  BY ConstantsAssumption DEF PassedBy, NoId, EventId

\* Giving up S for a plugin waives what was not handled.
LEMMA DropWaives ==
    ASSUME HistoryTypeOK, NEW p \in Plugin, NEW S \in SUBSET EventId,
           NEW f \in Fate \ {"open", "done"}, Drop(p, S, f)
    PROVE  /\ handledBar' = handledBar
           /\ waivedBar' = [waivedBar EXCEPT ![p] = @ \cup (S \ handledBar[p])]
<1>1. ASSUME NEW q \in Plugin, NEW e \in EventId
      PROVE  fate'[q][e] = IF q = p /\ e \in S /\ fate[q][e] = "open"
                           THEN f ELSE fate[q][e]
  BY DEF Drop, HistoryTypeOK
<1>2. f # "open" /\ f # "done"
  OBVIOUS
<1>3. handledBar' = handledBar
  BY <1>1, <1>2 DEF handledBar
<1>4. \A q \in Plugin : q # p => waivedBar'[q] = waivedBar[q]
  BY <1>1 DEF waivedBar
<1>5. waivedBar'[p] = waivedBar[p] \cup (S \ handledBar[p])
  BY <1>1, <1>2 DEF handledBar, waivedBar
<1> QED BY <1>3, <1>4, <1>5 DEF waivedBar

\* The initial states of the engine are initial states of Delivery.
LEMMA RefinementInit == Init => Promise!Init
<1> SUFFICES ASSUME Init PROVE Promise!Init
  OBVIOUS
<1>1. published \subseteq EventId
  BY ConstantsAssumption DEF Init, EventId
<1>2. handledBar = [p \in Plugin |-> {}] /\ waivedBar = [p \in Plugin |-> {}]
  BY DEF Init, handledBar, waivedBar
<1>3. reachedBar = [p \in Plugin |-> {}] /\ savedBar = [p \in Plugin |-> {}]
  BY PassedByNothing DEF Init, CursorOf, NoCursor, reachedBar, savedBar
<1> QED BY <1>1, <1>2, <1>3 DEF Promise!Init

\* A finished event is delivered: it had not been reached, and everything that the
\* cursor now passes is settled.
LEMMA HandledDelivers ==
    ASSUME DeliveryInv, IInv', NEW p \in Plugin, EventHandled(p)
    PROVE  Promise!Deliver(p, current[p]) \/ UNCHANGED BarVars
<1> DEFINE e == current[p]
           passed == IF lastEventId[p] = NoId THEN 1..(e - 1)
                     ELSE IF SmallGap(p, e) THEN {} ELSE Gap(p, e)
           why == IF lastEventId[p] = NoId THEN "reset" ELSE "largeGap"
<1>1. /\ TypeOK /\ HistoryTypeOK /\ e \in EventId /\ e \in published
      /\ backlog[p] \in SUBSET EventId /\ lastEventId[p] \in EventId \cup {NoId}
  BY IdIsKnown
     DEF DeliveryInv, IInv, TypeOK, WorkerTypeOK, CursorTypeOK, EventHandled,
         DispatchedIsPublished
<1>2. CASE worker[p] = "retry" /\ e \notin backlog[p]
  BY <1>2, ViewFrame DEF EventHandled, BarVars
<1>3. CASE ~(worker[p] = "retry" /\ e \notin backlog[p])
  <2>1. UpdateLastEventId(p, e) /\ RecordDone(p, e)
        /\ UNCHANGED <<published, eventIdFile>>
    BY <1>3 DEF EventHandled
  <2>2. e \notin reachedBar[p]
    <3>1. e \in backlog[p] \/ lastEventId[p] = NoId \/ e > lastEventId[p]
      BY <1>3 DEF EventHandled, Locked, DeliveryInv, RunIsFresh, Fresh
    <3> QED
      BY <1>1, <3>1, ConstantsAssumption
         DEF PassedBy, CursorOf, EventId, NoId, reachedBar
  <2>3. ASSUME NEW q \in Plugin, NEW i \in EventId
        PROVE  fate'[q][i] = IF q # p THEN fate[q][i]
                             ELSE IF i = e THEN "done"
                             ELSE IF i \in passed \ backlog[p] /\ fate[p][i] = "open"
                             THEN why ELSE fate[p][i]
    <3> fate' = [fate EXCEPT ![p] = [k \in EventId |->
                    IF k = e THEN "done"
                    ELSE IF k \in passed \ backlog[p] /\ @[k] = "open" THEN why
                    ELSE @[k]]]
      BY <2>1 DEF RecordDone
    <3> HIDE DEF passed, why, e
    <3> QED BY <1>1 DEF HistoryTypeOK
  <2>4. why # "open" /\ why # "done" /\ \A i \in passed : i \in EventId /\ i < e
    BY <1>1, GapBounds, BelowBounds
  <2> HIDE DEF passed, why, e
  <2>5. handledBar' = [handledBar EXCEPT ![p] = @ \cup {e}]
    BY <1>1, <2>3, <2>4 DEF handledBar
  <2>6. \E S \in SUBSET {f \in EventId : f < e} :
            waivedBar' = [waivedBar EXCEPT ![p] = (@ \cup (S \ handledBar[p])) \ {e}]
    <3>1. (passed \ backlog[p]) \in SUBSET {f \in EventId : f < e}
      BY <2>4
    <3>2. \A q \in Plugin : q # p => waivedBar'[q] = waivedBar[q]
      BY <2>3 DEF waivedBar
    <3>3. waivedBar'[p] = (waivedBar[p] \cup ((passed \ backlog[p]) \ handledBar[p])) \ {e}
      BY <2>3, <2>4 DEF handledBar, waivedBar
    <3>4. waivedBar' = [waivedBar EXCEPT ![p] =
                (@ \cup ((passed \ backlog[p]) \ handledBar[p])) \ {e}]
      BY <3>2, <3>3 DEF waivedBar
    <3> QED BY <3>1, <3>4
  <2>7. lastEventId'[p] = e /\ e \notin backlog'[p]
    BY <1>1, <2>1, ConstantsAssumption
       DEF UpdateLastEventId, Gap, TypeOK, CursorTypeOK, EventId, NoId
  <2>8. e \in reachedBar'[p]
    BY <1>1, <2>7 DEF PassedBy, CursorOf, EventId, reachedBar
  <2>9. reachedBar'[p] \subseteq Promise!Settled(p)'
    BY DEF IInv, NoSilentLoss, Accounted, Passed, PassedBy, CursorOf, reachedBar,
           handledBar, waivedBar, Promise!Settled
  <2>10. reachedBar' = [reachedBar EXCEPT ![p] = reachedBar'[p]]
    BY <1>1, <2>1 DEF UpdateLastEventId, CursorOf, TypeOK, CursorTypeOK, reachedBar
  <2>11. savedBar' = savedBar /\ published' = published
    BY <2>1, ViewFrame
  <2> QED
    BY <1>1, <2>2, <2>5, <2>6, <2>8, <2>9, <2>10, <2>11 DEF Promise!Deliver, e
<1> QED BY <1>2, <1>3

\* An expired entry of the backlog is given up.
LEMMA ExpiredGivesUp ==
    ASSUME DeliveryInv, NEW k \in EventId, EntryExpired(k)
    PROVE  Promise!GiveUp(at, k)
<1>1. TypeOK /\ HistoryTypeOK /\ at \in Plugin
      /\ backlog \in [Plugin -> SUBSET EventId]
  BY DEF DeliveryInv, IInv, TypeOK, StepTypeOK, CursorTypeOK
<1>2. /\ k \in backlog[at] /\ backlog' = [backlog EXCEPT ![at] = @ \ {k}]
      /\ Drop(at, {k}, "expired") /\ UNCHANGED <<lastEventId, published, eventIdFile>>
  BY DEF EntryExpired
<1>3. handledBar' = handledBar
      /\ waivedBar' = [waivedBar EXCEPT ![at] = @ \cup ({k} \ handledBar[at])]
  <2>1. "expired" \in Fate \ {"open", "done"} /\ {k} \in SUBSET EventId
    BY DEF Fate
  <2> QED BY <1>1, <1>2, <2>1, DropWaives
<1>4. k \notin reachedBar[at]
  BY <1>1, <1>2 DEF PassedBy, CursorOf, reachedBar
<1>5. reachedBar'[at] \in {reachedBar[at], reachedBar[at] \cup {k}}
      /\ \A q \in Plugin : q # at => reachedBar'[q] = reachedBar[q]
  <2>1. backlog'[at] = backlog[at] \ {k}
    BY <1>1, <1>2
  <2>2. \A q \in Plugin : q # at => reachedBar'[q] = reachedBar[q]
    BY <1>1, <1>2 DEF CursorOf, reachedBar
  <2>3. reachedBar'[at] = PassedBy([last |-> lastEventId[at], backlog |-> backlog[at] \ {k}])
    BY <1>1, <1>2, <2>1 DEF CursorOf, reachedBar
  <2>4. CASE k <= lastEventId[at]
    BY <1>1, <1>2, <2>2, <2>3, <2>4 DEF PassedBy, CursorOf, reachedBar
  <2>5. CASE ~(k <= lastEventId[at])
    BY <1>1, <1>2, <2>2, <2>3, <2>5 DEF PassedBy, CursorOf, reachedBar
  <2> QED BY <2>4, <2>5
<1>6. reachedBar' \in {reachedBar, [reachedBar EXCEPT ![at] = @ \cup {k}]}
  BY <1>1, <1>5 DEF reachedBar
<1> QED BY <1>2, <1>3, <1>4, <1>6, ViewFrame DEF Promise!GiveUp

\* A restored state is the checkpoint, or gives up what is older than the state of
\* the others; a plugin that was not reset keeps what it has.
LEMMA RestoreResumes ==
    ASSUME DeliveryInv, ApplyState \/ SeedState, NEW p \in Plugin, p = at
    PROVE  Promise!Resume(p) \/ UNCHANGED BarVars
<1> DEFINE Older(m) == {e \in EventId : e <= m}
<1>1. /\ TypeOK /\ HistoryTypeOK
      /\ lastEventId \in [Plugin -> EventId \cup {NoId}]
      /\ backlog \in [Plugin -> SUBSET EventId]
      /\ eventIdFile \in [Plugin -> Cursor]
      /\ maxStateId \in EventId \cup {NoId}
  BY DEF DeliveryInv, IInv, TypeOK, StepTypeOK, CursorTypeOK, StateTypeOK, LocalTypeOK
<1>2. UNCHANGED <<published, eventIdFile>>
  BY DEF ApplyState, SeedState
<1>3. CASE UNCHANGED <<lastEventId, backlog, fate>>
  BY <1>2, <1>3, ViewFrame DEF BarVars
<1>4. CASE p \in plugins /\ TakesState(p) /\ ~UNCHANGED <<lastEventId, backlog, fate>>
  <2>1. lastEventId[p] = NoId /\ backlog[p] = {} /\ reachedBar[p] = {}
    <3>1. lastEventId[p] = NoId
      BY <1>1, <1>4 DEF DeliveryInv, DispatchComesFirst, TakesState
    <3>2. backlog[p] = {}
      BY <1>1, <3>1 DEF DeliveryInv, BacklogHasCursor, CursorOf
    <3> QED BY <1>1, <3>1, <3>2, PassedByNothing DEF reachedBar, CursorOf
  <2>2. \A q \in Plugin : q # p => UNCHANGED <<lastEventId[q], backlog[q]>>
    BY <1>1 DEF ApplyState, SeedState
  <2>3. reachedBar' = [reachedBar EXCEPT ![p] = PassedBy(CursorOf(p)')]
    BY <1>1, <2>2 DEF reachedBar, CursorOf
  <2>4. \A m \in EventId : 1..m = Older(m)
    BY ConstantsAssumption DEF EventId
  <2>5. ASSUME NEW m \in EventId, CursorOf(p)' = [last |-> m, backlog |-> {}],
               NEW f \in {"before", "fastForward"}, Drop(p, 1..m, f),
               eventIdFile[p].last <= m
        PROVE  Promise!Resume(p)
    <3>1. f \in Fate \ {"open", "done"} /\ Older(m) \in SUBSET EventId
      BY DEF Fate
    <3>2. Drop(p, Older(m), f)
      BY <2>4, <2>5
    <3>3. handledBar' = handledBar
          /\ waivedBar' = [waivedBar EXCEPT ![p] = @ \cup (Older(m) \ handledBar[p])]
      BY <1>1, <3>1, <3>2, DropWaives
    <3>4. PassedBy(CursorOf(p)') = Older(m)
      BY <2>5 DEF PassedBy
    <3>5. savedBar[p] \subseteq Older(m)
      <4>1. eventIdFile[p].last \in Nat /\ m \in Nat
        BY <1>1, ConstantsAssumption DEF Cursor, EventId, NoId
      <4> QED BY <1>1, <2>5, <4>1, ConstantsAssumption DEF savedBar, PassedBy, EventId
    <3> QED
      BY <1>2, <2>1, <2>3, <3>3, <3>4, <3>5, ViewFrame DEF Promise!Resume
  <2>6. CASE SeedState
    <3>1. /\ lastEventId'[p] = maxStateId /\ backlog'[p] = {}
          /\ Drop(p, 1..maxStateId, "before")
      BY <1>1, <1>4, <2>1, <2>6 DEF SeedState
    <3>2. maxStateId \in EventId
      BY <1>1, <2>6 DEF SeedState, DeliveryInv, SeedIsKnown, At
    <3>3. eventIdFile[p].last = NoId
      BY <1>1, <1>4, <2>6 DEF SeedState, DeliveryInv, RestoresFile, At
    <3>4. eventIdFile[p].last <= maxStateId
      BY <3>2, <3>3 DEF EventId, NoId
    <3> QED BY <2>5, <3>1, <3>2, <3>4 DEF CursorOf
  <2>7. CASE ApplyState
    <3> DEFINE state == NormalizedState(p)
    <3>1. state \in Cursor
      BY <1>1, NormalizedStateType
    <3>2. /\ p \in stateNames \/ maxStateId # NoId
          /\ lastEventId'[p] = state.last /\ backlog'[p] = state.backlog
          /\ IF state = stateData[p] /\ p \in stateNames
             THEN UNCHANGED fate
             ELSE Drop(p, 1..state.last,
                       IF p \in stateNames THEN "fastForward" ELSE "before")
      BY <1>1, <1>4, <2>7 DEF ApplyState
    <3>3. CursorOf(p)' = state
      BY <3>1, <3>2 DEF CursorOf, Cursor
    <3>4. /\ eventIdFile[p].last <= maxStateId
          /\ stateData[p].last = NoId \/ stateData[p] = eventIdFile[p]
      <4>1. p >= at
        BY <1>1, ConstantsAssumption DEF Plugin
      <4> QED BY <1>4, <2>7, <4>1 DEF ApplyState, DeliveryInv, RestoresFile, At
    <3>5. CASE state = stateData[p] /\ p \in stateNames
      <4>1. CASE stateData[p].last = NoId
        <5>1. PassedBy(CursorOf(p)') = {}
          BY <3>3, <3>5, <4>1, PassedByNothing
        <5>2. reachedBar' = reachedBar
          BY <1>1, <2>1, <2>3, <5>1 DEF reachedBar
        <5> QED BY <1>2, <3>2, <3>5, <5>2, ViewFrame DEF BarVars
      <4>2. CASE stateData[p] = eventIdFile[p]
        <5>1. PassedBy(CursorOf(p)') = savedBar[p]
          BY <1>1, <3>3, <3>5, <4>2 DEF savedBar
        <5> QED
          BY <1>2, <2>1, <2>3, <3>2, <3>5, <5>1, ViewFrame DEF Promise!Resume
      <4> QED BY <3>4, <4>1, <4>2
    <3>6. CASE ~(state = stateData[p] /\ p \in stateNames)
      <4>1. state = [last |-> maxStateId, backlog |-> {}]
        BY <3>6 DEF NormalizedState
      <4>2. maxStateId # NoId
        BY <3>2, <3>6 DEF NormalizedState, Stale
      <4>3. PICK f \in {"before", "fastForward"} : Drop(p, 1..maxStateId, f)
        BY <3>2, <3>6, <4>1
      <4> QED BY <1>1, <2>5, <3>3, <3>4, <4>1, <4>2, <4>3
    <3> QED BY <3>5, <3>6
  <2> QED BY <2>6, <2>7
<1>5. CASE ~(p \in plugins /\ TakesState(p))
  BY <1>3, <1>5 DEF ApplyState, SeedState
<1> QED BY <1>3, <1>4, <1>5

\* When the memory is lost, or a plugin is removed, what was reached is forgotten.
LEMMA LossForgets ==
    ASSUME Lost \/ InstallPlugins, UNCHANGED <<published, fate, eventIdFile>>
    PROVE  Promise!Forget
<1>1. \A p \in Plugin : \/ lastEventId'[p] = NoId
                        \/ UNCHANGED <<lastEventId[p], backlog[p]>>
  BY DEF Lost, InstallPlugins
<1>2. \A p \in Plugin : reachedBar'[p] \in {{}, reachedBar[p]}
  BY <1>1, PassedByNothing DEF reachedBar, CursorOf
<1> QED BY <1>2, ViewFrame DEF Promise!Forget

\* What is written to the event id file is settled.
LEMMA SaveCheckpoints ==
    ASSUME DeliveryInv,
           UNCHANGED <<published, fate>> /\ UNCHANGED reachedBar,
           \A p \in Plugin : \/ eventIdFile'[p] = eventIdFile[p]
                             \/ Accounted(p, eventIdFile'[p])
    PROVE  Promise!Checkpoint
<1>1. ASSUME NEW p \in Plugin
      PROVE  savedBar'[p] = savedBar[p] \/ savedBar'[p] \subseteq Promise!Settled(p)
  BY PassedIsSettled DEF savedBar
<1> QED BY <1>1, ViewFrame DEF Promise!Checkpoint

\* A write of the collected states, or a stop that saves, is a checkpoint.
LEMMA WriteCheckpoints ==
    ASSUME DeliveryInv,
           \/ WriteFile("write", "check") \/ WriteFile("firstWrite", "loop")
           \/ FinishStop
    PROVE  Promise!Checkpoint
<1>1. UNCHANGED <<published, fate, lastEventId, backlog>>
  BY DEF WriteFile, FinishStop
<1>2. ASSUME NEW p \in Plugin
      PROVE  eventIdFile'[p] = eventIdFile[p] \/ Accounted(p, eventIdFile'[p])
  <2>1. CASE FinishStop
    <3>1. Accounted(p, CursorOf(p))
      BY DEF DeliveryInv, IInv, NoSilentLoss
    <3>2. p \notin plugins => Accounted(p, stateData[p])
      BY DEF DeliveryInv, IInv, StateAccounted, CollectedStateCounts
    <3> QED BY <2>1, <3>1, <3>2 DEF FinishStop
  <2>2. CASE WriteFile("write", "check") \/ WriteFile("firstWrite", "loop")
    <3>1. Accounted(p, stateData[p])
      BY <2>2 DEF WriteFile, DeliveryInv, IInv, StateAccounted, CollectedStateCounts
    <3> QED BY <2>2, <3>1 DEF WriteFile, WriteState
  <2> QED BY <2>1, <2>2
<1> QED BY <1>1, <1>2, SaveCheckpoints, ViewFrame

\* A crash forgets, and only an engine without plugins saves on its way out.
LEMMA CrashForgets ==
    ASSUME DeliveryInv, CrashExit
    PROVE  Promise!Forget \/ Promise!Checkpoint
<1>1. Lost /\ UNCHANGED <<published, fate>>
  BY DEF CrashExit
<1>2. CASE UNCHANGED fileVars
  BY <1>1, <1>2, LossForgets
<1>3. CASE plugins = {} /\ eventIdFile' = stateData
  <2>1. \A p \in Plugin : Accounted(p, eventIdFile'[p])
    BY <1>3 DEF DeliveryInv, IInv, StateAccounted, CollectedStateCounts
  <2>2. \A p \in Plugin : lastEventId[p] = NoId /\ lastEventId'[p] = NoId
    BY <1>1, <1>3 DEF Lost, DeliveryInv, UnloadedIsBlank, DispatchComesFirst
  <2>3. UNCHANGED reachedBar
    BY <2>2, PassedByNothing DEF reachedBar, CursorOf
  <2> QED BY <1>1, <2>1, <2>3, SaveCheckpoints
<1> QED BY <1>2, <1>3 DEF CrashExit, WriteState

\* Every other step changes nothing that Delivery sees, or publishes an event.
LEMMA OtherSteps ==
    ASSUME [Next]_vars
    PROVE  \/ UNCHANGED <<published, fate, lastEventId, backlog, eventIdFile>>
           \/ \E e \in EventId : Publish(e)
           \/ \E p \in Plugin : EventHandled(p)
           \/ \E k \in EventId : EntryExpired(k)
           \/ ApplyState \/ SeedState \/ CrashExit
           \/ (Lost \/ InstallPlugins) /\ UNCHANGED <<published, fate, eventIdFile>>
           \/ WriteFile("write", "check") \/ WriteFile("firstWrite", "loop")
           \/ FinishStop
<1>1. CASE Lost
  BY <1>1, FateFrame, OutsideFrame, StateFrame
     DEF ReloadPlugin, InstallPlugins, BeginStop, Kill, Publish, EditFile,
         ReadState, CollectState
<1>2. CASE InstallPlugins
  BY <1>2 DEF InstallPlugins
<1>3. CASE ~(Lost \/ InstallPlugins)
  <2>1. UNCHANGED <<lastEventId, backlog>> \/ ApplyState \/ SeedState
        \/ (\E e \in EventId : EntryExpired(e)) \/ (\E p \in Plugin : EventHandled(p))
    BY <1>3, CursorFrame DEF Enqueue
  <2>2. UNCHANGED published \/ \E e \in EventId : Publish(e)
    BY <1>3, OutsideFrame DEF ReloadPlugin, BeginStop, Kill, EditFile
  <2>3. UNCHANGED eventIdFile \/ CrashExit \/ FinishStop
        \/ WriteFile("write", "check") \/ WriteFile("firstWrite", "loop")
    BY <1>3, StateFrame DEF ReadState, ApplyState, SeedState, CollectState
  <2> QED BY <2>1, <2>2, <2>3, FateFrame
<1> QED BY <1>1, <1>2, <1>3

\* Every step of the engine is a step of Delivery or changes nothing there.
LEMMA RefinementStep ==
    DeliveryInv /\ IInv' /\ [Next]_vars => [Promise!Next]_(Promise!vars)
<1> SUFFICES ASSUME DeliveryInv, IInv', [Next]_vars
             PROVE  Promise!Next \/ UNCHANGED BarVars
  BY DEF Promise!vars, BarVars
<1>1. TypeOK /\ at \in Plugin
  BY DEF DeliveryInv, IInv, TypeOK, StepTypeOK
<1>2. CASE UNCHANGED <<published, fate, lastEventId, backlog, eventIdFile>>
  BY <1>2, ViewFrame DEF BarVars
<1>3. ASSUME NEW e \in EventId, Publish(e) PROVE Promise!Publish(e)
  BY <1>3, ViewFrame DEF Publish, Promise!Publish
<1>4. ASSUME NEW p \in Plugin, EventHandled(p) PROVE Promise!Next \/ UNCHANGED BarVars
  <2>1. current[p] \in EventId
    BY <1>1, <1>4 DEF EventHandled, TypeOK, WorkerTypeOK
  <2> QED BY <1>4, <2>1, HandledDelivers DEF Promise!Next
<1>5. ASSUME NEW k \in EventId, EntryExpired(k) PROVE Promise!Next
  BY <1>1, <1>5, ExpiredGivesUp DEF Promise!Next
<1>6. CASE ApplyState \/ SeedState
  <2>1. PICK p \in Plugin : p = at
    BY <1>1
  <2> QED BY <1>6, <2>1, RestoreResumes DEF Promise!Next
<1>7. CASE CrashExit
  BY <1>7, CrashForgets DEF Promise!Next
<1>8. CASE (Lost \/ InstallPlugins) /\ UNCHANGED <<published, fate, eventIdFile>>
  BY <1>8, LossForgets DEF Promise!Next
<1>9. CASE \/ WriteFile("write", "check") \/ WriteFile("firstWrite", "loop")
           \/ FinishStop
  BY <1>9, WriteCheckpoints DEF Promise!Next
<1> QED
  BY <1>2, <1>3, <1>4, <1>5, <1>6, <1>7, <1>8, <1>9, OtherSteps DEF Promise!Next

\* The engine, its threads, its crashes and restarts implement at-least-once
\* delivery: for every number of plugins and events and all sizes of batch, gap and
\* lag, nothing counts as reached or saved for a plugin that was not delivered to it
\* or given up in one of the situations Delivery lists.
THEOREM DeliveryImplemented == Spec => ImplementsDelivery
<1>1. DeliveryInv => IInv
  BY DEF DeliveryInv
<1> QED
  BY <1>1, RefinementInit, RefinementStep, DeliveryInvHolds, PTL
     DEF Spec, ImplementsDelivery, Promise!Spec
================================================================================
