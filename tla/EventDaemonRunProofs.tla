------------------------- MODULE EventDaemonRunProofs -------------------------
(***************************************************************************)
(* Theorems about EventDaemon for every value of its constants: a worker   *)
(* ends with an empty queue, what was dispatched is accounted for or in    *)
(* flight, and what was done stays in the cursor or in the checkpoint, so  *)
(* that no event is run again without a reason.                            *)
(***************************************************************************)
EXTENDS EventDaemonProofs

USE DEF vars, pluginVars, cursorVars, dispatchVars, loadVars, workerVars,
        runVars, localVars, stateVars, fileVars, diskVars, boundVars,
        historyVars, outsideVars, storeVars

-----------------------------------------------------------------------------
(* Where the main thread is *)

\* Of the locals of the main thread each belongs to some steps and is reset after
\* them, and the loops over the plugins start with the first.
LEMMA LocalsReset ==
    ASSUME DeliveryInv, StepInv, [Next]_vars
    PROVE  /\ StopIsNoted' /\ LoopIsReset' /\ ApplyHasState' /\ SeedHasNoFile'
           /\ FetchIsReset' /\ SeedIsReset'
<1>1. at \in Plugin /\ NumPlugins \in Nat
  BY ConstantsAssumption DEF DeliveryInv, IInv, TypeOK, StepTypeOK
<1> USE DEF StepInv, At, StopIsNoted, LoopIsReset, ApplyHasState, SeedHasNoFile,
            FetchIsReset, SeedIsReset
<1>2. CASE GetNewEvents
  BY <1>2 DEF GetNewEvents, ScanPlugin, ScanDone, EntryGone, EntryExpired,
              EntryPending, NothingToFetch, CheckActive, MatchTypes, Fetch,
              LoopOver
<1>3. CASE (\E e \in EventId : Enqueue(e)) \/ BatchDone \/ CheckBacklog
  BY <1>3 DEF Enqueue, BatchDone, CheckBacklog, LoopOver
<1>4. CASE SaveEventIdData
  BY <1>4 DEF SaveEventIdData, CollectState, WriteFile, LoopOver
<1>5. CASE LoadPlugins
  BY <1>5 DEF LoadPlugins, ListPlugins, ConstructPlugins, ReloadPlugin,
              RetirePlugin, JoinWorker, InstallPlugins, LoopOver
<1>6. CASE LoadEventIdData
  BY <1>6 DEF LoadEventIdData, ReadState, ApplyState, NoFile, AskLastEventId,
              SeedState, LoopOver
<1>7. CASE LoopTop \/ Start \/ FinishStop
  BY <1>7 DEF LoopTop, Start, FinishStop, WriteState
<1>8. CASE BeginStop
  BY <1>8 DEF BeginStop
<1>9. CASE ProcessExit \/ CrashExit \/ Kill
  BY <1>9 DEF ProcessExit, CrashExit, Kill, Lost
<1>10. CASE \E p \in Plugin : WorkerThread(p) \/ EditFile(p)
  BY <1>10 DEF WorkerThread, RunCallbacks, TakeItem, EventHandled, EventIgnored,
              CallbackFails, DeactivateRaised, EditFile
<1>11. CASE (\E e \in EventId : Publish(e)) \/ UNCHANGED vars
  BY <1>11 DEF Publish
<1> QED
  BY <1>2, <1>3, <1>4, <1>5, <1>6, <1>7, <1>8, <1>9, <1>10, <1>11
     DEF Next, MainThread

\* The collection changes by a load, or is lost with the process.
LEMMA PluginsFrame == [Next]_vars => UNCHANGED plugins \/ Lost \/ InstallPlugins
  BY CollectionFrame DEF CheckBacklog, ReloadPlugin, DeactivateRaised, CallbackFails

\* The names of the collected states grow, are read from the file, or are lost.
LEMMA NamesFrame ==
    [Next]_vars => \/ stateNames \subseteq stateNames'
                   \/ ReadState /\ plugins # {} /\ stateNames' = eventIdNames
                   \/ Lost /\ stateNames' = {}
  BY StateFrame
     DEF ReadState, ApplyState, SeedState, FinishStop, CollectState, WriteFile,
         CrashExit, Lost

\* While there is no state and a plugin waits for its first, nothing happens but the
\* first load.
LEMMA FirstLoadStep ==
    ASSUME DeliveryInv, StepInv, [Next]_vars PROVE FirstLoad'
<1>1. SUFFICES ASSUME stateNames' = {}, plugins' # {}
               PROVE  /\ \/ At("readState")' \/ At("askId")' \/ At("seed")' \/ At("exit")'
                      /\ nextEventId' = NoId /\ batch' = {}
                      /\ \A p \in Plugin : lastDispatchedEventId'[p] = NoId
                      /\ At("seed")' => \A p \in plugins' : p >= at'
  BY DEF FirstLoad
<1>2. ~Lost
  BY <1>1 DEF Lost
<1>3. stateNames = {}
  BY <1>1, <1>2, NamesFrame DEF ReadState
<1>4. CASE InstallPlugins
  <2>1. plugins = {}
    BY <1>3, <1>4 DEF InstallPlugins, StepInv, FirstLoad, At
  <2>2. nextEventId = NoId /\ batch = {}
    BY <1>4 DEF InstallPlugins, StepInv, FetchIsReset, At
  <2> QED BY <1>4, <2>1, <2>2 DEF InstallPlugins, At
<1>5. CASE ~InstallPlugins
  <2>1. plugins' = plugins
    BY <1>2, <1>5, PluginsFrame
  <2>2. /\ \/ At("readState") \/ At("askId") \/ At("seed") \/ At("exit")
        /\ nextEventId = NoId /\ batch = {}
        /\ \A p \in Plugin : lastDispatchedEventId[p] = NoId
        /\ At("seed") => \A p \in plugins : p >= at
    BY <1>1, <1>3, <2>1 DEF StepInv, FirstLoad
  <2>3. ~ApplyState
    BY <1>3 DEF ApplyState, StepInv, ApplyHasState, At
  <2>4. CASE SeedState
    <3>1. at \notin plugins /\ at \in Plugin /\ plugins \subseteq Plugin
      BY <1>1, <2>4 DEF SeedState, DeliveryInv, IInv, TypeOK, StepTypeOK, CollectionTypeOK
    <3>2. \A p \in plugins : p >= at /\ p # at /\ p \in Nat /\ p <= NumPlugins
      BY <2>2, <2>4, <3>1, ConstantsAssumption DEF SeedState, At, Plugin
    <3>3. at \in Nat /\ NumPlugins \in Nat /\ at # NumPlugins
      BY <1>1, <2>1, <3>1, <3>2, ConstantsAssumption DEF Plugin
    <3> QED BY <2>1, <2>2, <2>4, <3>1, <3>2, <3>3 DEF SeedState, LoopOver, At
  <2>5. CASE NoFile \/ AskLastEventId
    BY <2>1, <2>2, <2>5, ConstantsAssumption
       DEF NoFile, AskLastEventId, At, StepInv, LoopIsReset, DeliveryInv, IInv,
           TypeOK, CollectionTypeOK, Plugin
  <2>6. CASE BeginStop \/ FinishStop
    BY <1>1, <2>1, <2>2, <2>6 DEF BeginStop, FinishStop, At, DeliveryInv, IInv
  <2>7. CASE \E p \in Plugin : WorkerThread(p) \/ EditFile(p)
    BY <2>1, <2>2, <2>7
       DEF WorkerThread, RunCallbacks, TakeItem, EventHandled, EventIgnored,
           CallbackFails, DeactivateRaised, EditFile, At
  <2>8. CASE (\E e \in EventId : Publish(e)) \/ UNCHANGED vars
    BY <2>1, <2>2, <2>8 DEF Publish, At
  <2>9. ~(GetNewEvents \/ LoopTop \/ LoadPlugins \/ Start \/ SaveEventIdData)
    BY <1>5, <2>2
       DEF GetNewEvents, ScanPlugin, ScanDone, EntryGone, EntryExpired,
           EntryPending, NothingToFetch, CheckActive, MatchTypes, Fetch, LoopTop,
           LoadPlugins, ListPlugins, ConstructPlugins, ReloadPlugin, RetirePlugin,
           JoinWorker, Start, SaveEventIdData, CollectState, WriteFile, At
  <2>10. ~(BatchDone \/ CheckBacklog \/ \E e \in EventId : Enqueue(e))
    BY <2>2 DEF BatchDone, CheckBacklog, Enqueue, At
  <2>11. ~ReadState
    BY <1>1, <2>1 DEF ReadState
  <2> QED
    BY <1>2, <2>3, <2>4, <2>5, <2>6, <2>7, <2>8, <2>9, <2>10, <2>11
       DEF Next, MainThread, LoadEventIdData, ProcessExit, CrashExit, Kill
<1> QED BY <1>4, <1>5

\* Every step keeps StepInv.
LEMMA StepInvStep == DeliveryInv /\ StepInv /\ [Next]_vars => StepInv'
<1> SUFFICES ASSUME DeliveryInv, StepInv, [Next]_vars PROVE StepInv'
  OBVIOUS
<1> QED BY LocalsReset, FirstLoadStep DEF StepInv

-----------------------------------------------------------------------------
(* The end of a worker *)

\* A sentinel at the end keeps the sentinels last, ...
LEMMA SentinelIsLast ==
    ASSUME NEW S, NEW q \in Seq(S), SentinelsLast(q), NEW e \in S,
           e = StopSentinel \/ StopSentinel \notin ItemsOf(q)
    PROVE  SentinelsLast(Append(q, e))
<1>1. /\ DOMAIN Append(q, e) = 1..(Len(q) + 1) /\ DOMAIN q = 1..Len(q)
      /\ Len(q) \in Nat /\ Append(q, e)[Len(q) + 1] = e
      /\ \A i \in DOMAIN q : Append(q, e)[i] = q[i]
  OBVIOUS
<1>2. SUFFICES ASSUME NEW i \in 1..(Len(q) + 1), NEW j \in 1..(Len(q) + 1), i <= j,
                      Append(q, e)[i] = StopSentinel
               PROVE  Append(q, e)[j] = StopSentinel
  BY <1>1 DEF SentinelsLast
<1>3. CASE j = Len(q) + 1
  BY <1>1, <1>2, <1>3 DEF ItemsOf
<1>4. CASE j # Len(q) + 1
  BY <1>1, <1>2, <1>4 DEF SentinelsLast
<1> QED BY <1>3, <1>4

\* ... and so does taking the first item; behind a first sentinel only sentinels
\* wait.
LEMMA SentinelsFollow ==
    ASSUME NEW S, NEW q \in Seq(S), SentinelsLast(q), q # <<>>
    PROVE  /\ SentinelsLast(Tail(q))
           /\ Head(q) = StopSentinel => ItemsOf(q) \subseteq {StopSentinel}
<1>1. /\ DOMAIN q = 1..Len(q) /\ Len(q) \in Nat /\ Len(q) # 0 /\ Head(q) = q[1]
      /\ DOMAIN Tail(q) = 1..(Len(q) - 1)
      /\ \A i \in DOMAIN Tail(q) : Tail(q)[i] = q[i + 1]
  OBVIOUS
<1>2. \A i \in DOMAIN Tail(q) : i \in Nat /\ i + 1 \in DOMAIN q
  BY <1>1
<1>3. SentinelsLast(Tail(q))
  BY <1>1, <1>2 DEF SentinelsLast
<1>4. Head(q) = StopSentinel => \A j \in DOMAIN q : q[j] = StopSentinel
  BY <1>1 DEF SentinelsLast
<1> QED BY <1>3, <1>4 DEF ItemsOf

\* What SentinelInv says of one plugin, with the operators of its queue.
SentinelOk(p) ==
    /\ continuing \/ pc = "stopping" =>
        /\ SentinelsLast(queue[p])
        /\ worker[p] = "exited" => Items(p) \subseteq {StopSentinel}
    /\ continuing /\ (worker[p] = "exited" \/ StopSentinel \in Items(p)) => Leaving(p)

\* Which steps change a queue or the end of a worker, and how.
LEMMA QueueFrame ==
    ASSUME TypeOK, [Next]_vars, NEW p \in Plugin
    PROVE  \/ queue'[p] = queue[p] /\ (worker'[p] = "exited") = (worker[p] = "exited")
           \/ queue'[p] = <<>> /\ worker'[p] = "idle"
           \/ /\ queue[p] # <<>> /\ queue'[p] = Tail(queue[p])
              /\ worker[p] = "idle"
              /\ (worker'[p] = "exited") = (Head(queue[p]) = StopSentinel)
              /\ UNCHANGED <<pc, continuing, listed>>
           \/ /\ queue'[p] = Append(queue[p], StopSentinel) /\ worker' = worker
              /\ (RetirePlugin /\ p = at /\ p \in plugins \ listed) \/ BeginStop
              /\ worker[p] # "exited"
           \/ \E e \in batch : /\ queue'[p] = Append(queue[p], e) /\ worker' = worker
                               /\ pc = "dispatch" /\ pc' = "dispatch"
<1>1. /\ worker \in [Plugin -> {"idle", "first", "retry", "raised", "exited"}]
      /\ queue \in [Plugin -> Seq(EventId \cup {StopSentinel})] /\ at \in Plugin
  BY DEF TypeOK, WorkerTypeOK, StepTypeOK
<1>2. CASE Lost \/ InstallPlugins
  BY <1>2 DEF Lost, InstallPlugins
<1>3. CASE RetirePlugin \/ BeginStop
  BY <1>1, <1>3 DEF RetirePlugin, BeginStop, WithSentinel
<1>4. ASSUME NEW e \in EventId, Enqueue(e)
      PROVE  \/ queue'[p] = queue[p] /\ worker' = worker
             \/ \E f \in batch : /\ queue'[p] = Append(queue[p], f) /\ worker' = worker
                                 /\ pc = "dispatch" /\ pc' = "dispatch"
  BY <1>1, <1>4 DEF Enqueue, LoopOver
<1>5. ASSUME NEW q \in Plugin, TakeItem(q), q # p
      PROVE  queue'[p] = queue[p] /\ worker'[p] = worker[p]
  BY <1>1, <1>5 DEF TakeItem
<1>6. CASE TakeItem(p)
  BY <1>1, <1>6 DEF TakeItem
<1>7. ASSUME NEW q \in Plugin,
             EventHandled(q) \/ EventIgnored(q) \/ DeactivateRaised(q)
      PROVE  queue'[p] = queue[p] /\ (worker'[p] = "exited") = (worker[p] = "exited")
  BY <1>1, <1>7 DEF EventHandled, EventIgnored, DeactivateRaised, Release, Locked
<1>8. ASSUME NEW q \in Plugin, NEW c \in Callback, CallbackFails(q, c)
      PROVE  queue'[p] = queue[p] /\ (worker'[p] = "exited") = (worker[p] = "exited")
  BY <1>1, <1>8 DEF CallbackFails, Release, Locked
<1> QED
  BY <1>2, <1>3, <1>4, <1>5, <1>6, <1>7, <1>8, WorkerFrame

\* The engine goes on until a stop begins, and a stop is over when FinishStop has
\* saved.
LEMMA StopFrame ==
    ASSUME DeliveryInv, StepInv, [Next]_vars
    PROVE  /\ continuing' => continuing \/ Lost
           /\ continuing /\ ~continuing' => BeginStop /\ pc' = "stopping"
           /\ pc' = "stopping" => pc = "stopping" \/ BeginStop
           /\ pc = "stopping" => \/ Lost \/ FinishStop
                                 \/ UNCHANGED <<pc, continuing, interrupted>>
<1>1. CASE \/ ScanPlugin \/ ScanDone \/ NothingToFetch \/ CheckActive \/ MatchTypes
           \/ Fetch
  BY <1>1 DEF ScanPlugin, ScanDone, NothingToFetch, CheckActive, MatchTypes, Fetch,
              LoopOver
<1>2. CASE \E k \in EventId : EntryGone(k) \/ EntryExpired(k) \/ EntryPending(k)
  <2>1. pc = "entries" /\ pc' # "stopping" /\ continuing' = continuing
    BY <1>2 DEF EntryGone, EntryExpired, EntryPending
  <2> QED BY <2>1
<1>3. CASE (\E e \in EventId : Enqueue(e)) \/ BatchDone \/ CheckBacklog
  BY <1>3 DEF Enqueue, BatchDone, CheckBacklog, LoopOver
<1>4. CASE SaveEventIdData
  <2>1. pc \in {"save", "write", "firstSave", "firstWrite"} /\ pc' # "stopping"
        /\ continuing' = continuing
    BY <1>4 DEF SaveEventIdData, CollectState, WriteFile, LoopOver
  <2> QED BY <2>1
<1>5. CASE LoadPlugins
  <2>1. pc # "stopping" /\ pc' # "stopping" /\ continuing' = continuing
    BY <1>5 DEF LoadPlugins, ListPlugins, ConstructPlugins, ReloadPlugin,
                RetirePlugin, JoinWorker, InstallPlugins, LoopOver
  <2> QED BY <2>1
<1>6. CASE LoadEventIdData
  BY <1>6 DEF LoadEventIdData, ReadState, ApplyState, NoFile, AskLastEventId,
              SeedState, LoopOver
<1>7. CASE LoopTop \/ Start
  BY <1>7 DEF LoopTop, Start
<1>8. CASE FinishStop
  BY <1>8 DEF FinishStop, StepInv, StopIsNoted, DeliveryInv, IInv
<1>9. CASE BeginStop
  BY <1>9 DEF BeginStop
<1>10. CASE ProcessExit \/ CrashExit \/ Kill
  BY <1>10 DEF ProcessExit, CrashExit, Kill, Lost
<1>11. CASE \E p \in Plugin : WorkerThread(p) \/ EditFile(p)
  BY <1>11 DEF WorkerThread, RunCallbacks, TakeItem, EventHandled, EventIgnored,
              CallbackFails, DeactivateRaised, EditFile
<1>12. CASE (\E e \in EventId : Publish(e)) \/ UNCHANGED vars
  BY <1>12 DEF Publish
<1> QED
  BY <1>1, <1>2, <1>3, <1>4, <1>5, <1>6, <1>7, <1>8, <1>9, <1>10, <1>11, <1>12
     DEF Next, MainThread, GetNewEvents

\* A plugin on its way out stays so until it is gone, or a stop begins.
LEMMA LeavingFrame ==
    ASSUME [Next]_vars, NEW p \in Plugin, Leaving(p)
    PROVE  Leaving(p)' \/ InstallPlugins \/ Lost \/ BeginStop
<1>1. pc \in {"retire", "join", "install"} /\ p \notin listed
  BY DEF Leaving
<1>2. UNCHANGED listed \/ Lost \/ InstallPlugins
  BY <1>1, LocalFrame
     DEF ScanPlugin, MatchTypes, Fetch, ListPlugins, ReadState, ApplyState,
         AskLastEventId, SeedState, EntryExpired, EntryPending, Enqueue
<1>3. pc' \in {"retire", "join", "install"} \/ InstallPlugins \/ Lost \/ BeginStop
  <2>1. CASE LoadPlugins
    BY <1>1, <2>1 DEF LoadPlugins, ListPlugins, ConstructPlugins, ReloadPlugin,
                      RetirePlugin, JoinWorker, LoopOver
  <2>2. CASE \E q \in Plugin : WorkerThread(q) \/ EditFile(q)
    BY <1>1, <2>2 DEF WorkerThread, RunCallbacks, TakeItem, EventHandled,
                      EventIgnored, CallbackFails, DeactivateRaised, EditFile
  <2>3. CASE (\E e \in EventId : Publish(e)) \/ UNCHANGED vars
    BY <1>1, <2>3 DEF Publish
  <2>4. CASE ProcessExit \/ CrashExit \/ Kill
    BY <2>4 DEF ProcessExit, CrashExit, Kill
  <2>5. ~(GetNewEvents \/ LoopTop \/ Start \/ SaveEventIdData \/ FinishStop)
    BY <1>1 DEF GetNewEvents, ScanPlugin, ScanDone, EntryGone, EntryExpired,
                EntryPending, NothingToFetch, CheckActive, MatchTypes, Fetch,
                LoopTop, Start, SaveEventIdData, CollectState, WriteFile,
                FinishStop
  <2>6. ~(LoadEventIdData \/ BatchDone \/ CheckBacklog \/ \E e \in EventId : Enqueue(e))
    BY <1>1 DEF LoadEventIdData, ReadState, ApplyState, NoFile, AskLastEventId,
                SeedState, BatchDone, CheckBacklog, Enqueue
  <2> QED BY <2>1, <2>2, <2>3, <2>4, <2>5, <2>6 DEF Next, MainThread
<1> QED BY <1>1, <1>2, <1>3 DEF Leaving

\* Every step keeps the sentinels where they belong.
LEMMA SentinelStep ==
    ASSUME DeliveryInv, StepInv, SentinelInv, [Next]_vars PROVE SentinelInv'
<1>1. SUFFICES ASSUME NEW p \in Plugin PROVE SentinelOk(p)'
  BY DEF SentinelInv, SentinelOk, Items
<1>2. SentinelOk(p)
  BY DEF SentinelInv, SentinelOk
<1>3. /\ TypeOK /\ queue[p] \in Seq(EventId \cup {StopSentinel})
      /\ batch \subseteq EventId
  BY DEF DeliveryInv, IInv, TypeOK, WorkerTypeOK, LocalTypeOK
<1>4. CASE queue'[p] = <<>> /\ worker'[p] = "idle"
  BY <1>4 DEF SentinelOk, SentinelsLast, Items, ItemsOf
<1>5. CASE Lost
  BY <1>4, <1>5 DEF Lost
<1>6. CASE ~Lost /\ queue'[p] = queue[p]
           /\ (worker'[p] = "exited") = (worker[p] = "exited")
  <2>1. continuing' \/ pc' = "stopping" => continuing \/ pc = "stopping"
    BY <1>6, StopFrame DEF BeginStop
  <2>2. continuing' /\ Leaving(p) /\ ~Leaving(p)' =>
            worker'[p] # "exited" /\ StopSentinel \notin Items(p)'
    <3> SUFFICES ASSUME continuing', Leaving(p), ~Leaving(p)'
                 PROVE  worker'[p] = "idle" /\ queue'[p] = <<>>
      BY DEF Items, ItemsOf
    <3>1. InstallPlugins
      BY <1>6, LeavingFrame DEF BeginStop
    <3> QED BY <3>1 DEF InstallPlugins, Leaving
  <2> QED BY <1>2, <1>6, <2>1, <2>2, StopFrame DEF SentinelOk, Items
<1>7. CASE /\ queue[p] # <<>> /\ queue'[p] = Tail(queue[p]) /\ worker[p] = "idle"
           /\ (worker'[p] = "exited") = (Head(queue[p]) = StopSentinel)
           /\ UNCHANGED <<pc, continuing, listed>>
  <2>1. Head(queue[p]) \in Items(p) /\ Items(p)' \subseteq Items(p)
    BY <1>3, <1>7, TailItems DEF Items
  <2>2. continuing \/ pc = "stopping" =>
            /\ SentinelsLast(Tail(queue[p]))
            /\ Head(queue[p]) = StopSentinel => Items(p) \subseteq {StopSentinel}
    BY <1>2, <1>3, <1>7, SentinelsFollow DEF SentinelOk, Items
  <2> QED BY <1>2, <1>7, <2>1, <2>2 DEF SentinelOk, Leaving
<1>8. CASE /\ queue'[p] = Append(queue[p], StopSentinel) /\ worker' = worker
           /\ (RetirePlugin /\ p = at /\ p \in plugins \ listed) \/ BeginStop
           /\ worker[p] # "exited"
  <2>1. continuing \/ pc = "stopping" => SentinelsLast(queue'[p])
    BY <1>2, <1>3, <1>8, SentinelIsLast DEF SentinelOk
  <2>2. continuing' \/ pc' = "stopping" => continuing \/ pc = "stopping"
    BY <1>8 DEF RetirePlugin, BeginStop, LoopOver
  <2>3. continuing' => Leaving(p)'
    BY <1>8 DEF RetirePlugin, BeginStop, Leaving
  <2> QED BY <1>8, <2>1, <2>2, <2>3 DEF SentinelOk
<1>9. ASSUME NEW e \in batch, queue'[p] = Append(queue[p], e), worker' = worker,
             pc = "dispatch", pc' = "dispatch"
      PROVE  SentinelOk(p)'
  <2>1. continuing' => continuing \/ Lost
    BY StopFrame
  <2>2. CASE continuing'
    <3>1. continuing /\ worker[p] # "exited" /\ StopSentinel \notin Items(p)
          /\ SentinelsLast(queue[p])
      BY <1>2, <1>9, <2>1, <2>2 DEF SentinelOk, Leaving, Lost
    <3>2. SentinelsLast(queue'[p])
      BY <1>3, <1>9, <3>1, SentinelIsLast DEF Items
    <3>3. Items(p)' = Items(p) \cup {e} /\ e # StopSentinel
      <4>1. e \in EventId \cup {StopSentinel}
        BY <1>3
      <4> QED BY <1>3, <1>9, <4>1, AppendItems, IdIsKnown DEF Items
    <3> QED BY <1>9, <3>1, <3>2, <3>3 DEF SentinelOk
  <2>3. CASE ~continuing'
    BY <1>9, <2>3 DEF SentinelOk
  <2> QED BY <2>2, <2>3
<1> QED
  BY <1>3, <1>4, <1>5, <1>6, <1>7, <1>8, <1>9, QueueFrame

-----------------------------------------------------------------------------
(* What was dispatched *)

\* What leaves the backlog of a plugin that has been sent events is accounted for.
LEMMA BacklogKept ==
    ASSUME DeliveryInv, [Next]_vars, NEW p \in Plugin,
           lastDispatchedEventId[p] # NoId, lastDispatchedEventId'[p] # NoId,
           NEW e \in backlog[p], e \notin backlog'[p]
    PROVE  fate'[p][e] # "open"
<1>1. /\ TypeOK /\ HistoryTypeOK /\ at \in Plugin /\ e \in EventId
      /\ backlog \in [Plugin -> SUBSET EventId]
  BY DEF DeliveryInv, IInv, TypeOK, CursorTypeOK, StepTypeOK
<1>2. ~Lost /\ ~InstallPlugins
  BY DEF Lost, InstallPlugins
<1>3. ~ApplyState /\ ~SeedState
  BY <1>1 DEF ApplyState, SeedState, TakesState
<1>4. ASSUME NEW k \in EventId, EntryExpired(k) PROVE fate'[p][e] # "open"
  <2>1. e = k /\ p = at
    BY <1>1, <1>4 DEF EntryExpired
  <2> QED BY <1>1, <1>4, <2>1, DropEffect DEF EntryExpired, Fate
<1>5. ASSUME NEW q \in Plugin, EventHandled(q) PROVE fate'[p][e] # "open"
  <2>1. q = p /\ e = current[p] /\ RecordDone(p, e)
    BY <1>1, <1>5 DEF EventHandled, UpdateLastEventId
  <2> QED BY <1>1, <2>1, DoneEffect
<1>6. ~\E k \in EventId : Enqueue(k)
  BY DEF Enqueue
<1> QED BY <1>2, <1>3, <1>4, <1>5, <1>6, CursorFrame

\* Every step keeps the retries accounted for: the entry a worker runs is in the
\* backlog when it is taken, and what it has passed stays accounted for.
LEMMA RetryStep ==
    ASSUME DeliveryInv, RetryIsAccounted, [Next]_vars PROVE RetryIsAccounted'
<1>1. SUFFICES ASSUME NEW p \in Plugin, worker'[p] = "retry",
                      NEW e \in 1..current'[p], e \notin backlog'[p]
               PROVE  fate'[p][e] # "open"
  BY DEF RetryIsAccounted
<1>2. TypeOK /\ FateKept
  BY FateIsKept DEF DeliveryInv, IInv
<1>3. e \in EventId
  <2>1. current'[p] \in EventId \cup {NoId}
    BY TypeStep, <1>2 DEF TypeOK, WorkerTypeOK
  <2> QED BY <2>1, <1>1, ConstantsAssumption DEF EventId, NoId
<1>4. CASE worker[p] = "retry" /\ current'[p] = current[p]
  <2>1. lastDispatchedEventId[p] # NoId
    BY <1>4 DEF DeliveryInv, RunIsFresh, Locked
  <2>2. lastDispatchedEventId'[p] # NoId
    BY <1>1, FreshStep DEF RunIsFresh, Locked
  <2>3. e \in backlog[p] \/ fate[p][e] # "open"
    BY <1>1, <1>4 DEF RetryIsAccounted
  <2> QED BY <1>1, <1>2, <1>3, <2>1, <2>2, <2>3, BacklogKept DEF FateKept
<1>5. CASE current'[p] \in backlog[p] /\ backlog' = backlog
  <2>1. e \in Passed(CursorOf(p))
    BY <1>1, <1>3, <1>5 DEF Passed, CursorOf
  <2>2. e \in backlog[p] \/ fate[p][e] # "open"
    BY <2>1 DEF DeliveryInv, IInv, NoSilentLoss, Accounted, CursorOf
  <2> QED BY <1>1, <1>2, <1>3, <1>5, <2>2 DEF FateKept
<1> QED BY <1>1, <1>2, <1>4, <1>5, RunFrame

\* Which of the plugins that run, and were not loaded again, still do.
LEMMA RunningFrame ==
    ASSUME TypeOK, [Next]_vars, NEW p \in plugins', active'[p], ~reloaded'[p]
    PROVE  \/ p \in plugins /\ active[p] /\ ~reloaded[p]
           \/ InstallPlugins /\ lastDispatchedEventId'[p] = NoId
<1>1. /\ active \in [Plugin -> BOOLEAN] /\ reloaded \in [Plugin -> BOOLEAN]
      /\ p \in Plugin /\ at \in Plugin
  BY CollectionType DEF TypeOK, CollectionTypeOK, StepTypeOK
<1>2. CASE Lost
  BY <1>2 DEF Lost
<1>3. CASE CheckBacklog \/ UNCHANGED <<plugins, loadVars, backlogAlertActive>>
  BY <1>3 DEF CheckBacklog
<1>4. CASE ReloadPlugin
  BY <1>1, <1>4 DEF ReloadPlugin
<1>5. CASE InstallPlugins
  BY <1>1, <1>5 DEF InstallPlugins
<1>6. ASSUME NEW q \in Plugin, NEW c \in Callback,
             DeactivateRaised(q) \/ CallbackFails(q, c)
      PROVE  p \in plugins /\ active[p] /\ ~reloaded[p]
  BY <1>1, <1>6 DEF DeactivateRaised, CallbackFails
<1>7. ASSUME NEW q \in Plugin, DeactivateRaised(q)
      PROVE  p \in plugins /\ active[p] /\ ~reloaded[p]
  BY <1>1, <1>7 DEF DeactivateRaised
<1> QED BY <1>2, <1>3, <1>4, <1>5, <1>6, <1>7, CollectionFrame

\* The items of a queue are its first and those that follow.
LEMMA ItemsSplit ==
    ASSUME NEW S, NEW q \in Seq(S), q # <<>>
    PROVE  \A x \in ItemsOf(q) : x = Head(q) \/ x \in ItemsOf(Tail(q))
<1>1. /\ DOMAIN q = 1..Len(q) /\ Len(q) \in Nat /\ Head(q) = q[1]
      /\ DOMAIN Tail(q) = 1..(Len(q) - 1)
      /\ \A i \in DOMAIN Tail(q) : Tail(q)[i] = q[i + 1]
  OBVIOUS
<1>2. ASSUME NEW i \in DOMAIN q, i # 1 PROVE q[i] \in ItemsOf(Tail(q))
  <2>1. i - 1 \in DOMAIN Tail(q) /\ (i - 1) + 1 = i
    BY <1>1, <1>2
  <2>2. Tail(q)[i - 1] = q[i]
    BY <1>1, <2>1
  <2> QED BY <2>1, <2>2 DEF ItemsOf
<1> QED BY <1>1, <1>2 DEF ItemsOf

\* They are events and sentinels.
LEMMA ItemsType ==
    ASSUME TypeOK, NEW p \in Plugin PROVE Items(p) \subseteq EventId \cup {StopSentinel}
<1>1. queue[p] \in Seq(EventId \cup {StopSentinel})
  BY DEF TypeOK, WorkerTypeOK
<1> QED BY <1>1 DEF Items, ItemsOf

\* What is in flight is in the queue or being run.
LEMMA InFlightItems ==
    \A p : InFlight(p) = ({current[p]} \cup Items(p)) \ {NoId}
  BY DEF InFlight, Items, ItemsOf

\* What is in flight to a plugin that runs stays so until its cursor reaches it, or
\* until the entry of the backlog that it was is found to be gone.
LEMMA FlightFrame ==
    ASSUME DeliveryInv, [Next]_vars, NEW p \in Plugin, active[p], active'[p],
           NEW f \in InFlight(p)
    PROVE  \/ f \in InFlight(p)' \/ Lost
           \/ InstallPlugins /\ lastDispatchedEventId'[p] = NoId
           \/ f <= lastEventId'[p]
           \/ /\ worker[p] = "retry" /\ f = current[p]
              /\ UNCHANGED <<cursorVars, fate>>
<1>1. /\ TypeOK /\ at \in Plugin
      /\ worker \in [Plugin -> {"idle", "first", "retry", "raised", "exited"}]
      /\ current \in [Plugin -> EventId \cup {NoId}]
      /\ queue \in [Plugin -> Seq(EventId \cup {StopSentinel})]
      /\ active \in [Plugin -> BOOLEAN]
      /\ lastEventId \in [Plugin -> EventId \cup {NoId}]
      /\ lastDispatchedEventId \in [Plugin -> EventId \cup {NoId}]
  BY DEF DeliveryInv, IInv, TypeOK, WorkerTypeOK, CollectionTypeOK, CursorTypeOK,
         StepTypeOK
<1>2. f \in {current[p]} \cup Items(p) /\ f # NoId
  BY InFlightItems
<1>3. SUFFICES ASSUME ~(f \in {current'[p]} \cup Items(p)')
               PROVE  \/ Lost
                      \/ InstallPlugins /\ lastDispatchedEventId'[p] = NoId
                      \/ f <= lastEventId'[p]
                      \/ /\ worker[p] = "retry" /\ f = current[p]
                         /\ UNCHANGED <<cursorVars, fate>>
  BY <1>2 DEF InFlight, Items, ItemsOf
<1>5. current'[p] # current[p] \/ queue'[p] # queue[p]
  BY <1>2, <1>3 DEF Items
<1>6. CASE InstallPlugins
  BY <1>1, <1>5, <1>6 DEF InstallPlugins
<1>7. ASSUME NEW e \in EventId \cup {StopSentinel}, queue'[p] = Append(queue[p], e),
             current' = current
      PROVE  FALSE
  <2>1. Items(p)' = Items(p) \cup {e}
    BY <1>1, <1>7, AppendItems DEF Items
  <2> QED BY <1>2, <1>3, <1>7, <2>1
<1>8. ~RetirePlugin /\ ~BeginStop /\ \A e \in EventId : ~Enqueue(e)
  <2>1. ASSUME RetirePlugin \/ BeginStop PROVE FALSE
    <3>1. queue'[p] = queue[p] \/ queue'[p] = Append(queue[p], StopSentinel)
      BY <1>1, <2>1 DEF RetirePlugin, BeginStop, WithSentinel
    <3>2. current' = current
      BY <2>1 DEF RetirePlugin, BeginStop
    <3> QED BY <1>5, <1>7, <3>1, <3>2
  <2>2. ASSUME NEW e \in EventId, Enqueue(e) PROVE FALSE
    <3>1. queue'[p] = queue[p] \/ queue'[p] = Append(queue[p], e)
      BY <1>1, <2>2 DEF Enqueue
    <3>2. current' = current
      BY <2>2 DEF Enqueue
    <3> QED BY <1>5, <1>7, <3>1, <3>2
  <2> QED BY <2>1, <2>2
<1>9. ASSUME NEW q \in Plugin, TakeItem(q) PROVE f <= lastEventId'[p]
  <2>1. q = p
    BY <1>1, <1>5, <1>9 DEF TakeItem
  <2>2. current[p] = NoId /\ queue[p] # <<>>
    BY <1>9, <2>1 DEF TakeItem, DeliveryInv, RunIsFresh, Locked
  <2>3. \A x \in Items(p) : x = Head(queue[p]) \/ x \in ItemsOf(Tail(queue[p]))
    BY <1>1, <2>2, ItemsSplit DEF Items
  <2>4. queue'[p] = Tail(queue[p])
    BY <1>1, <1>9, <2>1 DEF TakeItem
  <2>5. f = Head(queue[p])
    BY <1>2, <1>3, <2>2, <2>3, <2>4 DEF Items
  <2>6. f # StopSentinel /\ f \in EventId
    BY <1>2, <1>1, <2>5, <2>2 DEF NoId, StopSentinel
  <2>7. ~(f \in backlog[p] \/ Fresh(p, f))
    BY <1>1, <1>3, <1>9, <2>1, <2>5, <2>6 DEF TakeItem
  <2>8. lastEventId[p] # NoId /\ ~(f > lastEventId[p]) /\ lastEventId'[p] = lastEventId[p]
    BY <1>9, <2>7 DEF Fresh, TakeItem
  <2> QED BY <1>1, <2>6, <2>8, ConstantsAssumption, SMTT(30) DEF EventId, NoId
<1>10. ASSUME NEW q \in Plugin, EventHandled(q)
       PROVE  \/ f <= lastEventId'[p]
              \/ /\ worker[p] = "retry" /\ f = current[p]
                 /\ UNCHANGED <<cursorVars, fate>>
  <2>1. q = p /\ queue' = queue
    BY <1>1, <1>5, <1>10 DEF EventHandled, Release
  <2>2. f = current[p] /\ f \in EventId
    BY <1>1, <1>2, <1>3, <2>1 DEF Items
  <2>3. \/ worker[p] = "retry" /\ UNCHANGED <<cursorVars, fate>>
        \/ lastEventId'[p] = f
    BY <1>1, <1>10, <2>1, <2>2 DEF EventHandled, UpdateLastEventId
  <2> QED BY <2>2, <2>3, ConstantsAssumption DEF EventId
<1>11. ASSUME NEW q \in Plugin PROVE ~EventIgnored(q) /\ ~DeactivateRaised(q)
  BY <1>1, <1>5 DEF EventIgnored, DeactivateRaised, Release
<1>12. ASSUME NEW q \in Plugin, NEW c \in Callback PROVE ~CallbackFails(q, c)
  BY <1>1, <1>5 DEF CallbackFails, Release
<1> QED
  BY <1>5, <1>6, <1>7, <1>8, <1>9, <1>10, <1>11, <1>12, WorkerFrame

\* Every step keeps what was dispatched accounted for or in flight.
LEMMA InFlightStep ==
    ASSUME DeliveryInv, RetryIsAccounted, DispatchedIsInFlight, [Next]_vars
    PROVE  DispatchedIsInFlight'
<1>1. SUFFICES ASSUME NEW p \in plugins', active'[p], ~reloaded'[p],
                      NEW e \in 1..lastDispatchedEventId'[p],
                      fate'[p][e] = "open", e \notin backlog'[p]
               PROVE  \E f \in InFlight(p)' : e <= f
  BY DEF DispatchedIsInFlight
<1>2. /\ TypeOK /\ FateKept /\ p \in Plugin /\ IInv'
      /\ lastDispatchedEventId'[p] \in EventId \cup {NoId}
      /\ lastEventId'[p] \in EventId \cup {NoId}
  BY FateIsKept, InvariantStep
     DEF DeliveryInv, IInv, TypeOK, CollectionTypeOK, CursorTypeOK
<1>3. e \in EventId /\ e \in Nat /\ lastDispatchedEventId'[p] # NoId
  BY <1>1, <1>2, ConstantsAssumption, SMTT(30) DEF EventId, NoId
<1>4. ~(e <= lastEventId'[p])
  BY <1>1, <1>2, <1>3 DEF IInv, NoSilentLoss, Accounted, Passed, CursorOf
<1>5. p \in plugins /\ active[p] /\ ~reloaded[p] /\ ~Lost
  BY <1>1, <1>2, <1>3, RunningFrame DEF Lost
<1>6. CASE lastDispatchedEventId'[p] = lastDispatchedEventId[p]
  <2>1. fate[p][e] = "open" /\ e \notin backlog[p]
    BY <1>1, <1>2, <1>3, <1>6, BacklogKept DEF FateKept
  <2>2. PICK f \in InFlight(p) : e <= f
    BY <1>1, <1>5, <1>6, <2>1 DEF DispatchedIsInFlight
  <2>3. f \in Nat
    BY <1>2, <2>2, InFlightItems, ItemsType, ConstantsAssumption, SMTT(30)
       DEF EventId, NoId, StopSentinel, TypeOK, WorkerTypeOK
  <2>4. ~(f <= lastEventId'[p])
    BY <1>2, <1>3, <1>4, <2>2, <2>3, ConstantsAssumption DEF EventId, NoId
  <2>5. ~(worker[p] = "retry" /\ f = current[p])
    BY <1>2, <1>3, <2>1, <2>2, <2>3 DEF RetryIsAccounted
  <2>6. f \in InFlight(p)'
    BY <1>1, <1>2, <1>3, <1>5, <2>2, <2>4, <2>5, FlightFrame
  <2> QED BY <2>2, <2>6
<1>7. CASE lastDispatchedEventId'[p] = lastEventId'[p]
  BY <1>1, <1>2, <1>3, <1>4, <1>7, ConstantsAssumption DEF EventId, NoId
<1>8. CASE p \in plugins /\ lastDispatchedEventId'[p] \in EventId /\ UNCHANGED lastEventId
           /\ lastDispatchedEventId'[p] # lastDispatchedEventId[p]
           /\ lastDispatchedEventId'[p] # lastEventId'[p]
  <2>1. PICK k \in EventId : Enqueue(k) /\ p = at /\ lastDispatchedEventId'[p] = k
                            /\ queue'[p] = Append(queue[p], k)
    <3>1. at \in Plugin /\ queue \in [Plugin -> Seq(EventId \cup {StopSentinel})]
          /\ lastDispatchedEventId \in [Plugin -> EventId \cup {NoId}]
          /\ lastEventId \in [Plugin -> EventId \cup {NoId}]
      BY <1>2 DEF TypeOK, StepTypeOK, WorkerTypeOK, CursorTypeOK
    <3>2. ~InstallPlugins
      BY <1>2, <1>3, <1>8 DEF InstallPlugins
    <3>3. ~\E k \in EventId : EntryExpired(k)
      BY <1>8 DEF EntryExpired
    <3>4. \A q \in Plugin : ~EventHandled(q)
      BY <1>8 DEF EventHandled
    <3>5. ~ApplyState /\ ~SeedState
      <4>1. ASSUME ApplyState PROVE FALSE
        <5>1. \/ UNCHANGED <<lastEventId, lastDispatchedEventId>>
              \/ \E x : /\ lastEventId' = [lastEventId EXCEPT ![at] = x]
                       /\ lastDispatchedEventId' = [lastDispatchedEventId EXCEPT ![at] = x]
          BY <4>1 DEF ApplyState
        <5> QED BY <1>2, <1>8, <3>1, <5>1
      <4>2. ASSUME SeedState PROVE FALSE
        BY <1>2, <1>8, <3>1, <4>2 DEF SeedState
      <4> QED BY <4>1, <4>2
    <3>6. PICK k \in EventId : Enqueue(k)
      BY <1>5, <1>8, <3>2, <3>3, <3>4, <3>5, CursorFrame
    <3>7. /\ queue' = [queue EXCEPT ![at] = Append(@, k)]
          /\ lastDispatchedEventId' = [lastDispatchedEventId EXCEPT ![at] = k]
      BY <1>8, <3>6 DEF Enqueue
    <3>8. p = at
      BY <1>2, <1>8, <3>1, <3>7
    <3> QED BY <1>2, <3>1, <3>6, <3>7, <3>8
  <2>2. k \in Items(p)'
    <3>1. queue[p] \in Seq(EventId \cup {StopSentinel}) /\ k \in EventId \cup {StopSentinel}
      BY <1>2, <2>1 DEF TypeOK, WorkerTypeOK
    <3>2. ItemsOf(Append(queue[p], k)) = ItemsOf(queue[p]) \cup {k}
      BY <3>1, AppendItems
    <3> QED BY <2>1, <3>2 DEF Items
  <2>3. k \in InFlight(p)'
    BY <2>1, <2>2, IdIsKnown DEF InFlight, Items, ItemsOf
  <2> QED BY <1>1, <1>2, <2>1, <2>3, ConstantsAssumption DEF EventId
<1> QED BY <1>2, <1>3, <1>5, <1>6, <1>7, <1>8, DispatchFrame

\* The invariant behind the theorems about the workers and the dispatch cursors.
DispatchInv == /\ DeliveryInv /\ StepInv /\ SentinelInv
               /\ RetryIsAccounted /\ DispatchedIsInFlight

\* It holds when there is no process yet, ...
LEMMA DispatchInit == Init => DispatchInv
<1> SUFFICES ASSUME Init PROVE DispatchInv
  OBVIOUS
<1>1. DeliveryInv
  BY DeliveryInvInit
<1>2. StepInv
  BY DEF Init, StepInv, StopIsNoted, LoopIsReset, ApplyHasState, SeedHasNoFile,
         FetchIsReset, SeedIsReset, FirstLoad, At
<1>3. SentinelInv
  BY DEF Init, SentinelInv, SentinelsLast, Items, ItemsOf
<1>4. RetryIsAccounted /\ DispatchedIsInFlight
  BY DEF Init, RetryIsAccounted, DispatchedIsInFlight
<1> QED BY <1>1, <1>2, <1>3, <1>4 DEF DispatchInv

\* ... and every step keeps it.
LEMMA DispatchInvStep == DispatchInv /\ [Next]_vars => DispatchInv'
<1> SUFFICES ASSUME DispatchInv, [Next]_vars PROVE DispatchInv'
  OBVIOUS
<1> QED
  BY DeliveryInvStep, StepInvStep, SentinelStep, RetryStep, InFlightStep
     DEF DispatchInv

\* A worker's thread ends with nothing but sentinels in its queue: what was queued
\* before Plugin.shutdown has been taken, for every number of plugins and events.
THEOREM WorkersDrainTheirQueues == Spec => []ExitedWorkerIsDrained
<1>1. DispatchInv => ExitedWorkerIsDrained
  BY DEF DispatchInv, SentinelInv, ExitedWorkerIsDrained, Items, ItemsOf
<1> QED BY <1>1, DispatchInit, DispatchInvStep, PTL DEF Spec

\* Nothing that the dispatch cursor of a running plugin has passed is forgotten:
\* it is accounted for, in the backlog, or ahead of it an event is in flight.
THEOREM DispatchedStaysInFlight == Spec => []DispatchedIsInFlight
<1>1. DispatchInv => DispatchedIsInFlight
  BY DEF DispatchInv
<1> QED BY <1>1, DispatchInit, DispatchInvStep, PTL DEF Spec

-----------------------------------------------------------------------------
(* After a stop *)

\* The steps of a process that has stopped while it was loading its plugins.
IdleSteps == {"readState", "apply", "askId", "seed", "firstSave", "firstWrite",
              "loop", "exit"}

\* A stopped process is one that was stopped before, or has just saved.
LEMMA StoppedFrame ==
    ASSUME DeliveryInv, StepInv, [Next]_vars, Stopped'
    PROVE  Stopped \/ FinishStop
  BY StopFrame DEF Stopped, Lost

\* From these steps a stopped process only goes on to the others and to its end.
LEMMA IdleStepsFrame ==
    ASSUME [Next]_vars, ~continuing, pc \in IdleSteps
    PROVE  pc' \in IdleSteps \/ Lost
<1> USE DEF IdleSteps
<1>1. CASE LoadEventIdData
  BY <1>1 DEF LoadEventIdData, ReadState, ApplyState, NoFile, AskLastEventId,
              SeedState, LoopOver
<1>2. CASE SaveEventIdData
  <2>1. CASE CollectState("firstSave", "firstWrite")
    BY <2>1 DEF CollectState, LoopOver
  <2>2. CASE WriteFile("firstWrite", "loop")
    BY <2>2 DEF WriteFile
  <2>3. ~CollectState("save", "write") /\ ~WriteFile("write", "check")
    BY DEF CollectState, WriteFile
  <2> QED BY <1>2, <2>1, <2>2, <2>3 DEF SaveEventIdData
<1>3. CASE LoopTop \/ ProcessExit \/ CrashExit \/ Kill
  BY <1>3 DEF LoopTop, ProcessExit, CrashExit, Kill
<1>4. CASE \E p \in Plugin : WorkerThread(p) \/ EditFile(p)
  BY <1>4 DEF WorkerThread, RunCallbacks, TakeItem, EventHandled, EventIgnored,
              CallbackFails, DeactivateRaised, EditFile
<1>5. CASE (\E e \in EventId : Publish(e)) \/ UNCHANGED vars
  BY <1>5 DEF Publish
<1>6. ~(GetNewEvents \/ LoadPlugins \/ Start \/ BeginStop \/ FinishStop)
  BY DEF GetNewEvents, ScanPlugin, ScanDone, EntryGone, EntryExpired,
         EntryPending, NothingToFetch, CheckActive, MatchTypes, Fetch,
         LoadPlugins, ListPlugins, ConstructPlugins, ReloadPlugin, RetirePlugin,
         JoinWorker, InstallPlugins, Start, BeginStop, FinishStop
<1>7. ~(BatchDone \/ CheckBacklog \/ \E e \in EventId : Enqueue(e))
  BY DEF BatchDone, CheckBacklog, Enqueue
<1> QED BY <1>1, <1>2, <1>3, <1>4, <1>5, <1>6, <1>7 DEF Next, MainThread

\* A worker that has ended, or has nothing to do, stays so when no event and no
\* sentinel is queued any more.
LEMMA StoppedIdleStep ==
    ASSUME DeliveryInv, StepInv, StoppedIsIdle, [Next]_vars PROVE StoppedIsIdle'
<1>1. SUFFICES ASSUME Stopped', NEW p \in plugins'
               PROVE  \/ worker'[p] = "exited"
                      \/ worker'[p] = "idle" /\ queue'[p] = <<>> /\ pc' \in IdleSteps
  BY DEF StoppedIsIdle, IdleSteps
<1>2. /\ TypeOK /\ p \in Plugin
      /\ worker \in [Plugin -> {"idle", "first", "retry", "raised", "exited"}]
      /\ queue \in [Plugin -> Seq(EventId \cup {StopSentinel})]
  BY CollectionType DEF DeliveryInv, IInv, TypeOK, WorkerTypeOK, CollectionTypeOK
<1>3. ~Lost
  BY <1>1 DEF Lost
<1>4. CASE FinishStop
  BY <1>1, <1>4 DEF FinishStop
<1>5. CASE InstallPlugins /\ ~FinishStop
  <2>1. p \in plugins => worker[p] = "exited"
    BY <1>1, <1>5, StoppedFrame DEF StoppedIsIdle, InstallPlugins
  <2> QED BY <1>1, <1>2, <1>5, <2>1 DEF InstallPlugins, IdleSteps
<1>6. CASE ~InstallPlugins /\ ~FinishStop
  <2>1. p \in plugins /\ Stopped /\ ~continuing
    BY <1>1, <1>3, <1>6, PluginsFrame, StoppedFrame DEF Stopped
  <2>2. \/ worker[p] = "exited"
        \/ worker[p] = "idle" /\ queue[p] = <<>> /\ pc \in IdleSteps
    BY <2>1 DEF StoppedIsIdle, IdleSteps
  <2>3. ~BeginStop
    BY <2>1 DEF BeginStop
  <2>4. CASE worker[p] = "exited"
    <3>1. \/ UNCHANGED worker
          \/ \E q \in Plugin : \/ TakeItem(q) \/ EventHandled(q) \/ EventIgnored(q)
                               \/ DeactivateRaised(q)
          \/ \E q \in Plugin, c \in Callback : CallbackFails(q, c)
      BY <1>3, <1>6, <2>3, WorkerFrame DEF RetirePlugin, Enqueue
    <3> QED
      BY <1>2, <2>4, <3>1
         DEF TakeItem, EventHandled, EventIgnored, DeactivateRaised, CallbackFails,
             Release, Locked
  <2>5. CASE worker[p] = "idle" /\ queue[p] = <<>> /\ pc \in IdleSteps
    <3>1. pc' \in IdleSteps
      BY <1>3, <2>1, <2>5, IdleStepsFrame
    <3>2. \/ UNCHANGED <<worker, queue>>
          \/ \E q \in Plugin : \/ TakeItem(q) \/ EventHandled(q) \/ EventIgnored(q)
                               \/ DeactivateRaised(q)
          \/ \E q \in Plugin, c \in Callback : CallbackFails(q, c)
      BY <1>3, <1>6, <2>3, <2>5, WorkerFrame DEF RetirePlugin, Enqueue, IdleSteps
    <3>3. ASSUME NEW q \in Plugin,
                 TakeItem(q) \/ EventHandled(q) \/ EventIgnored(q) \/ DeactivateRaised(q)
          PROVE  queue'[p] = <<>> /\ worker'[p] = "idle"
      BY <1>2, <2>5, <3>3
         DEF TakeItem, EventHandled, EventIgnored, DeactivateRaised, Release, Locked
    <3>4. ASSUME NEW q \in Plugin, NEW c \in Callback, CallbackFails(q, c)
          PROVE  queue'[p] = <<>> /\ worker'[p] = "idle"
      BY <1>2, <2>5, <3>4 DEF CallbackFails, Release, Locked
    <3> QED BY <2>5, <3>1, <3>2, <3>3, <3>4
  <2> QED BY <2>2, <2>4, <2>5
<1> QED BY <1>4, <1>5, <1>6

-----------------------------------------------------------------------------
(* A stop during the first load *)

\* The process ends after the last step.
LEMMA ExitFrame ==
    ASSUME [Next]_vars, ~continuing, pc = "exit" PROVE pc' = "exit" \/ Lost
<1>1. CASE \E p \in Plugin : WorkerThread(p) \/ EditFile(p)
  BY <1>1 DEF WorkerThread, RunCallbacks, TakeItem, EventHandled, EventIgnored,
              CallbackFails, DeactivateRaised, EditFile
<1>2. CASE (\E e \in EventId : Publish(e)) \/ UNCHANGED vars
  BY <1>2 DEF Publish
<1>3. CASE ProcessExit \/ CrashExit \/ Kill
  BY <1>3 DEF ProcessExit, CrashExit, Kill
<1>4. ~(GetNewEvents \/ LoadPlugins \/ Start \/ BeginStop \/ FinishStop \/ LoopTop)
  BY DEF GetNewEvents, ScanPlugin, ScanDone, EntryGone, EntryExpired,
         EntryPending, NothingToFetch, CheckActive, MatchTypes, Fetch,
         LoadPlugins, ListPlugins, ConstructPlugins, ReloadPlugin, RetirePlugin,
         JoinWorker, InstallPlugins, Start, BeginStop, FinishStop, LoopTop
<1>5. ~(LoadEventIdData \/ SaveEventIdData \/ BatchDone \/ CheckBacklog)
  BY DEF LoadEventIdData, ReadState, ApplyState, NoFile, AskLastEventId, SeedState,
         SaveEventIdData, CollectState, WriteFile, BatchDone, CheckBacklog
<1>6. \A e \in EventId : ~Enqueue(e)
  BY DEF Enqueue
<1> QED BY <1>1, <1>2, <1>3, <1>4, <1>5, <1>6 DEF Next, MainThread

\* The steps at which something is asked of Shotgun, or follows from it.
AskSteps == {"askId", "seed", "lockTypes", "fetch"}

\* They begin where there is no file, or something to fetch.
LEMMA AskStepsFrame ==
    ASSUME [Next]_vars, pc \notin AskSteps, pc' \in AskSteps
    PROVE  NoFile \/ CheckActive \/ FinishStop
<1> USE DEF AskSteps
<1>1. ~SaveEventIdData
  BY DEF SaveEventIdData, CollectState, WriteFile, LoopOver
<1>2. ~(ScanPlugin \/ ScanDone \/ NothingToFetch \/ MatchTypes \/ Fetch)
  BY DEF ScanPlugin, ScanDone, NothingToFetch, MatchTypes, Fetch, LoopOver
<1>3. \A k \in EventId : ~(EntryGone(k) \/ EntryExpired(k) \/ EntryPending(k))
  BY DEF EntryGone, EntryExpired, EntryPending
<1>4. ~LoadPlugins
  BY DEF LoadPlugins, ListPlugins, ConstructPlugins, ReloadPlugin, RetirePlugin,
         JoinWorker, InstallPlugins, LoopOver
<1>5. ~(ReadState \/ ApplyState \/ AskLastEventId \/ SeedState)
  BY DEF ReadState, ApplyState, AskLastEventId, SeedState, LoopOver
<1>6. ~(LoopTop \/ ProcessExit \/ CrashExit \/ Kill \/ Start \/ BeginStop)
  BY DEF LoopTop, ProcessExit, CrashExit, Kill, Lost, Start, BeginStop
<1>7. \A e \in EventId : ~(Publish(e) \/ Enqueue(e))
  BY DEF Publish, Enqueue, LoopOver
<1>8. ~(BatchDone \/ CheckBacklog \/ UNCHANGED vars)
  BY DEF BatchDone, CheckBacklog, LoopOver
<1>9. \A p \in Plugin : ~(WorkerThread(p) \/ EditFile(p))
  BY DEF WorkerThread, RunCallbacks, TakeItem, EventHandled, EventIgnored,
         CallbackFails, DeactivateRaised, EditFile
<1> QED
  BY <1>1, <1>2, <1>3, <1>4, <1>5, <1>6, <1>7, <1>8, <1>9
     DEF Next, MainThread, GetNewEvents, LoadEventIdData

\* The engine reads a file without an id as it reads any other, and then has no
\* cursor to fetch from, in this process and in every later one.
LEMMA DeadStep == ASSUME DeliveryInv, StepInv, Dead, [Next]_vars PROVE Dead'
<1>1. /\ TypeOK /\ at \in Plugin
      /\ lastDispatchedEventId \in [Plugin -> EventId \cup {NoId}]
      /\ stateData \in [Plugin -> Cursor] /\ eventIdFile \in [Plugin -> Cursor]
  BY DEF DeliveryInv, IInv, TypeOK, StepTypeOK, CursorTypeOK, StateTypeOK
<1>2. \A p \in Plugin : /\ lastDispatchedEventId[p] = NoId /\ lastEventId[p] = NoId
                        /\ backlog[p] = {} /\ stateData[p].last = NoId
                        /\ eventIdFile[p].last = NoId /\ CursorOf(p).last = NoId
  <2>1. \A p \in Plugin : CursorOf(p).last = lastEventId[p]
                          /\ CursorOf(p).backlog = backlog[p]
    BY DEF CursorOf
  <2> QED BY <2>1 DEF Dead, DeliveryInv, DispatchComesFirst, BacklogHasCursor
<1>3. /\ pc \notin {"askId", "seed", "lockTypes", "fetch"}
      /\ pc = "stopping" => interrupted \notin {"askId", "seed", "lockTypes", "fetch"}
      /\ eventIdNames # {} /\ nextEventId = NoId /\ batch = {}
      /\ maxStateId = NoId \/ pc = "exit"
  BY DEF Dead, At
<1>4. eventIdNames' # {}
  BY <1>3, StateFrame
     DEF ReadState, ApplyState, SeedState, FinishStop, CollectState, WriteFile,
         WriteState, CrashExit
<1>5. nextEventId' = NoId /\ batch' = {}
  BY <1>1, <1>2, <1>3, LocalFrame
     DEF Lost, ScanPlugin, MatchTypes, Fetch, ListPlugins, InstallPlugins,
         ReadState, ApplyState, AskLastEventId, SeedState, EntryExpired,
         EntryPending, Enqueue
<1>6. ~SeedState /\ ~AskLastEventId /\ ~NoFile
  BY <1>3 DEF SeedState, AskLastEventId, NoFile
<1>7. ASSUME ApplyState
      PROVE  maxStateId = NoId /\ \A p \in Plugin : NormalizedState(p).last = NoId
  BY <1>2, <1>3, <1>7 DEF ApplyState, NormalizedState
<1>8. ASSUME NEW p \in Plugin PROVE lastDispatchedEventId'[p] = NoId
  <2>1. CASE ApplyState
    BY <1>1, <1>2, <1>7, <2>1 DEF ApplyState
  <2>2. CASE Lost \/ InstallPlugins
    BY <1>2, <2>2 DEF Lost, InstallPlugins
  <2>3. ASSUME NEW q \in Plugin, EventHandled(q)
        PROVE  lastDispatchedEventId' = lastDispatchedEventId
    BY <2>3 DEF EventHandled
  <2>4. ASSUME NEW e \in EventId, EntryExpired(e) \/ Enqueue(e)
        PROVE  lastDispatchedEventId' = lastDispatchedEventId
    BY <1>3, <2>4 DEF EntryExpired, Enqueue
  <2> QED BY <1>2, <1>6, <2>1, <2>2, <2>3, <2>4, CursorFrame
<1>9. ASSUME NEW p \in Plugin
      PROVE  eventIdFile'[p].last = NoId /\ stateData'[p].last = NoId
  <2>1. CASE ApplyState
    BY <1>1, <1>2, <1>7, <2>1 DEF ApplyState
  <2>2. CASE ReadState
    BY <1>2, <2>2 DEF ReadState
  <2>3. CASE FinishStop
    BY <1>2, <2>3 DEF FinishStop
  <2>4. ASSUME NEW from, NEW to, CollectState(from, to)
        PROVE  eventIdFile'[p].last = NoId /\ stateData'[p].last = NoId
    BY <1>1, <1>2, <2>4 DEF CollectState
  <2>5. ASSUME NEW from, NEW to, WriteFile(from, to)
        PROVE  eventIdFile'[p].last = NoId /\ stateData'[p].last = NoId
    BY <1>2, <2>5 DEF WriteFile, WriteState
  <2>6. CASE Lost /\ (CrashExit \/ UNCHANGED fileVars)
    BY <1>2, <2>6 DEF Lost, CrashExit, WriteState, NoCursor
  <2>7. CrashExit => Lost
    BY DEF CrashExit
  <2> QED
    BY <1>2, <1>6, <2>1, <2>2, <2>3, <2>4, <2>5, <2>6, <2>7, StateFrame
<1>10. /\ pc' \notin {"askId", "seed", "lockTypes", "fetch"}
       /\ pc' = "stopping" => interrupted' \notin {"askId", "seed", "lockTypes", "fetch"}
  <2>1. CASE pc = "stopping"
    BY <1>3, <2>1, StopFrame DEF Lost, FinishStop
  <2>2. CASE pc # "stopping"
    <3>1. CASE BeginStop
      BY <1>3, <3>1 DEF BeginStop
    <3>2. CASE ~BeginStop
      <4>1. pc' # "stopping"
        BY <2>2, <3>2, StopFrame
      <4>2. pc' \notin {"askId", "seed", "lockTypes", "fetch"}
        BY <1>3, <1>6, <2>2, AskStepsFrame DEF AskSteps, CheckActive, FinishStop
      <4> QED BY <4>1, <4>2
    <3> QED BY <3>1, <3>2
  <2> QED BY <2>1, <2>2
<1>11. maxStateId' = NoId \/ pc' = "exit"
  <2>1. CASE pc = "exit"
    <3>1. ~continuing
      BY <2>1 DEF StepInv, StopIsNoted, At
    <3> QED BY <2>1, <3>1, ExitFrame DEF Lost
  <2>2. CASE pc # "exit"
    <3>1. maxStateId = NoId
      BY <1>3, <2>2
    <3>2. ReadState => maxStateId' = NoId
      <4>1. ASSUME ReadState, maxStateId' # maxStateId PROVE maxStateId' = NoId
        <5>1. PICK m \in {NoId} \cup {eventIdFile[p].last : p \in eventIdNames} :
                    maxStateId' = m
          BY <4>1 DEF ReadState
        <5>2. eventIdNames \subseteq Plugin
          BY <1>1 DEF TypeOK, StateTypeOK
        <5> QED BY <1>2, <5>1, <5>2
      <4> QED BY <3>1, <4>1
    <3>3. ASSUME NEW e \in EventId, EntryExpired(e) \/ EntryPending(e) \/ Enqueue(e)
          PROVE  maxStateId' = maxStateId
      BY <3>3 DEF EntryExpired, EntryPending, Enqueue
    <3> QED
      BY <1>6, <3>1, <3>2, <3>3, LocalFrame
         DEF Lost, ScanPlugin, MatchTypes, Fetch, ListPlugins, InstallPlugins,
             ApplyState
  <2> QED BY <2>1, <2>2
<1> QED BY <1>4, <1>5, <1>8, <1>9, <1>10, <1>11 DEF Dead, At

-----------------------------------------------------------------------------
(* What was done *)

\* Nothing makes a plugin clean again: a plugin that is, was, and was not lost with
\* its file, with the process, or in a file that could not be written.
LEMMA CleanFrame ==
    ASSUME TypeOK, [Next]_vars, NEW p \in Plugin, clean'[p]
    PROVE  /\ clean[p] /\ ~CrashExit /\ ~Kill
           /\ InstallPlugins => p \notin plugins \/ p \in listed
           /\ FinishStop => \/ stateNames \cup plugins = {}
                            \/ /\ eventIdFile' = stateData' /\ eventIdNames' # {}
                               /\ p \in plugins => lastEventId[p] # NoId
<1>1. clean \in [Plugin -> BOOLEAN]
  BY DEF TypeOK, HistoryTypeOK
<1>2. ~CrashExit /\ ~Kill
  BY DEF CrashExit, Kill
<1>3. ASSUME NEW q \in Plugin, EventHandled(q) PROVE clean[p]
  BY <1>1, <1>3 DEF EventHandled, RecordDone
<1>4. CASE InstallPlugins
  BY <1>1, <1>2, <1>4 DEF InstallPlugins, FinishStop
<1>5. CASE FinishStop
  BY <1>1, <1>2, <1>5 DEF InstallPlugins, FinishStop
<1> QED BY <1>2, <1>3, <1>4, <1>5, ExcuseFrame

\* The collection changes by a load, or goes with the process.
LEMMA EndFrame ==
    [Next]_vars =>
        UNCHANGED plugins \/ InstallPlugins \/ ProcessExit \/ CrashExit \/ Kill
  BY DEF Next, MainThread, GetNewEvents, SaveEventIdData, LoadPlugins,
         LoadEventIdData, WorkerThread, RunCallbacks, LoopTop, ScanPlugin,
         ScanDone, EntryGone, EntryExpired, EntryPending, NothingToFetch,
         CheckActive, MatchTypes, Fetch, Enqueue, BatchDone, CollectState,
         WriteFile, CheckBacklog, ListPlugins, ConstructPlugins, ReloadPlugin,
         RetirePlugin, JoinWorker, ReadState, ApplyState, NoFile, AskLastEventId,
         SeedState, FinishStop, Start, BeginStop, TakeItem, EventHandled,
         EventIgnored, CallbackFails, DeactivateRaised, Publish, EditFile

\* Only a plugin's own event adds to what was done, and nothing takes away from it.
LEMMA DoneFrame ==
    ASSUME TypeOK, [Next]_vars, NEW p \in Plugin
    PROVE  \/ Done(p)' = Done(p)
           \/ /\ EventHandled(p) /\ UpdateLastEventId(p, current[p])
              /\ RecordDone(p, current[p])
              /\ Done(p)' = Done(p) \cup {current[p]}
<1>1. /\ HistoryTypeOK /\ at \in Plugin /\ fate \in [Plugin -> [EventId -> Fate]]
  BY DEF TypeOK, StepTypeOK, HistoryTypeOK
<1>2. ASSUME NEW q \in Plugin, NEW S, NEW f \in Fate \ {"open", "done"}, Drop(q, S, f)
      PROVE  Done(p)' = Done(p)
  BY <1>1, <1>2 DEF Drop, Done, Fate
<1>3. CASE UNCHANGED fate
  BY <1>3 DEF Done
<1>4. CASE ApplyState \/ SeedState
  <2>1. \/ UNCHANGED fate
        \/ \E f \in {"fastForward", "before"} :
                Drop(at, 1..NormalizedState(at).last, f)
        \/ Drop(at, 1..maxStateId, "before")
    BY <1>4 DEF ApplyState, SeedState
  <2>2. {"fastForward", "before"} \subseteq Fate \ {"open", "done"}
    BY DEF Fate
  <2> HIDE DEF Fate
  <2> QED BY <1>1, <1>2, <1>3, <2>1, <2>2
<1>5. ASSUME NEW e \in EventId, EntryExpired(e) PROVE Done(p)' = Done(p)
  BY <1>1, <1>2, <1>5 DEF EntryExpired, Fate
<1>6. ASSUME NEW q \in Plugin, EventHandled(q)
      PROVE  \/ Done(p)' = Done(p)
             \/ /\ q = p /\ UpdateLastEventId(p, current[p])
                /\ RecordDone(p, current[p])
                /\ Done(p)' = Done(p) \cup {current[p]}
  <2> DEFINE e == current[q]
             passed == IF lastEventId[q] = NoId THEN 1..(e - 1)
                       ELSE IF SmallGap(q, e) THEN {} ELSE Gap(q, e)
             why == IF lastEventId[q] = NoId THEN "reset" ELSE "largeGap"
  <2>1. e \in EventId
    BY <1>6 DEF EventHandled, TypeOK, WorkerTypeOK
  <2>2. CASE UpdateLastEventId(q, e) /\ RecordDone(q, e)
    <3>1. fate' = [fate EXCEPT ![q] = [i \in EventId |->
            IF i = e THEN "done"
            ELSE IF i \in passed \ backlog[q] /\ @[i] = "open" THEN why ELSE @[i]]]
      BY <2>2 DEF RecordDone
    <3>2. why # "done"
      OBVIOUS
    <3> HIDE DEF e, passed, why
    <3>3. q # p => Done(p)' = Done(p)
      BY <1>1, <3>1 DEF Done
    <3>4. \A i \in EventId : fate'[q][i] = "done" <=> i = e \/ fate[q][i] = "done"
      BY <1>1, <3>1, <3>2
    <3>5. q = p => Done(p)' = Done(p) \cup {e}
      BY <2>1, <3>4 DEF Done
    <3> QED BY <2>2, <3>3, <3>5 DEF e
  <2>3. CASE UNCHANGED historyVars
    BY <2>3 DEF Done
  <2>4. (UpdateLastEventId(q, e) /\ RecordDone(q, e)) \/ UNCHANGED historyVars
    BY <1>6 DEF EventHandled
  <2> QED BY <2>2, <2>3, <2>4
<1> QED BY <1>3, <1>4, <1>5, <1>6, FateFrame

\* A cursor without an id has passed nothing.
LEMMA NothingPassedBy == \A c : c.last = NoId => PassedBy(c) = {}
  BY ConstantsAssumption DEF PassedBy, EventId, NoId

\* A plugin that is gone, waits for its state, or has been saved by a stop, does
\* nothing.
Settled(p) == p \notin plugins \/ Restoring(p) \/ Stopped

LEMMA SettledIsIdle ==
    ASSUME DeliveryInv, StoppedIsIdle, NEW p \in Plugin,
           p \notin plugins \/ TakesState(p) \/ Stopped
    PROVE  ~Locked(p)
  BY DEF DeliveryInv, UnloadedIsBlank, RunIsFresh, StoppedIsIdle, TakesState, Locked

LEMMA SettledDoesNothing ==
    ASSUME DeliveryInv, StoppedIsIdle, [Next]_vars, NEW p \in Plugin,
           p \notin plugins \/ TakesState(p) \/ Stopped
    PROVE  Done(p)' = Done(p)
<1>1. ~EventHandled(p)
  BY SettledIsIdle DEF EventHandled
<1> QED BY <1>1, DoneFrame DEF DeliveryInv, IInv

\* A plugin of the collection that has been sent events keeps what tells so.
LEMMA TakesFrame ==
    ASSUME TypeOK, [Next]_vars, NEW p \in plugins, p \in plugins', TakesState(p)'
    PROVE  TakesState(p)
<1>1. p \in Plugin
  BY DEF TypeOK, CollectionTypeOK
<1>2. ~Lost
  BY DEF Lost
<1>3. InstallPlugins => lastDispatchedEventId'[p] = lastDispatchedEventId[p]
  BY <1>1 DEF InstallPlugins
<1> QED BY <1>1, <1>2, <1>3, DispatchFrame, IdIsKnown DEF TakesState

\* A plugin waits for its state until it is given it.
LEMMA RestoringFrame ==
    ASSUME DeliveryInv, StepInv, [Next]_vars, NEW p \in plugins, p \in plugins',
           Restoring(p), TakesState(p)'
    PROVE  Restoring(p)' \/ ((ApplyState \/ SeedState) /\ at = p)
<1>1. /\ TypeOK /\ p \in Plugin /\ at \in Plugin /\ NumPlugins \in Nat
      /\ p \in Nat /\ at \in Nat /\ p <= NumPlugins /\ 1 <= p
  BY ConstantsAssumption
     DEF DeliveryInv, IInv, TypeOK, CollectionTypeOK, StepTypeOK, Plugin
<1>2. /\ plugins # {} /\ ~Lost
      /\ At("readState") \/ At("askId") => at = 1
      /\ At("exit") \/ pc = "stopping" => ~continuing
  BY DEF Lost, StepInv, LoopIsReset, StopIsNoted
<1>3. \/ At("readState") \/ At("askId") \/ At("exit")
      \/ (At("apply") \/ At("seed")) /\ p >= at
  BY DEF Restoring
<1>4. SUFFICES \/ At("readState")' \/ At("askId")' \/ At("exit")'
               \/ (At("apply") \/ At("seed"))' /\ p >= at'
               \/ (ApplyState \/ SeedState) /\ at = p
  BY DEF Restoring
<1>5. CASE ReadState \/ NoFile \/ AskLastEventId
  BY <1>1, <1>2, <1>5 DEF ReadState, NoFile, AskLastEventId, At
<1>6. CASE ApplyState \/ SeedState
  BY <1>1, <1>2, <1>3, <1>6 DEF ApplyState, SeedState, LoopOver, At
<1>7. CASE BeginStop
  BY <1>2, <1>3, <1>7 DEF BeginStop, At
<1>8. CASE FinishStop
  BY <1>3, <1>8 DEF FinishStop, At
<1>9. CASE \E q \in Plugin : WorkerThread(q) \/ EditFile(q)
  <2>1. UNCHANGED <<pc, at, interrupted>>
    BY <1>9 DEF WorkerThread, RunCallbacks, TakeItem, EventHandled, EventIgnored,
              CallbackFails, DeactivateRaised, EditFile
  <2> QED BY <1>3, <2>1 DEF At
<1>10. CASE (\E e \in EventId : Publish(e)) \/ UNCHANGED vars
  BY <1>3, <1>10 DEF Publish, At
<1>11. pc \in {"readState", "askId", "exit", "apply", "seed", "stopping"}
  BY <1>3 DEF At
<1>12. ~(GetNewEvents \/ LoadPlugins \/ Start \/ LoopTop \/ SaveEventIdData)
  BY <1>11
     DEF GetNewEvents, ScanPlugin, ScanDone, EntryGone, EntryExpired,
         EntryPending, NothingToFetch, CheckActive, MatchTypes, Fetch,
         LoadPlugins, ListPlugins, ConstructPlugins, ReloadPlugin, RetirePlugin,
         JoinWorker, InstallPlugins, Start, LoopTop, SaveEventIdData,
         CollectState, WriteFile
<1>13. ~(BatchDone \/ CheckBacklog \/ \E e \in EventId : Enqueue(e))
  BY <1>11 DEF BatchDone, CheckBacklog, Enqueue
<1> QED
  BY <1>2, <1>5, <1>6, <1>7, <1>8, <1>9, <1>10, <1>12, <1>13
     DEF Next, MainThread, LoadEventIdData, ProcessExit, CrashExit, Kill

\* States are given to the plugins after they have been read.
LEMMA ApplyFrame ==
    ASSUME [Next]_vars, At("apply")' PROVE At("apply") \/ ReadState
<1> USE DEF At
<1>1. ~(SaveEventIdData \/ NoFile \/ AskLastEventId \/ SeedState)
  BY DEF SaveEventIdData, CollectState, WriteFile, LoopOver, NoFile,
         AskLastEventId, SeedState
<1>2. ~(ScanPlugin \/ ScanDone \/ NothingToFetch \/ CheckActive \/ MatchTypes \/ Fetch)
  BY DEF ScanPlugin, ScanDone, NothingToFetch, CheckActive, MatchTypes, Fetch,
         LoopOver
<1>3. \A k \in EventId : ~(EntryGone(k) \/ EntryExpired(k) \/ EntryPending(k))
  BY DEF EntryGone, EntryExpired, EntryPending
<1>4. ~LoadPlugins
  BY DEF LoadPlugins, ListPlugins, ConstructPlugins, ReloadPlugin, RetirePlugin,
         JoinWorker, InstallPlugins, LoopOver
<1>5. ~(LoopTop \/ ProcessExit \/ CrashExit \/ Kill \/ Start)
  BY DEF LoopTop, ProcessExit, CrashExit, Kill, Lost, Start
<1>6. \A e \in EventId : ~Enqueue(e)
  BY DEF Enqueue, LoopOver
<1>7. ~(BatchDone \/ CheckBacklog)
  BY DEF BatchDone, CheckBacklog, LoopOver
<1>8. CASE ApplyState \/ BeginStop \/ FinishStop
  BY <1>8 DEF ApplyState, BeginStop, FinishStop
<1>9. CASE \E p \in Plugin : WorkerThread(p) \/ EditFile(p)
  BY <1>9 DEF WorkerThread, RunCallbacks, TakeItem, EventHandled, EventIgnored,
              CallbackFails, DeactivateRaised, EditFile
<1>10. CASE (\E e \in EventId : Publish(e)) \/ UNCHANGED vars
  BY <1>10 DEF Publish
<1> QED
  BY <1>1, <1>2, <1>3, <1>4, <1>5, <1>6, <1>7, <1>8, <1>9, <1>10
     DEF Next, MainThread, GetNewEvents, LoadEventIdData

-----------------------------------------------------------------------------
(* Where what was done is kept *)

\* A plugin that was sent nothing, and waits for no state, has done nothing.
LEMMA NothingDone ==
    ASSUME DeliveryInv, NEW p \in plugins, TakesState(p), ~Restoring(p), CursorCovers(p)
    PROVE  Done(p) = {}
<1>1. p \in Plugin
  BY DEF DeliveryInv, IInv, TypeOK, CollectionTypeOK
<1>2. CursorOf(p).last = NoId
  BY <1>1 DEF DeliveryInv, DispatchComesFirst, TakesState, CursorOf
<1>3. Covers(p, CursorOf(p))
  BY DEF CursorCovers
<1> QED BY <1>2, <1>3, NothingPassedBy DEF Covers

\* The state a plugin is given, put right for it, covers what its state covers.
LEMMA NormalizedCovers ==
    ASSUME TypeOK, UnnamedIsNoCursor, NEW p \in Plugin, Covers(p, stateData[p])
    PROVE  Done(p) \subseteq PassedBy(NormalizedState(p))
<1>1. /\ stateData[p] \in Cursor /\ stateData[p].last \in EventId \cup {NoId}
      /\ maxStateId \in EventId \cup {NoId} /\ MaxStaleLag \in Nat
  BY ConstantsAssumption DEF TypeOK, StateTypeOK, LocalTypeOK, Cursor
<1>2. CASE p \in stateNames /\ ~Stale(p)
  BY <1>2 DEF NormalizedState, Covers
<1>3. CASE p \in stateNames /\ Stale(p)
  <2>1. NormalizedState(p) = [last |-> maxStateId, backlog |-> {}]
        /\ maxStateId > stateData[p].last + MaxStaleLag
    BY <1>3 DEF NormalizedState, Stale
  <2>2. \A e \in EventId : e <= stateData[p].last => e <= maxStateId
    <3> DEFINE l == stateData[p].last
    <3>1. l \in Nat /\ maxStateId \in Nat /\ MaxStaleLag \in Nat /\ EventId \subseteq Nat
      BY <1>1, ConstantsAssumption DEF EventId, NoId
    <3>2. maxStateId > l + MaxStaleLag
      BY <2>1
    <3> HIDE DEF l
    <3>3. \A e \in EventId : e <= l => e <= maxStateId
      BY <3>1, <3>2
    <3> QED BY <3>3 DEF l
  <2> QED BY <2>1, <2>2 DEF Covers, PassedBy
<1>4. CASE p \notin stateNames
  <2>1. stateData[p].last = NoId
    BY <1>4 DEF UnnamedIsNoCursor, NoCursor
  <2> QED BY <2>1, NothingPassedBy DEF Covers
<1> QED BY <1>2, <1>3, <1>4

\* So does the cursor the plugin is left with.
LEMMA RestoredCovers ==
    ASSUME DeliveryInv, StepInv, NEW p \in plugins, Restoring(p),
           FileCovers(p), StateCovers(p), ApplyState \/ SeedState, at = p
    PROVE  Done(p) \subseteq PassedBy(CursorOf(p)')
<1>1. /\ TypeOK /\ UnnamedIsNoCursor /\ p \in Plugin /\ TakesState(p)
      /\ lastEventId \in [Plugin -> EventId \cup {NoId}]
      /\ backlog \in [Plugin -> SUBSET EventId]
  BY DEF DeliveryInv, IInv, TypeOK, CollectionTypeOK, CursorTypeOK, Restoring
<1>2. CASE ApplyState
  <2>1. At("apply") /\ stateNames # {}
    BY <1>2 DEF ApplyState, At, StepInv, ApplyHasState
  <2>2. Covers(p, stateData[p])
    BY <2>1 DEF StateCovers
  <2>3. CASE p \in stateNames \/ maxStateId # NoId
    <3>1. /\ CursorOf(p)'.last = NormalizedState(p).last
          /\ CursorOf(p)'.backlog = NormalizedState(p).backlog
      BY <1>1, <1>2, <2>3 DEF ApplyState, CursorOf
    <3> QED BY <1>1, <2>2, <3>1, NormalizedCovers DEF PassedBy
  <2>4. CASE p \notin stateNames
    <3>1. stateData[p].last = NoId
      BY <1>1, <2>4 DEF UnnamedIsNoCursor, NoCursor
    <3> QED BY <2>2, <3>1, NothingPassedBy DEF Covers
  <2> QED BY <2>3, <2>4
<1>3. CASE SeedState
  <2>1. eventIdFile[p].last = NoId
    BY <1>1, <1>3 DEF DeliveryInv, RestoresFile, SeedState, At
  <2>2. Covers(p, eventIdFile[p])
    BY DEF FileCovers
  <2> QED BY <2>1, <2>2, NothingPassedBy DEF Covers
<1> QED BY <1>2, <1>3

\* And so does the cursor after one more event, unless the event moved it back.
LEMMA HandledCovers ==
    ASSUME TypeOK, [Next]_vars, NEW p \in Plugin, EventHandled(p), clean'[p],
           Covers(p, CursorOf(p))
    PROVE  Done(p)' \subseteq PassedBy(CursorOf(p)')
<1> DEFINE e == current[p]
           l == lastEventId[p]
<1>1. /\ e \in EventId /\ l \in EventId \cup {NoId} /\ backlog[p] \in SUBSET EventId
      /\ clean \in [Plugin -> BOOLEAN]
  BY DEF EventHandled, TypeOK, WorkerTypeOK, CursorTypeOK, HistoryTypeOK
<1>2. CASE UNCHANGED <<cursorVars, historyVars>>
  BY <1>2 DEF Covers, Done, CursorOf
<1>3. CASE UpdateLastEventId(p, e) /\ RecordDone(p, e)
  <2>1. /\ lastEventId'[p] = e
        /\ backlog'[p] = (backlog[p] \ {e})
                         \cup (IF SmallGap(p, e) THEN Gap(p, e) ELSE {})
    BY <1>3 DEF UpdateLastEventId, TypeOK, CursorTypeOK
  <2>2. e > l
    BY <1>1, <1>3 DEF RecordDone
  <2>3. Done(p)' \subseteq Done(p) \cup {e}
    BY DoneFrame
  <2>4. \A i \in Done(p) : i \in EventId /\ i <= l /\ i \notin backlog[p]
    BY DEF Covers, PassedBy, CursorOf, Done
  <2>5. e \notin backlog'[p] /\ \A i \in EventId : i <= l /\ i \notin backlog[p] =>
            i <= e /\ i \notin backlog'[p]
    <3>1. \A i \in Gap(p, e) : i > l /\ i < e
      BY <1>1, GapBounds
    <3> HIDE DEF e, l
    <3>2. \A i \in EventId : i <= l => i <= e /\ i \notin Gap(p, e)
      BY <1>1, <2>2, <3>1, ConstantsAssumption DEF EventId, NoId
    <3>3. e \notin Gap(p, e)
      BY <1>1, <3>1, ConstantsAssumption DEF EventId
    <3> QED BY <2>1, <3>2, <3>3
  <2>6. e <= e
    BY <1>1, ConstantsAssumption DEF EventId
  <2> QED BY <1>1, <2>1, <2>3, <2>4, <2>5, <2>6 DEF PassedBy, CursorOf
<1> QED BY <1>2, <1>3 DEF EventHandled

\* The cursors in memory.
LEMMA CursorCoversStep ==
    ASSUME DeliveryInv, StepInv, StoppedIsIdle, [Next]_vars, NEW p \in Plugin,
           clean'[p], CursorCovers(p), FileCovers(p), StateCovers(p)
    PROVE  CursorCovers(p)'
<1>1. SUFFICES ASSUME p \in plugins', ~Restoring(p)'
               PROVE  Done(p)' \subseteq PassedBy(CursorOf(p)')
  BY DEF CursorCovers, Covers, CursorOf
<1>2. /\ TypeOK /\ at \in Plugin
      /\ lastEventId \in [Plugin -> EventId \cup {NoId}]
      /\ backlog \in [Plugin -> SUBSET EventId]
  BY DEF DeliveryInv, IInv, TypeOK, StepTypeOK, CursorTypeOK
<1>3. ~Lost
  BY <1>1 DEF Lost
<1>4. CASE p \notin plugins
  <2>1. InstallPlugins
    BY <1>1, <1>3, <1>4, PluginsFrame
  <2> QED BY <1>1, <1>4, <2>1 DEF InstallPlugins, Restoring, TakesState, At
<1>5. CASE p \in plugins /\ Restoring(p)
  <2>1. TakesState(p) /\ Done(p)' = Done(p)
    BY <1>5, SettledDoesNothing DEF Restoring
  <2>2. CASE (ApplyState \/ SeedState) /\ at = p
    BY <1>5, <2>1, <2>2, RestoredCovers
  <2>3. CASE ~((ApplyState \/ SeedState) /\ at = p)
    <3>1. ~TakesState(p)'
      BY <1>1, <1>5, <2>3, RestoringFrame
    <3>2. lastDispatchedEventId'[p] # lastDispatchedEventId[p]
      BY <2>1, <3>1 DEF TakesState
    <3>3. \A e \in EventId : ~Enqueue(e)
      BY <1>5 DEF Enqueue, Restoring, At
    <3>4. \A e \in EventId : ~EntryExpired(e)
      BY <3>2 DEF EntryExpired
    <3>5. \A q \in Plugin : ~EventHandled(q)
      BY <3>2 DEF EventHandled
    <3>6. ~InstallPlugins
      BY <2>1, <3>1 DEF InstallPlugins, TakesState
    <3>7. (ApplyState \/ SeedState) /\ at # p
      BY <1>3, <2>3, <3>2, <3>3, <3>4, <3>5, <3>6, CursorFrame
    <3> QED BY <1>2, <3>2, <3>7 DEF ApplyState, SeedState, TypeOK, CursorTypeOK
  <2> QED BY <2>2, <2>3
<1>6. CASE p \in plugins /\ ~Restoring(p)
  <2>1. Covers(p, CursorOf(p))
    BY <1>6 DEF CursorCovers
  <2>2. CASE EventHandled(p)
    BY <1>2, <2>1, <2>2, HandledCovers
  <2>3. CASE ~EventHandled(p)
    <3>1. Done(p)' \subseteq PassedBy(CursorOf(p))
      BY <1>2, <2>1, <2>3, DoneFrame DEF Covers
    <3>2. SUFFICES lastEventId'[p] = lastEventId[p] /\ backlog'[p] \subseteq backlog[p]
      BY <3>1 DEF PassedBy, CursorOf
    <3>3. CASE InstallPlugins
      BY <1>1, <1>6, <3>3 DEF InstallPlugins
    <3>4. CASE ApplyState \/ SeedState
      <4>1. ~(p = at /\ TakesState(p))
        BY <1>2, <1>6, <3>4, ConstantsAssumption
           DEF Restoring, ApplyState, SeedState, At, Plugin
      <4> QED BY <1>2, <3>4, <4>1 DEF ApplyState, SeedState
    <3>5. ASSUME NEW e \in EventId, EntryExpired(e) \/ Enqueue(e)
          PROVE  lastEventId'[p] = lastEventId[p] /\ backlog'[p] \subseteq backlog[p]
      BY <1>2, <3>5 DEF EntryExpired, Enqueue
    <3>6. ASSUME NEW q \in Plugin, EventHandled(q)
          PROVE  lastEventId'[p] = lastEventId[p] /\ backlog'[p] \subseteq backlog[p]
      BY <1>2, <2>3, <3>6 DEF EventHandled, UpdateLastEventId
    <3> QED BY <1>3, <3>3, <3>4, <3>5, <3>6, CursorFrame
  <2> QED BY <2>2, <2>3
<1> QED BY <1>4, <1>5, <1>6

\* What a stop saves covers what was done, or is of no use to any later process.
LEMMA StopCovers ==
    ASSUME DeliveryInv, StepInv, StoppedIsIdle, FinishStop, [Next]_vars, NEW p \in Plugin,
           clean'[p], CursorCovers(p), FileCovers(p), StateCovers(p),
           stateNames \cup plugins # {}
    PROVE  \/ Dead'
           \/ eventIdFile' = stateData' /\ Done(p) \subseteq PassedBy(stateData'[p])
<1>1. /\ TypeOK /\ UnnamedIsNoCursor /\ stateNames \subseteq Plugin
      /\ plugins \subseteq Plugin /\ pc = "stopping"
  BY DEF DeliveryInv, IInv, TypeOK, StateTypeOK, CollectionTypeOK, FinishStop
<1>2. /\ eventIdFile' = stateData' /\ eventIdNames' # {}
      /\ p \in plugins => lastEventId[p] # NoId
      /\ stateData' = [q \in Plugin |-> IF q \in plugins THEN CursorOf(q) ELSE stateData[q]]
  BY <1>1, CleanFrame DEF FinishStop
<1>3. CASE p \in plugins
  <2>1. ~TakesState(p)
    BY <1>2, <1>3 DEF DeliveryInv, DispatchComesFirst, TakesState
  <2>2. Covers(p, CursorOf(p))
    BY <1>3, <2>1 DEF CursorCovers, Restoring
  <2> QED BY <1>2, <1>3, <2>2 DEF Covers
<1>4. CASE p \notin plugins /\ stateNames # {}
  BY <1>2, <1>4 DEF StateCovers, Covers
<1>5. CASE p \notin plugins /\ stateNames = {}
  <2>1. /\ At("readState") \/ At("askId") \/ At("seed") \/ At("exit")
        /\ nextEventId = NoId /\ batch = {}
        /\ \A q \in Plugin : lastDispatchedEventId[q] = NoId
    BY <1>5 DEF StepInv, FirstLoad
  <2>2. CASE At("askId") \/ At("seed")
    <3>1. eventIdFile[p].last = NoId
      BY <1>1, <1>5, <2>2 DEF StepInv, SeedHasNoFile, UnnamedIsNoCursor, NoCursor
    <3>2. Covers(p, eventIdFile[p])
      BY <1>5 DEF FileCovers
    <3> QED BY <1>2, <3>1, <3>2, NothingPassedBy DEF Covers
  <2>3. CASE At("readState") \/ At("exit")
    <3>1. pc' = interrupted /\ interrupted \in {"readState", "exit"}
      BY <1>1, <2>3 DEF FinishStop, At
    <3>2. maxStateId = NoId \/ interrupted = "exit"
      BY <1>1, <3>1 DEF StepInv, SeedIsReset, At
    <3>3. \A q \in Plugin : stateData'[q].last = NoId
      <4>1. \A q \in Plugin : CursorOf(q).last = NoId
        BY <2>1 DEF DeliveryInv, DispatchComesFirst, CursorOf
      <4>2. \A q \in Plugin : stateData[q].last = NoId
        BY <1>1, <1>5 DEF UnnamedIsNoCursor, NoCursor
      <4> QED BY <1>2, <4>1, <4>2
    <3>4. UNCHANGED <<nextEventId, batch, maxStateId, lastDispatchedEventId>>
      BY DEF FinishStop
    <3> QED BY <1>2, <2>1, <3>1, <3>2, <3>3, <3>4 DEF Dead, At
  <2> QED BY <2>1, <2>2, <2>3
<1> QED BY <1>3, <1>4, <1>5

\* The event id file.
LEMMA FileCoversStep ==
    ASSUME DeliveryInv, StepInv, StoppedIsIdle, [Next]_vars, NEW p \in Plugin,
           clean'[p], CursorCovers(p), FileCovers(p), StateCovers(p)
    PROVE  FileCovers(p)' \/ Dead'
<1>1. SUFFICES ASSUME p \notin plugins' \/ Restoring(p)' \/ Stopped', ~Dead'
               PROVE  Done(p)' \subseteq PassedBy(eventIdFile'[p])
  BY DEF FileCovers, Covers
<1>2. TypeOK /\ ~CrashExit /\ ~Kill
  BY CleanFrame DEF DeliveryInv, IInv
<1>3. CASE p \notin plugins \/ Restoring(p) \/ Stopped
  <2>1. Done(p)' = Done(p)
    BY <1>3, SettledDoesNothing DEF Restoring
  <2>2. Covers(p, eventIdFile[p])
    BY <1>3 DEF FileCovers
  <2>3. CASE eventIdFile' = eventIdFile
    BY <2>1, <2>2, <2>3 DEF Covers
  <2>4. CASE FinishStop
    BY <1>1, <2>1, <2>2, <2>3, <2>4, StopCovers DEF FinishStop, Covers
  <2>5. ASSUME NEW from \in {"write", "firstWrite"}, NEW to, WriteFile(from, to),
               eventIdFile' # eventIdFile
        PROVE  Done(p)' \subseteq PassedBy(eventIdFile'[p])
    <3>1. stateNames # {} /\ eventIdFile' = stateData /\ ~Restoring(p)
      BY <2>5 DEF WriteFile, WriteState, Restoring, At
    <3>2. Covers(p, stateData[p])
      BY <1>3, <3>1 DEF StateCovers
    <3> QED BY <2>1, <3>1, <3>2 DEF Covers
  <2> QED
    BY <1>2, <2>3, <2>4, <2>5, StateFrame
       DEF ReadState, ApplyState, SeedState, CollectState
<1>4. CASE p \in plugins /\ ~Restoring(p) /\ ~Stopped
  <2>1. p \in plugins'
    <3>1. ~ProcessExit
      BY <1>4 DEF ProcessExit, StepInv, StopIsNoted, At, Stopped
    <3>2. InstallPlugins => p \in plugins'
      BY <1>2, <1>4, CleanFrame DEF InstallPlugins
    <3> QED BY <1>2, <1>4, <3>1, <3>2, EndFrame
  <2>2. CASE Restoring(p)'
    <3>1. TakesState(p)
      BY <1>2, <1>4, <2>1, <2>2, TakesFrame DEF Restoring
    <3>2. Done(p)' = {}
      BY <1>4, <3>1, NothingDone, SettledDoesNothing
    <3> QED BY <3>2
  <2>3. CASE Stopped'
    <3>1. FinishStop
      BY <1>4, <2>3, StoppedFrame
    <3>2. Done(p)' = Done(p)
      BY <3>1 DEF FinishStop, Done
    <3> QED BY <1>1, <1>4, <3>1, <3>2, StopCovers
  <2> QED BY <1>1, <2>1, <2>2, <2>3
<1> QED BY <1>3, <1>4

\* When a plugin is given its state, the collected one still covers what it did.
LEMMA ApplyCovers ==
    ASSUME DeliveryInv, StepInv, StoppedIsIdle, ApplyState, [Next]_vars, NEW p \in Plugin,
           StateCovers(p), p \notin plugins' \/ (Restoring(p) /\ At("apply"))' \/ Stopped'
    PROVE  Done(p)' \subseteq PassedBy(stateData'[p])
<1>1. /\ TypeOK /\ UnnamedIsNoCursor /\ stateData \in [Plugin -> Cursor] /\ at \in Plugin
      /\ p \in Nat /\ at \in Nat /\ NumPlugins \in Nat /\ p <= NumPlugins
      /\ plugins' = plugins /\ At("apply") /\ stateNames # {}
  BY ConstantsAssumption, SMTT(30)
     DEF DeliveryInv, IInv, TypeOK, StateTypeOK, StepTypeOK, Plugin, ApplyState, At,
         StepInv, ApplyHasState
<1>2. p \notin plugins \/ (Restoring(p) /\ At("apply")) \/ Stopped
  <2>1. CASE Stopped'
    BY <2>1 DEF ApplyState, Stopped
  <2>2. CASE (Restoring(p) /\ At("apply"))'
    <3>1. p >= at
      BY <1>1, <2>2 DEF ApplyState, LoopOver, Restoring, At
    <3>2. p \in plugins => TakesState(p)
      BY <1>1, <2>2, TakesFrame DEF Restoring
    <3> QED BY <1>1, <3>1, <3>2 DEF Restoring
  <2> QED BY <1>1, <2>1, <2>2
<1>3. Covers(p, stateData[p])
  BY <1>1, <1>2 DEF StateCovers
<1>4. Done(p)' = Done(p)
  BY <1>2, SettledDoesNothing DEF Restoring
<1>5. stateData'[p] \in {stateData[p], NormalizedState(p)}
  BY <1>1 DEF ApplyState
<1> QED BY <1>1, <1>3, <1>4, <1>5, NormalizedCovers DEF Covers

\* When there is no state to give, the seed covers what it did: nothing.
LEMMA SeedCovers ==
    ASSUME DeliveryInv, StepInv, StoppedIsIdle, SeedState, [Next]_vars, NEW p \in Plugin,
           CursorCovers(p), FileCovers(p), StateCovers(p), p \notin plugins \/ Stopped
    PROVE  Done(p)' \subseteq PassedBy(stateData'[p])
<1>1. /\ TypeOK /\ UnnamedIsNoCursor /\ at \in Plugin
      /\ stateData \in [Plugin -> Cursor]
      /\ lastEventId \in [Plugin -> EventId \cup {NoId}]
  BY DEF DeliveryInv, IInv, TypeOK, StateTypeOK, StepTypeOK, CursorTypeOK
<1>2. Done(p)' = Done(p)
  BY SettledDoesNothing
<1>3. Covers(p, eventIdFile[p])
  BY DEF FileCovers
<1>4. CASE p = at /\ p \in plugins
  <2>1. CASE TakesState(p)
    <3>1. eventIdFile[p].last = NoId
      BY <1>1, <1>4, <2>1 DEF DeliveryInv, RestoresFile, SeedState, At
    <3> QED BY <1>2, <1>3, <3>1, NothingPassedBy DEF Covers
  <2>2. CASE ~TakesState(p)
    <3>1. Covers(p, CursorOf(p))
      BY <1>4, <2>2 DEF CursorCovers, Restoring
    <3>2. stateData'[p] = [last |-> lastEventId[p], backlog |-> backlog[p]]
      BY <1>1, <1>4, <2>2 DEF SeedState
    <3> QED BY <1>2, <3>1, <3>2 DEF Covers, CursorOf
  <2> QED BY <2>1, <2>2
<1>5. CASE ~(p = at /\ p \in plugins)
  <2>1. stateData'[p] = stateData[p]
    BY <1>1, <1>5 DEF SeedState
  <2>2. CASE stateNames # {}
    BY <1>2, <2>1, <2>2 DEF StateCovers, Covers
  <2>3. CASE stateNames = {}
    <3>1. eventIdFile[p].last = NoId
      BY <1>1, <2>3
         DEF SeedState, StepInv, SeedHasNoFile, UnnamedIsNoCursor, NoCursor, At
    <3> QED BY <1>2, <1>3, <3>1, NothingPassedBy DEF Covers
  <2> QED BY <2>2, <2>3
<1> QED BY <1>4, <1>5

\* The collected states.
LEMMA StateCoversStep ==
    ASSUME DeliveryInv, StepInv, StoppedIsIdle, [Next]_vars, NEW p \in Plugin,
           clean'[p], CursorCovers(p), FileCovers(p), StateCovers(p)
    PROVE  StateCovers(p)' \/ Dead'
<1>1. SUFFICES ASSUME stateNames' # {}, ~Dead',
                      p \notin plugins' \/ (Restoring(p) /\ At("apply"))' \/ Stopped'
               PROVE  Done(p)' \subseteq PassedBy(stateData'[p])
  BY DEF StateCovers, Covers
<1>2. /\ TypeOK /\ UnnamedIsNoCursor /\ at \in Plugin /\ stateData \in [Plugin -> Cursor]
      /\ ~Lost /\ plugins \subseteq Plugin
  BY <1>1
     DEF DeliveryInv, IInv, TypeOK, StateTypeOK, StepTypeOK, CollectionTypeOK, Lost
<1>3. CASE FinishStop
  <2>1. stateNames \cup plugins # {} /\ Done(p)' = Done(p)
    BY <1>1, <1>3 DEF FinishStop, Done
  <2> QED BY <1>1, <1>3, <2>1, StopCovers
<1>4. CASE ReadState
  <2>1. p \notin plugins \/ Restoring(p) \/ Stopped
    <3>1. CASE (Restoring(p) /\ At("apply"))' /\ p \in plugins
      <4>1. p \in plugins' /\ At("readState")
        BY <1>4, <3>1 DEF ReadState, At
      <4>2. TakesState(p)
        BY <1>2, <3>1, <4>1, TakesFrame DEF Restoring
      <4> QED BY <4>1, <4>2 DEF Restoring
    <3>2. CASE Stopped'
      BY <1>4, <3>2 DEF ReadState, Stopped
    <3> QED BY <1>1, <1>4, <3>1, <3>2 DEF ReadState
  <2>2. Done(p)' = Done(p) /\ Covers(p, eventIdFile[p])
    BY <2>1, SettledDoesNothing DEF FileCovers, Restoring
  <2>3. CASE plugins # {}
    BY <1>4, <2>2, <2>3 DEF ReadState, Covers
  <2>4. CASE plugins = {}
    BY <1>1, <1>4, <2>2, <2>4 DEF ReadState, StateCovers, Covers
  <2> QED BY <2>3, <2>4
<1>5. CASE ApplyState
  BY <1>1, <1>5, ApplyCovers
<1>6. CASE SeedState
  <2>1. p \notin plugins \/ Stopped
    BY <1>1, <1>6 DEF SeedState, LoopOver, At, Stopped
  <2> QED BY <1>6, <2>1, SeedCovers
<1>7. ASSUME NEW from \in {"save", "firstSave"}, NEW to \in {"write", "firstWrite"},
             CollectState(from, to)
      PROVE  Done(p)' \subseteq PassedBy(stateData'[p])
  <2>1. p \notin plugins \/ Stopped
    BY <1>1, <1>7 DEF CollectState, LoopOver, At, Stopped
  <2>2. Done(p)' = Done(p)
    BY <2>1, SettledDoesNothing
  <2>3. CASE p = at /\ p \in plugins
    <3>1. ~Restoring(p)
      BY <1>7 DEF CollectState, Restoring, At
    <3>2. Covers(p, CursorOf(p))
      BY <2>3, <3>1 DEF CursorCovers
    <3>3. stateData'[p] = CursorOf(p)
      BY <1>2, <1>7, <2>3 DEF CollectState
    <3> QED BY <2>2, <3>2, <3>3 DEF Covers
  <2>4. CASE ~(p = at /\ p \in plugins)
    <3>1. stateData'[p] = stateData[p]
      BY <1>2, <1>7, <2>4 DEF CollectState
    <3>2. stateNames # {}
      <4>1. CASE plugins = {}
        BY <1>1, <1>7, <4>1 DEF CollectState
      <4>2. CASE plugins # {}
        BY <1>7, <4>2 DEF CollectState, StepInv, FirstLoad, At
      <4> QED BY <4>1, <4>2
    <3> QED BY <2>1, <2>2, <3>1, <3>2 DEF StateCovers, Covers
  <2> QED BY <2>3, <2>4
<1>8. CASE UNCHANGED stateVars /\ ~FinishStop /\ ~ReadState
  <2>1. CASE p \notin plugins \/ (Restoring(p) /\ At("apply")) \/ Stopped
    <3>1. Done(p)' = Done(p)
      BY <2>1, SettledDoesNothing DEF Restoring
    <3> QED BY <1>1, <1>8, <2>1, <3>1 DEF StateCovers, Covers
  <2>2. CASE p \in plugins /\ ~(Restoring(p) /\ At("apply")) /\ ~Stopped
    <3>1. p \in plugins'
      BY <1>2, <2>2, CleanFrame, EndFrame DEF InstallPlugins, ProcessExit
    <3>2. ~Stopped'
      BY <1>8, <2>2, StoppedFrame
    <3>3. TakesState(p) /\ At("apply")
      BY <1>1, <1>2, <1>8, <2>2, <3>1, <3>2, TakesFrame, ApplyFrame DEF Restoring
    <3>4. Done(p)' = {}
      BY <2>2, <3>3, NothingDone, SettledDoesNothing
    <3> QED BY <3>4
  <2> QED BY <2>1, <2>2
<1> QED
  BY <1>2, <1>3, <1>4, <1>5, <1>6, <1>7, <1>8, StateFrame DEF WriteFile, CrashExit

-----------------------------------------------------------------------------

\* Every step keeps what was done in the cursor or the checkpoint.
LEMMA CheckpointStep ==
    ASSUME DeliveryInv, CheckpointInv, [Next]_vars PROVE CheckpointInv'
<1>1. StepInv /\ StoppedIsIdle
  BY DEF CheckpointInv
<1>2. StepInv' /\ StoppedIsIdle'
  BY <1>1, StepInvStep, StoppedIdleStep
<1>3. CASE Dead
  BY <1>1, <1>2, <1>3, DeadStep DEF CheckpointInv
<1>4. CASE ~Dead
  <2>1. ASSUME NEW p \in Plugin, clean'[p]
        PROVE  Dead' \/ (CursorCovers(p)' /\ FileCovers(p)' /\ StateCovers(p)')
    <3>1. CursorCovers(p) /\ FileCovers(p) /\ StateCovers(p)
      BY <1>4, <2>1, CleanFrame DEF CheckpointInv, DeliveryInv, IInv
    <3> QED
      BY <1>1, <2>1, <3>1, CursorCoversStep, FileCoversStep, StateCoversStep
  <2> QED BY <1>2, <2>1 DEF CheckpointInv
<1> QED BY <1>3, <1>4

\* No step runs an event again without a reason.
LEMMA RerunStep ==
    ASSUME DeliveryInv, CheckpointInv, NoNeedlessRerun, [Next]_vars
    PROVE  NoNeedlessRerun'
<1>1. SUFFICES ASSUME NEW p \in Plugin, rerun'[p] # rerun[p] PROVE FALSE
  BY DEF NoNeedlessRerun
<1>2. /\ TypeOK /\ rerun \in [Plugin -> BOOLEAN]
      /\ lastEventId \in [Plugin -> EventId \cup {NoId}]
      /\ current[p] \in EventId \cup {NoId}
  BY DEF DeliveryInv, IInv, TypeOK, HistoryTypeOK, CursorTypeOK, WorkerTypeOK
<1>3. EventHandled(p)
  <2>1. ASSUME NEW q \in Plugin, EventHandled(q) PROVE q = p
    BY <1>1, <1>2, <2>1 DEF EventHandled, RecordDone
  <2> QED
    BY <1>1, <2>1, ExcuseFrame DEF InstallPlugins, FinishStop, CrashExit, Kill
<1>4. Locked(p) /\ current[p] \in EventId
  BY <1>3 DEF EventHandled, DeliveryInv, IInv, TypeOK, WorkerTypeOK
<1>5. RecordDone(p, current[p]) /\ ~(worker[p] = "retry" /\ current[p] \notin backlog[p])
  BY <1>1, <1>3 DEF EventHandled
<1>6. clean[p] /\ fate[p][current[p]] = "done"
  BY <1>1, <1>2, <1>5 DEF RecordDone
<1>7. p \in plugins /\ lastDispatchedEventId[p] # NoId
  BY <1>4 DEF DeliveryInv, UnloadedIsBlank, RunIsFresh, Locked
<1>8. CursorCovers(p) /\ ~Restoring(p)
  BY <1>6, <1>7 DEF CheckpointInv, Dead, Restoring, TakesState
<1>9. current[p] \in PassedBy(CursorOf(p))
  BY <1>4, <1>6, <1>7, <1>8 DEF CursorCovers, Covers, Done
<1>10. current[p] <= lastEventId[p] /\ current[p] \notin backlog[p]
  BY <1>9 DEF PassedBy, CursorOf
<1>11. Fresh(p, current[p])
  BY <1>4, <1>5, <1>10 DEF DeliveryInv, RunIsFresh, Locked
<1> QED BY <1>2, <1>4, <1>10, <1>11, ConstantsAssumption DEF Fresh, EventId, NoId

\* The invariant holds when there is no process yet.
LEMMA CheckpointInit == Init => CheckpointInv /\ NoNeedlessRerun
<1> SUFFICES ASSUME Init PROVE CheckpointInv /\ NoNeedlessRerun
  OBVIOUS
<1>1. StepInv
  BY DispatchInit DEF DispatchInv
<1>2. StoppedIsIdle
  BY DEF Init, StoppedIsIdle, Stopped
<1>3. \A p \in Plugin : Done(p) = {}
  BY DEF Init, Done
<1>4. NoNeedlessRerun
  BY DEF Init, NoNeedlessRerun
<1> QED
  BY <1>1, <1>2, <1>3, <1>4
     DEF CheckpointInv, CursorCovers, FileCovers, StateCovers, Covers

\* No event is run again without a reason, for any number of plugins and events and
\* any interleaving of saves, stops and restarts.
THEOREM NothingRunsTwice == Spec => []NoNeedlessRerun
<1>1. DeliveryInv /\ CheckpointInv /\ NoNeedlessRerun /\ [Next]_vars =>
        (DeliveryInv /\ CheckpointInv /\ NoNeedlessRerun)'
  BY DeliveryInvStep, CheckpointStep, RerunStep
<1>2. Init => DeliveryInv /\ CheckpointInv /\ NoNeedlessRerun
  BY DeliveryInvInit, CheckpointInit
<1> QED BY <1>1, <1>2, PTL DEF Spec

\* The invariant behind all these theorems, which the runs check too.
THEOREM DaemonInvHolds == Spec => []DaemonInv
<1>1. DispatchInv /\ CheckpointInv /\ [Next]_vars => (DispatchInv /\ CheckpointInv)'
  BY DispatchInvStep, CheckpointStep DEF DispatchInv
<1>2. Init => DispatchInv /\ CheckpointInv
  BY DispatchInit, CheckpointInit
<1>3. DispatchInv /\ CheckpointInv => DaemonInv
  BY DEF DispatchInv, DaemonInv
<1> QED BY <1>1, <1>2, <1>3, PTL DEF Spec

=============================================================================
