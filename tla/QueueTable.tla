------------------------------ MODULE QueueTable ------------------------------
(***************************************************************************)
(* The live table plugin_event_queue.  Every plugin keeps a second record  *)
(* of its work queue (_pending_events, _current_event); the main thread    *)
(* when it enqueues, and the plugin's worker when it starts and finishes   *)
(* an event, take a snapshot of that record and then, in a step of its     *)
(* own, store it in the map of the database logger, whose writer thread    *)
(* replaces the rows of the table.  diagnose_daemon.py shows the table and *)
(* rebuilds a lost event id file from it.                                  *)
(*                                                                         *)
(* The signal handler runs Engine.stop on the main thread, on top of       *)
(* whatever that thread was doing, even while it held a lock.              *)
(***************************************************************************)
EXTENDS Naturals, Sequences, FiniteSetsExt, SequencesExt

CONSTANTS
    NumPlugins,
    MaxId,          \* event ids are 1 .. MaxId
    PendingLimit,   \* QUEUE_SNAPSHOT_PENDING_LIMIT
    MaxDispatched,  \* bound on events handed off in a life of the process
    MaxFaults,      \* bound on failures and long delays of the database
    MaxRestarts     \* bound on ends of the process

ASSUME QueueTableAssumption ==
    /\ NumPlugins \in Nat \ {0}
    /\ MaxId \in Nat /\ PendingLimit \in Nat
    /\ MaxDispatched \in Nat /\ MaxFaults \in Nat /\ MaxRestarts \in Nat

Plugin == 1 .. NumPlugins
EventId == 1 .. MaxId
NoEvent == 0
StopSentinel == 0                       \* _stopSentinel, never an event

VARIABLES
    queue,      \* Plugin._queue
    pending,    \* Plugin._pending_events
    current,    \* Plugin._current_event
    worker,     \* the worker thread: its step, its event, its snapshot
    main,       \* the main thread; cut: the step at which a signal arrived
    closer,     \* the thread that runs Plugin.shutdown
    dispatched, \* events handed off
    stored,     \* _queue_by_plugin
    dirty,      \* _queue_snapshot_dirty
    stop,       \* _stop of the database logger
    writer,     \* its writer thread
    table,      \* the rows of plugin_event_queue
    bounds      \* failures and restarts so far

pluginVars == <<queue, pending, current>>
vars == <<pluginVars, worker, main, closer, dispatched, stored, dirty, stop,
          writer, table, bounds>>

\* A snapshot: the current event, the listed pending ones, and pending_count.
Empty == [current |-> NoEvent, listed |-> <<>>, count |-> 0]

NewWorker == [pc |-> "get", event |-> NoEvent, shot |-> Empty]
NewMain == [pc |-> "idle", at |-> 1, event |-> NoEvent, shot |-> Empty, cut |-> "none"]
\* A table without rows, plugin by plugin.
NoRows == [p \in Plugin |-> <<>>]

NewWriter == [pc |-> "open", rows |-> NoRows, tries |-> 0, replaced |-> FALSE]

Init ==
    /\ queue = [p \in Plugin |-> <<>>]
    /\ pending = [p \in Plugin |-> <<>>]
    /\ current = [p \in Plugin |-> NoEvent]
    /\ worker = [p \in Plugin |-> NewWorker]
    /\ main = NewMain
    /\ closer = [p \in Plugin |-> [pc |-> "off", shot |-> Empty]]
    /\ dispatched = 0
    /\ stored = [p \in Plugin |-> Empty]
    /\ dirty = FALSE /\ stop = FALSE
    /\ writer = NewWriter
    /\ table = NoRows
    /\ bounds = [faults |-> 0, restarts |-> 0]

-----------------------------------------------------------------------------
(* The locks.  Only the main thread can be stopped inside a locked section *)
(* (by its own signal handler), so only it needs steps inside one.         *)

At(pc) == main.pc = pc \/ main.cut = pc

\* _queue_state_lock of p
StateLockFree(p) == ~(main.at = p /\ (At("appended") \/ At("snapped")))

\* _queue_snapshot_lock
MapLockFree == ~At("stored")

\* getQueueSnapshot
Snapshot(pend, cur) ==
    [current |-> cur, count |-> Len(pend),
     listed |-> SubSeq(pend, 1, Min({Len(pend), PendingLimit}))]

\* update_plugin_queue
Store(p, shot) ==
    /\ stored' = [stored EXCEPT ![p] = shot]
    /\ dirty' = TRUE

\* _take_pending: the first entry of that event.
TakePending(p, e) ==
    LET entries == {i \in DOMAIN pending[p] : pending[p][i] = e} IN
    IF entries = {} THEN pending[p] ELSE RemoveAt(pending[p], Min(entries))

Fault == /\ bounds.faults < MaxFaults
         /\ bounds' = [bounds EXCEPT !.faults = @ + 1]

-----------------------------------------------------------------------------
(* The main thread: PluginCollection.process and Plugin.enqueue            *)

MainGoto(pc) == main' = [main EXCEPT !.pc = pc]

\* An event fetched again, for the sake of another plugin or of a gap, is
\* handed off again.
NextEvent ==
    /\ main.pc = "idle" /\ dispatched < MaxDispatched
    /\ dispatched' = dispatched + 1
    /\ \E e \in EventId :
        main' = [main EXCEPT !.pc = "append", !.at = 1, !.event = e]
    /\ UNCHANGED <<pluginVars, worker, closer, stored, dirty, stop, writer, table,
                   bounds>>

AppendPending ==
    /\ main.pc = "append"
    /\ pending' = [pending EXCEPT ![main.at] = Append(@, main.event)]
    /\ MainGoto("appended")
    /\ UNCHANGED <<queue, current, worker, closer, dispatched, stored, dirty, stop,
                   writer, table, bounds>>

\* A locked section of the main thread ends.
After == [appended |-> "put", snapped |-> "store", stored |-> "next"]
Unlock ==
    /\ main.pc \in DOMAIN After
    /\ MainGoto(After[main.pc])
    /\ UNCHANGED <<pluginVars, worker, closer, dispatched, stored, dirty, stop,
                   writer, table, bounds>>

PutEvent ==
    /\ main.pc = "put"
    /\ queue' = [queue EXCEPT ![main.at] = Append(@, main.event)]
    /\ MainGoto("report")
    /\ UNCHANGED <<pending, current, worker, closer, dispatched, stored, dirty, stop,
                   writer, table, bounds>>

\* _report_queue; after a stop, which sets db_logger to None, it does nothing.
Report ==
    /\ main.pc = "report"
    /\ IF stop THEN MainGoto("next")
       ELSE main' = [main EXCEPT !.pc = "snapped", !.shot = Snapshot(pending[main.at], current[main.at])]
    /\ UNCHANGED <<pluginVars, worker, closer, dispatched, stored, dirty, stop,
                   writer, table, bounds>>

MainStore ==
    /\ main.pc = "store"
    /\ Store(main.at, main.shot)
    /\ main' = [main EXCEPT !.pc = "stored", !.shot = Empty]
    /\ UNCHANGED <<pluginVars, worker, closer, dispatched, stop, writer, table, bounds>>

NextPlugin ==
    /\ main.pc = "next"
    /\ main' = IF main.at < NumPlugins
               THEN [main EXCEPT !.pc = "append", !.at = @ + 1]
               ELSE NewMain
    /\ UNCHANGED <<pluginVars, worker, closer, dispatched, stored, dirty, stop, writer,
                   table, bounds>>

-----------------------------------------------------------------------------
(* SIGTERM: Engine.stop                                                    *)

Terminate ==
    /\ main.cut = "none" /\ \A p \in Plugin : closer[p].pc = "off"
    /\ main' = [main EXCEPT !.cut = main.pc, !.pc = "closing"]
    /\ closer' = [p \in Plugin |-> [pc |-> "sentinel", shot |-> Empty]]
    /\ UNCHANGED <<pluginVars, worker, dispatched, stored, dirty, stop, writer, table,
                   bounds>>

\* The sentinel counted as a pending event.
PutSentinelPending(p) ==
    /\ closer[p].pc = "sentinel"
    /\ queue' = [queue EXCEPT ![p] = Append(@, StopSentinel)]
    /\ pending' = [pending EXCEPT ![p] = Append(@, StopSentinel)]
    /\ closer' = [closer EXCEPT ![p].pc = "join"]
    /\ UNCHANGED <<current, worker, main, dispatched, stored, dirty, stop, writer,
                   table, bounds>>

\* Plugin.shutdown, of all plugins at the same time
PutSentinel(p) ==
    /\ closer[p].pc = "sentinel"
    /\ queue' = [queue EXCEPT ![p] = Append(@, StopSentinel)]
    /\ closer' = [closer EXCEPT ![p].pc = "join"]
    /\ UNCHANGED <<pending, current, worker, main, dispatched, stored, dirty, stop,
                   writer, table, bounds>>

ClearPlugin(p) ==
    /\ closer[p].pc = "join" /\ worker[p].pc = "done" /\ StateLockFree(p)
    /\ pending' = [pending EXCEPT ![p] = <<>>]
    /\ current' = [current EXCEPT ![p] = NoEvent]
    /\ closer' = [closer EXCEPT ![p] = [pc |-> "store", shot |-> Empty]]
    /\ UNCHANGED <<queue, worker, main, dispatched, stored, dirty, stop, writer, table,
                   bounds>>

CloserStore(p) ==
    /\ closer[p].pc = "store" /\ MapLockFree
    /\ Store(p, closer[p].shot)
    /\ closer' = [closer EXCEPT ![p].pc = "done"]
    /\ UNCHANGED <<pluginVars, worker, main, dispatched, stop, writer, table, bounds>>

\* The database logger stopped at once.
StopLoggerFirst ==
    /\ main.pc = "closing"
    /\ stop' = TRUE /\ MainGoto("joinWriter")
    /\ UNCHANGED <<pluginVars, worker, closer, dispatched, stored, dirty, writer, table,
                   bounds>>

\* DatabaseLogger.shutdown, when every plugin is shut down.
StopLogger ==
    /\ main.pc = "closing" /\ \A p \in Plugin : closer[p].pc = "done"
    /\ stop' = TRUE /\ MainGoto("joinWriter")
    /\ UNCHANGED <<pluginVars, worker, closer, dispatched, stored, dirty, writer, table,
                   bounds>>

\* The writer is joined, or has not ended in 30 s; the interrupted thread goes on.
HandlerReturns ==
    /\ main.pc = "joinWriter"
    /\ IF writer.pc = "ended" THEN UNCHANGED bounds ELSE Fault
    /\ main' = [main EXCEPT !.pc = main.cut, !.cut = "none"]
    /\ UNCHANGED <<pluginVars, worker, closer, dispatched, stored, dirty, stop, writer,
                   table>>

-----------------------------------------------------------------------------
(* Plugin._workerLoop.  Two locked sections with nothing of this thread in *)
(* between are one step: what the main thread appends between them might   *)
(* as well have been appended before both.                                 *)

\* What follows the report of a start, or of an end.
Reported(p) ==
    worker' = [worker EXCEPT ![p].shot = Empty,
                  ![p].pc = IF @ = "storeStart" THEN "process" ELSE "get"]

Get(p) ==
    /\ worker[p].pc = "get" /\ queue[p] # <<>>
    /\ queue' = [queue EXCEPT ![p] = Tail(@)]
    /\ worker' = [worker EXCEPT
            ![p].pc = IF Head(queue[p]) = StopSentinel THEN "done" ELSE "take",
            ![p].event = Head(queue[p])]
    /\ UNCHANGED <<pending, current, main, closer, dispatched, stored, dirty, stop,
                   writer, table, bounds>>

\* The pending entry left where it is.
BeginWithoutTake(p) ==
    /\ worker[p].pc = "take" /\ StateLockFree(p)
    /\ current' = [current EXCEPT ![p] = worker[p].event]
    /\ worker' = [worker EXCEPT ![p].pc = "storeStart",
                        ![p].shot = Snapshot(pending[p], worker[p].event)]
    /\ UNCHANGED <<queue, pending, main, closer, dispatched, stored, dirty, stop, writer,
                   table, bounds>>

Begin(p) ==
    LET pend == TakePending(p, worker[p].event) IN
    /\ worker[p].pc = "take" /\ StateLockFree(p)
    /\ pending' = [pending EXCEPT ![p] = pend]
    /\ current' = [current EXCEPT ![p] = worker[p].event]
    /\ worker' = [worker EXCEPT ![p].pc = "storeStart",
                                ![p].shot = Snapshot(pend, worker[p].event)]
    /\ UNCHANGED <<queue, main, closer, dispatched, stored, dirty, stop, writer, table,
                   bounds>>

\* The report of the start left out.
StoreOnlyEnd(p) ==
    /\ worker[p].pc \in {"storeStart", "storeEnd"} /\ MapLockFree
    /\ IF worker[p].pc = "storeEnd" THEN Store(p, worker[p].shot)
       ELSE UNCHANGED <<stored, dirty>>
    /\ Reported(p)
    /\ UNCHANGED <<pluginVars, main, closer, dispatched, stop, writer, table, bounds>>

WorkerStore(p) ==
    /\ worker[p].pc \in {"storeStart", "storeEnd"} /\ MapLockFree
    /\ Store(p, worker[p].shot)
    /\ Reported(p)
    /\ UNCHANGED <<pluginVars, main, closer, dispatched, stop, writer, table, bounds>>

\* process(event) returns or raises, and _current_event is reset.
Finish(p) ==
    /\ worker[p].pc = "process" /\ StateLockFree(p)
    /\ current' = [current EXCEPT ![p] = NoEvent]
    /\ worker' = [worker EXCEPT ![p].pc = "storeEnd", ![p].event = NoEvent,
                                ![p].shot = Snapshot(pending[p], NoEvent)]
    /\ UNCHANGED <<queue, pending, main, closer, dispatched, stored, dirty, stop,
                   writer, table, bounds>>

-----------------------------------------------------------------------------
(* DatabaseLogger._writer_loop, as far as it writes the queue table        *)

RowsOf(shot) ==
    (IF shot.current = NoEvent THEN <<>> ELSE << <<shot.current, "processing">> >>)
    \o [i \in DOMAIN shot.listed |-> <<shot.listed[i], "pending">>]

\* The rows of a table, plugin by plugin.
Rows(map) == [p \in Plugin |-> RowsOf(map[p])]

\* The unique key of the table: plugin and event.
KeysUnique(rows) ==
    \A p \in Plugin : \A i, j \in DOMAIN rows[p] : rows[p][i][1] = rows[p][j][1] => i = j

\* An insertion ends somewhere: all rows of some plugins, the first n of another.
Inserted(rows, whole, last, n) ==
    [p \in Plugin |-> IF p \in whole THEN rows[p]
                      ELSE IF p = last THEN SubSeq(rows[p], 1, n) ELSE <<>>]

WriterUnchanged ==
    UNCHANGED <<pluginVars, worker, main, closer, dispatched, stored, stop>>

\* Without a connection the thread ends for good; with one it clears the rows
\* that an earlier process has left.
Open ==
    /\ writer.pc = "open"
    /\ \/ writer' = [writer EXCEPT !.pc = "clear"] /\ UNCHANGED bounds
       \/ writer' = [writer EXCEPT !.pc = "ended"] /\ Fault
    /\ UNCHANGED <<dirty, table>> /\ WriterUnchanged

\* The rows are taken and the flag is left alone.
FlushKeepsFlag ==
    /\ (writer.pc = "loop" /\ ~stop) \/ writer.pc = "last"
    /\ \/ dirty \/ writer.pc = "last"
       \/ Rows(stored) # NoRows
    /\ dirty' = dirty
    /\ writer' = [writer EXCEPT !.rows = Rows(stored),
                    !.pc = IF writer.pc = "last" THEN "lastDelete" ELSE "delete"]
    /\ UNCHANGED <<table, bounds>> /\ WriterUnchanged

\* _flush_queue_snapshot: something new, or the heartbeat of a table with rows.
FlushSnapshot ==
    /\ (writer.pc = "loop" /\ ~stop) \/ writer.pc = "last"
    /\ \/ dirty \/ writer.pc = "last"
       \/ Rows(stored) # NoRows
    /\ dirty' = FALSE
    /\ writer' = [writer EXCEPT !.rows = Rows(stored),
                    !.pc = IF writer.pc = "last" THEN "lastDelete" ELSE "delete"]
    /\ UNCHANGED <<table, bounds>> /\ WriterUnchanged

Deleting == {"clear", "delete", "lastDelete"}
Inserting == [clear |-> "clear", delete |-> "insert", lastDelete |-> "lastInsert"]

\* DELETE, committed by itself.
Delete ==
    /\ writer.pc \in Deleting
    /\ table' = NoRows
    /\ writer' = IF writer.pc = "clear"
                 THEN [writer EXCEPT !.pc = "loop", !.tries = 0, !.replaced = TRUE]
                 ELSE [writer EXCEPT !.pc = Inserting[writer.pc]]
    /\ UNCHANGED <<dirty, bounds>> /\ WriterUnchanged

Insert ==
    /\ writer.pc \in {"insert", "lastInsert"} /\ KeysUnique(writer.rows)
    /\ table' = writer.rows
    /\ writer' = [writer EXCEPT !.pc = IF @ = "insert" THEN "loop" ELSE "ended",
                                !.rows = NoRows, !.tries = 0, !.replaced = TRUE]
    /\ UNCHANGED <<dirty, bounds>> /\ WriterUnchanged

\* The flag not set again.
FailedForgets ==
    IF writer.tries = 0
    THEN /\ writer' = [writer EXCEPT !.tries = 1,
                !.pc = CASE @ = "insert" -> "delete"
                         [] @ = "lastInsert" -> "lastDelete"
                         [] OTHER -> @]
         /\ UNCHANGED dirty
    ELSE /\ writer' = [writer EXCEPT !.tries = 0, !.rows = NoRows,
                !.pc = IF @ \in {"lastDelete", "lastInsert"} THEN "ended" ELSE "loop"]
         /\ UNCHANGED dirty

\* A failure: _run_with_retry begins again once, then the flag is set again
\* (the failed clearing at the start is only logged).
Failed ==
    IF writer.tries = 0
    THEN /\ writer' = [writer EXCEPT !.tries = 1,
                !.pc = CASE @ = "insert" -> "delete"
                         [] @ = "lastInsert" -> "lastDelete"
                         [] OTHER -> @]
         /\ UNCHANGED dirty
    ELSE /\ writer' = [writer EXCEPT !.tries = 0, !.rows = NoRows,
                !.pc = IF @ \in {"lastDelete", "lastInsert"} THEN "ended" ELSE "loop"]
         /\ dirty' = (dirty \/ writer.pc # "clear")

DeleteFails ==
    /\ writer.pc \in Deleting /\ Fault /\ Failed
    /\ table' \in {table, NoRows}
    /\ WriterUnchanged

\* A fault, or a duplicate key: the rows before it may be in the table.
InsertFails ==
    /\ writer.pc \in {"insert", "lastInsert"} /\ Failed
    /\ IF KeysUnique(writer.rows) THEN Fault ELSE UNCHANGED bounds
    /\ \E whole \in SUBSET Plugin, last \in Plugin :
        \E n \in 0 .. Len(writer.rows[last]) :
            LET rows == Inserted(writer.rows, whole, last, n) IN
            KeysUnique(rows) /\ table' = rows
    /\ WriterUnchanged

\* _stop is seen: the last flush is forced.
LeaveLoop ==
    /\ writer.pc = "loop" /\ stop
    /\ writer' = [writer EXCEPT !.pc = "last"]
    /\ UNCHANGED <<dirty, table, bounds>> /\ WriterUnchanged

-----------------------------------------------------------------------------
\* The process is killed, crashes or exits, and is started again.
Restart ==
    /\ bounds.restarts < MaxRestarts
    /\ bounds' = [bounds EXCEPT !.restarts = @ + 1]
    /\ queue' = [p \in Plugin |-> <<>>]
    /\ pending' = [p \in Plugin |-> <<>>]
    /\ current' = [p \in Plugin |-> NoEvent]
    /\ worker' = [p \in Plugin |-> NewWorker]
    /\ main' = NewMain
    /\ closer' = [p \in Plugin |-> [pc |-> "off", shot |-> Empty]]
    /\ dispatched' = 0
    /\ stored' = [p \in Plugin |-> Empty]
    /\ dirty' = FALSE /\ stop' = FALSE
    /\ writer' = NewWriter
    /\ UNCHANGED table

MainStep ==
    \/ NextEvent \/ AppendPending \/ Unlock \/ PutEvent \/ Report \/ MainStore
    \/ NextPlugin \/ StopLogger \/ HandlerReturns
WorkerStep(p) == Get(p) \/ Begin(p) \/ WorkerStore(p) \/ Finish(p)
CloserStep(p) == PutSentinel(p) \/ ClearPlugin(p) \/ CloserStore(p)
WriterStep ==
    \/ Open \/ FlushSnapshot \/ Delete \/ Insert \/ DeleteFails \/ InsertFails
    \/ LeaveLoop

Next ==
    \/ MainStep \/ Terminate \/ WriterStep \/ Restart
    \/ \E p \in Plugin : WorkerStep(p) \/ CloserStep(p)

Spec == Init /\ [][Next]_vars

\* Every thread that can run goes on running; callbacks return.
FairSpec ==
    /\ Spec
    /\ WF_vars(MainStep) /\ WF_vars(WriterStep)
    /\ \A p \in Plugin : WF_vars(WorkerStep(p)) /\ WF_vars(CloserStep(p))

-----------------------------------------------------------------------------
Snapshots == [current : EventId \cup {NoEvent}, listed : Seq(EventId), count : Nat]
Tables == [Plugin -> Seq(EventId \X {"processing", "pending"})]

WorkerStates ==
    [pc : {"get", "take", "storeStart", "process", "storeEnd", "done"},
     event : EventId \cup {NoEvent}, shot : Snapshots]
Enqueuing == {"append", "appended", "put", "report", "snapped", "store", "stored", "next"}
Stopping == {"closing", "joinWriter"}
MainStates ==
    [pc : Enqueuing \cup {"idle"} \cup Stopping, at : Plugin,
     event : EventId \cup {NoEvent}, shot : Snapshots,
     cut : Enqueuing \cup {"idle", "none"}]
CloserStates == [pc : {"off", "sentinel", "join", "store", "done"}, shot : {Empty}]
WriterStates ==
    [pc : {"open", "loop", "last", "insert", "lastInsert", "ended"} \cup Deleting,
     rows : Tables, tries : {0, 1}, replaced : BOOLEAN]

\* Type invariant: both records of the queues, the threads, the map, the table.
TypeOK ==
    /\ queue \in [Plugin -> Seq(EventId \cup {StopSentinel})]
    /\ pending \in [Plugin -> Seq(EventId)]
    /\ current \in [Plugin -> EventId \cup {NoEvent}]
    /\ worker \in [Plugin -> WorkerStates]
    /\ main \in MainStates
    /\ closer \in [Plugin -> CloserStates]
    /\ dispatched \in 0 .. MaxDispatched
    /\ stored \in [Plugin -> Snapshots]
    /\ dirty \in BOOLEAN /\ stop \in BOOLEAN
    /\ writer \in WriterStates
    /\ table \in Tables
    /\ bounds \in [faults : 0 .. MaxFaults, restarts : 0 .. MaxRestarts]

\* The events in a queue.
Waiting(s) == IF s # <<>> /\ Last(s) = StopSentinel THEN Front(s) ELSE s

\* The event that a worker has taken out of its queue and not begun, and the one
\* that the main thread has listed and not put.
TakenOut(p) == IF worker[p].pc = "take" THEN <<worker[p].event>> ELSE <<>>
BeingPut(p) ==
    IF main.at = p /\ (At("appended") \/ At("put")) THEN <<main.event>> ELSE <<>>

\* The two records of a plugin's queue never disagree: the entries that wait are
\* the event its worker has taken out and not begun, those in the queue, and one
\* that the main thread is about to put (shotgunEventDaemon.py:1610, 1676).
PendingMirrorsQueue ==
    \A p \in Plugin : closer[p].pc \notin {"store", "done"} =>
        pending[p] = TakenOut(p) \o Waiting(queue[p]) \o BeingPut(p)

\* However late the main thread stores a snapshot, the map lists the event a
\* plugin is working on, or says that not every event is listed: an event that
\* takes long is not invisible (shotgunEventDaemon.py:1705).
WorkIsListed ==
    \A p \in Plugin : worker[p].pc = "process" =>
        \/ stored[p].current = worker[p].event
        \/ \E i \in DOMAIN stored[p].listed : stored[p].listed[i] = worker[p].event
        \/ stored[p].count > Len(stored[p].listed)

\* When the flag is clear and the writer at rest, the table is what the map says,
\* whatever was stored while it wrote and whatever failed.  The rows of an earlier
\* process, if clearing them failed, stay until the first report (db_logger.py:599).
CleanTableIsMap ==
    writer.pc = "loop" /\ ~dirty /\ writer.replaced => table = Rows(stored)

\* A stop that ends without a fault leaves no row, so that a rebuild of the event
\* id file does not go back to an event of a finished run (shotgunEventDaemon.py:877).
CleanStopEmptiesTable ==
    writer.pc = "ended" /\ stop /\ bounds.faults = 0 => table = NoRows

\* The table catches up with the map again and again, if the map does not list an
\* event twice for ever and the writer has not ended (db_logger.py:631).
TableCatchesUp ==
    \/ <>[](writer.pc = "ended")
    \/ []<>~KeysUnique(Rows(stored))
    \/ []<>(~dirty /\ (writer.replaced => table = Rows(stored)))

-----------------------------------------------------------------------------
(* What the safety properties rest on *)

\* The threads: the main thread has an event as long as it enqueues one, a handler
\* on top of it knows where to return to, the sentinel is the last entry of a queue
\* until the plugin is shut down, and nothing is shut down before its worker ends.
ThreadInv ==
    /\ main.pc \in Enqueuing \/ main.cut \in Enqueuing => main.event \in EventId
    /\ main.pc \in Stopping <=> main.cut # "none"
    /\ main.pc \in Stopping => (stop <=> main.pc = "joinWriter")
    /\ stop => \A p \in Plugin : closer[p].pc = "done"
    /\ main.pc \notin Stopping /\ ~stop => \A p \in Plugin : closer[p].pc = "off"
    /\ \A p \in Plugin :
        /\ worker[p].pc \in {"take", "storeStart", "process"} => worker[p].event \in EventId
        /\ closer[p].pc \in {"off", "sentinel"} =>
               worker[p].pc # "done" /\ queue[p] \in Seq(EventId)
        /\ closer[p].pc = "join" =>
               IF worker[p].pc = "done" THEN queue[p] = <<>>
               ELSE /\ queue[p] # <<>> /\ Last(queue[p]) = StopSentinel
                    /\ Front(queue[p]) \in Seq(EventId)
        /\ closer[p].pc \in {"store", "done"} => worker[p].pc = "done"

\* A snapshot shows an event, or says that it does not show all.
Covers(shot, e) ==
    \/ shot.current = e
    \/ \E i \in DOMAIN shot.listed : shot.listed[i] = e
    \/ shot.count > Len(shot.listed)

\* What the main thread will store covers every event that its plugin's worker may
\* have begun by then; what the worker will store covers the one it is beginning.
ListedInv ==
    /\ At("snapped") \/ At("store") =>
         /\ \A i \in DOMAIN pending[main.at] : Covers(main.shot, pending[main.at][i])
         /\ current[main.at] # NoEvent => Covers(main.shot, current[main.at])
    /\ \A p \in Plugin :
         /\ worker[p].pc \in {"storeStart", "process"} => current[p] = worker[p].event
         /\ worker[p].pc = "storeStart" => Covers(worker[p].shot, worker[p].event)

\* While the flag is clear, the rows on their way are the map's.
TableInv ==
    /\ writer.pc \in {"open", "clear"} => ~writer.replaced
    /\ writer.pc \in {"open", "clear"} /\ ~dirty => stored = [p \in Plugin |-> Empty]
    /\ writer.pc \in {"delete", "insert"} /\ ~dirty => writer.rows = Rows(stored)

\* A stop: what is shut down shows nothing, and without a fault the writer's last
\* rows are these.
StopInv ==
    /\ main.pc \in Stopping =>
         \A p \in Plugin : closer[p].pc = "done" => stored[p] = Empty
    /\ bounds.faults = 0 =>
         /\ writer.pc \in {"last", "lastDelete", "lastInsert", "ended"} => stop
         /\ stop => main.pc = "joinWriter" \/ writer.pc = "ended"
         /\ writer.pc \in {"lastDelete", "lastInsert"} => writer.rows = NoRows

\* The inductive invariant of the queue table and the threads that write it
\* (shotgunEventDaemon.py:1602, db_logger.py:597).
QueueInv ==
    /\ TypeOK /\ ThreadInv /\ PendingMirrorsQueue /\ ListedInv /\ WorkIsListed
    /\ TableInv /\ CleanTableIsMap /\ StopInv /\ CleanStopEmptiesTable

=============================================================================
