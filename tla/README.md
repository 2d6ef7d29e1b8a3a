# BXL_shotgunEvents: a TLA+ model of the event daemon

The program is a daemon that follows Shotgun's (Flow Production Tracking's) event
log and runs user-written plugins on each event. This directory models the
engine with its plugins, worker threads and checkpoint file, its database logger
and live queue table, the supervisor and the repair tool that keep it running, and
the status plugins among its examples. All of it is model-checked with TLC; the
safety properties of the engine, its event id file, the logger, the queue table, the
supervisors, the repair tool and the status plugins are also theorems, checked with
TLAPS. Paths below are relative to the repository root; line numbers without a file are
those of `src/shotgunEventDaemon.py`.

## 1. The system

### Components, their state and their operations

| Component | State | Operations | Modelled in |
|---|---|---|---|
| `Engine` (304-1162) | `_continue`, `_eventIdData` (what was last read or collected) | `start`, `_mainLoop`, `_getNewEvents`, `_saveEventIdData`, `_loadEventIdData`, `_checkPluginBacklogs`, `stop`, `_forceShutdownIfStuck` | `EventDaemon` |
| `PluginCollection` (1163-1384) | `_plugins`, `_stateData` | `load`, `process`, `getState`, `setState` with `_normalizePluginState`, `getNextUnprocessedEventId`, `getMatchedEventTypes`, `shutdown` | `EventDaemon`, one collection |
| `Plugin` (1386-2046) and its worker thread | `_active`, `_callbacks`, `_lastEventId`, `_backlog`, `_lastDispatchedEventId`, `_queue`, `_lock`, `_mtime` | `load`, `enqueue`, `process`, `_updateLastEventId`, `deactivate`, `shutdown`, `_workerLoop` | `EventDaemon` |
| `Callback` (2083-2271) | `_active`, matching event types and attributes | `canProcess`, `process` | `EventDaemon`, matching abstracted to `Interest` |
| Event id file | cursor and backlog of every plugin | replaced by `os.replace`; read at every pass; rebuilt by `run_fix` | `EventDaemon`, step by step in `EventIdFile` |
| Shotgun's event log (external) | the ids that are visible | queries | `EventDaemon` |
| Database logger (`src/db_logger.py`) | bounded queue, `_mem_rows`, three tables | `log_plugin_run`, writer thread, `flush_to_disk`, `shutdown` | `DbLogger` |
| Live queue table (`src/db_logger.py`, `Plugin._report_queue`) | snapshot of each plugin's queue, dirty flag | `update_plugin_queue`, `_flush_queue_snapshot` | `QueueTable` |
| `Daemon`, `LinuxDaemon` (`src/daemonizer.py`) | pid file, signal handlers | `start`, `stop`, SIGTERM handler | `Supervisor`; the handler in `EventIdFile` and `QueueTable` |
| Supervisor (`src/supervisor.py`) | main and watchdog thread, life-cycle lock, reload flag, pid file | start, stop, reload, launch, purge, watch | `Supervisor` |
| Diagnosis (`src/diagnose_daemon.py`) | a snapshot of the processes | checks; `run_fix` stops processes, writes pid files, rebuilds the event id file | `Repair`, `EventIdFile` |
| Status plugins (`src/examplePlugins/*status*.py`) | none; statuses in Shotgun | four callbacks, each a read and a write | `StatusSync` |
| Config, logging, mail, import wrapper, other example plugins, web dashboard | none that the control depends on | | not modelled |

### How they interact

The main thread runs `_mainLoop`. At each pass it asks every plugin for the first id
it still needs, fetches one batch from Shotgun from the least of them on, puts every
event into the queue of every active plugin, collects each plugin's cursor, writes
the event id file, checks the alerts, reloads changed plugin files and reads the event
id file again. Each plugin has a worker thread that takes events from its queue and
runs the callbacks with the plugin's lock held. The main thread touches the same
fields, some under that lock (`getState`, `setState`, `load`, `getPendingCount`,
`getMatchedEventTypes`) and some without (`getNextUnprocessedEventId`, `enqueue`,
`isActive`). A signal handler may call `stop()` inside the main thread at any point.
Workers hand finished runs to the database logger through its bounded queue and
never wait for it; both they and the main thread store snapshots of the queues in
the logger's map.

A supervisor starts the daemon through its `start` command, watches its pid file and
the event id file, and stops it through a helper process (`stop`) that sends SIGTERM
until the pid is gone. Further supervisors, users and `run_fix` act on the same
processes and files at the same time; only the two threads of one supervisor share a
lock. The status plugins meet in Shotgun: what one writes is an event for the others.

### What is hard

* Events become visible out of order. A plugin's cursor passes an id that is not
  there yet, remembers it in a backlog with a time limit, and pulls the fetch of *all*
  plugins back to it.
* Two cursors for each plugin: what was dispatched and what was done. The file is read
  back at every pass while the worker is ahead of it.
* Main thread and worker interleave on the backlog, the active flag and the callbacks.
* The process may stop or die between dispatch, callbacks, collection and write.
* Plugin files change, disappear and come back while events wait for them.
* SIGTERM runs `stop()` on top of whatever the main thread is doing: in the middle of
  a save, or holding a lock.
* Processes are recognised by pid files and `ps`, which are read first and acted on
  later; a stop that takes too long is followed by SIGKILL.
* The logger's SQL statements fail before, while or after they take effect, and are
  repeated; its MEMORY table outlives the process but not the server.

### What makes each component correct

* Engine and plugins: no event is lost without a reason the code knows of; none is
  run again without a crash, a failed write, a removed file or a late event; what was
  dispatched is on its way; a worker that ends has nothing left; nothing changes
  under running callbacks; every visible event is handled in the end.
* Database logger: every accepted run is counted or reported; none is counted twice
  unless a failure concealed an effect or the event table was full, and then no more than
  twice; everything is counted in the end.
* Event id file: what a stop saved stands, whatever save it interrupted; no signal leaves
  a file that does not load, but for one moment of a SIGINT (section 6); no cursor in it
  passes an event that was not handled.
* Live queue table: it shows what was reported last, work under way is listed, and a
  clean stop leaves it empty, since a repair resumes from it.
* Supervisor and repair: one supervisor, one daemon, no lost reload, nothing left after
  a stop, save for daemons that slip through a purge (section 6); a healthy daemon in the
  end.
* Status plugins: when they have come to rest, the statuses agree.

`PROJECT.json` lists the hazards, each at its line, with the properties that cover it.

## 2. Modules

| Module | Content |
|---|---|
| `EventDaemon.tla` | engine, collection, plugins, workers, file, Shotgun, process |
| `Delivery.tla` | abstract specification: at-least-once delivery over crashes |
| `EventDaemonDelivery.tla` | the refinement mapping from `EventDaemon` to `Delivery` |
| `MCEventDaemon.tla` | values of the constant `Interest` for TLC |
| `EventDaemonClaims.tla`, `MCEventDaemonClaims.tla` | what a comment says and the code does not do |
| `EventDaemonInvariants.tla` | what `EventDaemon` maintains beyond `IInv`, up to `DaemonInv` |
| `EventDaemonProofs.tla` | theorems: types, no silent loss, nothing changes under callbacks, `EventDaemon` implements `Delivery` |
| `EventDaemonRunProofs.tla` | theorems: queues are drained, what was dispatched is in flight, nothing runs twice without a reason |
| `EventIdFile.tla` | save, load, signals and rebuild of the event id file, step by step |
| `EventIdFileProofs.tla` | theorems about `EventIdFile` |
| `EventIdFileClaims.tla` | a claim about its start that does not hold |
| `DbLogger.tla`, `MCDbLogger.tla` | the database logger; its constants |
| `DbLoggerProofs.tla` | theorems about `DbLogger` |
| `QueueTable.tla`, `MCQueueTable.tla` | the live queue table, from `Plugin._queue` to the rows |
| `QueueTableProofs.tla` | theorems about `QueueTable` |
| `QueueTableClaims.tla` | a claim about `Plugin.shutdown` that does not hold |
| `Supervisor.tla`, `MCSupervisor.tla` | supervisors, daemons, helpers, pid files, users |
| `SupervisorProofs.tla` | theorems about `Supervisor` |
| `Repair.tla`, `MCRepair.tla` | `run_fix` on top of `Supervisor` |
| `RepairProofs.tla` | theorems about `Repair` |
| `StatusSync.tla`, `MCStatusSync.tla` | the four status plugins and people |
| `StatusSyncProofs.tla` | theorems about `StatusSync` |

### EventDaemon

`pc` is the main thread's step and `at` the plugin its loop is at; `worker[p]` is the
state of a worker thread: `idle` (waiting for its queue), `first` and `retry` (running
callbacks with the lock, for a new event or one from the backlog), `raised` (an
unexpected exception, lock released) and `exited`. One pass of the main thread is

    loop -> scan/entries -> types/lockTypes -> fetch -> dispatch -> save -> write
         -> check -> load -> construct -> reload -> retire/join -> install
         -> readState -> apply | askId -> seed -> firstSave -> firstWrite -> loop

A step ends where another thread can see a difference: before a lock is taken,
between two lock-free reads, between two queue operations. So
`getNextUnprocessedEventId` is `ScanPlugin` (lists the keys) and one step per key
(`EntryGone`, `EntryExpired`, `EntryPending`), because the worker can delete a key in
between; and `_saveEventIdData` is one `CollectState` per plugin and one
`WriteFile`. A lock the main thread takes for an instant is the guard `Free(p)`.

Data abstracted away: an event is its id; its type is `Interest[p]`, the ids whose type
plugin `p` registered; a callback only succeeds or fails with `stopOnError`
(the errors that do not stop a plugin are successes for its state); backlog
times are a nondeterministic `EntryExpired`; logs and mails are left out.

`BeginStop` and `FinishStop` are `Engine.stop` in any step of the main thread:
`interrupted` says whether it returns there (SIGTERM handler) or the process exits
after it (SIGINT, SIGUSR1). `CrashExit` is an exception out of `_mainLoop`, `Kill` is
any end without a word. History variables do not influence the steps: `fate[p][e]`
says why a cursor may have passed an id (`done`, `before` the start, `expired`,
`largeGap`, `fastForward`, `reset` when there was no cursor); `clean[p]` is false from
the moment something excuses a second run; `rerun[p]` records one without excuse;
`reloaded[p]` says that the file of a plugin was loaded again while the plugin kept its
thread, which makes a failed plugin active without the events it was sent.

### DbLogger

`writer` is the step of the writer thread, one per SQL statement, and `tries` the
attempt of `_run_with_retry`. A failing statement takes effect on any subset of its rows
(aggregation and truncation: wholly or not). `reason` says what a flush is for,
which decides where the writer goes after it (`FlushDone`, `FlushRaised`).
`recovering` is the second insert of `_recover_table_full`. Two history variables excuse a
second count: `doubtful` holds the runs that a failing statement may have written, or left
behind in the MEMORY table after they were aggregated; `rewritten` the batch whose event
rows met a full table, of which the recovery is certain to insert the statistics once
more. Runs in `rewritten` alone may be counted twice, never three times. The connection is no variable: an attempt without one
is an attempt that fails. `flush_in_daemon` is on, the default; the thread's writes
of the live queue table are left out, they share no data with the runs.

### Delivery

The state of a plugin is four sets of ids: `handled`, `waived` (given up), `reached` (what
it will not ask for again, lost in a crash) and `saved`. It promises that nothing is
delivered that the plugin has reached, that a checkpoint claims nothing that is not
settled, that a crash gives nothing up, and that a plugin resumes from its checkpoint
or, when that is too old or missing, says what it gives up. `EventDaemonDelivery` maps a
cursor `(last, backlog)` to the ids up to `last` that are not in the backlog, and the
history `fate` to `handled` and `waived`. The main thread's batch, the queues, the locks,
the dispatch cursor and the collected state are invisible: their steps stutter.

### EventIdFile

The other half of the engine's story, at the granularity of bytecodes: `main` is what the
main thread is doing, `stop` what `Engine.stop` is doing on top of it. A save reads the
cursors one by one into `_stateData` (`ReadCursor`, `StoreCursor`), opens and fills the
temporary file (`WriteTmp`), flushes it (`CloseTmp`) and renames it (`RenameTmp`). A stop
from the SIGTERM handler saves through the same name. `main.inode` follows the file that
the interrupted save has open: `tmp`, `shared` with the handler's, then `file` itself once
the handler has renamed it, and `orphan` once it has been renamed over. In state `file` a
late flush overwrites the real file with older bytes (`Overlay`); that `stop()` saves
twice (916 and 935) is what turns `file` into `orphan` before the main thread goes on,
and the mutant that saves once breaks `StopPersists`. A SIGINT in that state ends the
process and flushes those bytes (`Abort` sets `excuse.spoilt`): the one way in which a
signal leaves a file that does not load. `Rebuild` is `run_fix`'s
reconstruction from the queue table or the logs. One event waits for a plugin at a
time and there is no backlog: both are in `EventDaemon`.

### QueueTable

Each plugin keeps `_pending_events` and `_current_event` beside its queue. A report is a
snapshot (under `_queue_state_lock`) and a store (under `_queue_snapshot_lock`) with a
gap between them, so the older of two may be stored last. The writer copies the map and
clears the flag, deletes all rows, inserts, and sets the flag again if that fails. Adjacent
locked sections of the worker, which nothing can separate, are one step; the main thread
has a step inside each lock because its own signal handler can stop it there. The rows
are inserted plugin by plugin, in any order of the plugins (the order of the map
`_queue_by_plugin` is that of the first reports); a failing `executemany` leaves all rows
of some of them and any prefix of one.

### Supervisor and Repair

`op[s]` is the program counter of whichever thread of supervisor `s` holds the life-cycle
lock, and its goal; `daemon[p]` the process with pid `p`, from `sudo` (`sudo python ...` has
been launched and `ps` lines of it are filtered, 257) over `boot` (its `start` runs, not
forked) to `dead`; `helper[p]` a `stop` command. A purge is one step for each thing it
looks at or does: it lists the processes, adds the one in the pid file, sends SIGTERM,
waits, sends SIGKILL, removes the pid file (`PurgeList`, `PurgeRead`, `PurgeTerm`,
`PurgeKill`, `PurgeEnd`). A daemon that is still `sudo` at the listing, or whose parent
forks it between listing and SIGTERM, has `slipped` (history) through the purge.
`saved` says that the event id file exists: without it there is no check for a hung
daemon (896). Time is abstract: a wait with a deadline sees what it waits for or gives
up. Simplifications: the signals of one loop over pids are sent at once, and a `ps` that
works is an instant; the purge of other supervisors, and a check of the watchdog (listing,
pid file, SIGTERM to the duplicates or to the hung daemon), is one step; `_delpid` is one
step; SIGTERM to a daemon that is already draining has no effect; a tracked pid that is
dead is no tracked pid; a pid is used again only when nothing names it; a `Popen` that
cannot be spawned is left out; `sudo` and the foreground daemon it runs are one process;
the crash-loop backoff is an arbitrary delay. `Repair` adds
`run_fix`: a snapshot, then for each item a question and, whenever it is answered, the
repair, on what the processes are by then. Killing the extra supervisors is one answer.

### StatusSync

TV and VT copy a status between task and latest version through the two mapping fields
of `Status`; TE sets an asset's status from its tasks and ET holds the tasks of an asset on
hold. Each query and each write is a step, and the plugins' queues are independent; the
events of ET's one batch follow in any order. At the start every task agrees with its
latest version, and what is approved is dated. An entity status, a mapping value or a person's edit is one of a few values; `MaxInbox`
bounds what waits for a plugin.

## 3. Runs

| Run | Bounds | Shows |
|---|---|---|
| `core` | 1 plugin, 4 ids, skew 3, batches of 2, a queue of 1, 1 restart, 1 edit | `DaemonInv` (types included), no silent loss, no needless rerun, drained workers, no change under callbacks, `Delivery` implemented |
| `two_plugins` | 2 plugins of different types with 2 callbacks each, 3 ids, queues of 1, 1 restart | reruns and dispatch when the fetch and the file are shared |
| `live` | 1 plugin, 3 ids, batches of 1 | every visible event handled, alerts withdrawn |
| `event_id_file` | 2 plugins, 2 ids, 2 signals, 1 fault, 1 damaged file | `FileInv` (types included), what a stop saved stands, the file loads with the exceptions of section 6, nothing is skipped, stops end |
| `db_logger` | 2 runs, queue of 1, batches of 2, 3 faults, 1 restart | `IInv` (types included), no unreported loss, no unexplained double count, every accepted run counted |
| `queue_table` | 1 plugin, 2 ids, 1 listed pending, 2 hand-offs, 1 fault, 1 restart | `QueueInv` (types included), both records of a queue agree, work is listed, the table is the map, empty after a stop, catches up |
| `supervisor` | 2 supervisors, 4 pids, 2 incidents of 7 kinds, both launch modes | `SupInv` (types included), one supervisor; one daemon, clean stop and no lost reload, save for daemons that slipped through a purge; recovery, stops end |
| `repair` | 2 supervisors, 4 pids, 1 incident, 1 repair at any moment | `RepairInv` (`SupInv` and types included): what the supervisors rely on stands, what is kept is spared; a repair leaves a daemon, the watchdog still recovers |
| `status_sync` | 2 tasks, 2 versions of one, 2 edits, 1 deletion, inboxes of 2 | `SyncInv` (types included), version and task, asset and tasks agree at rest; approvals are dated |
| three `violation` runs | smallest that show it | section 6 |

Why these bounds are enough. With `MaxGap = 1`, three ids contain a gap of one
(remembered) and of two (passed over); four ids add a gap behind a gap. A skew of two
lets an event arrive after both its successors. One restart gives every
point of the pass as a place of death and a full pass of the next process; one edit
gives every interleaving of one change with the pass. A queue of one still has a
worker busy with one event while another waits. Two plugins are the least number at
which one's backlog moves the other's fetch and `_normalizePluginState` compares
siblings (their types differ: `LastEventOnly`). Two signals are a stop and one on top of it;
two ids an event behind the cursor and one above it; the event id file was also explored
with three ids (2.9 million states) without a difference. Two incidents are the least
that meet (a crash during a reload, a stop during a relaunch); four pids a daemon, its
replacement, a duplicate and one started by hand. In `queue_table` two hand-offs over a
list of one give an unlisted event, and the same event twice. Two edits are one on each
side of a pair of plugins, or two behind one read. Three faults are a statement failing
twice and another fault in the recovery from it; batches of two over a queue of one make partial inserts and drops.

Every bound is a constant: `MaxSkew`, `MaxQueue` (`Enqueue` waits at it, the
code's queue has no limit), `MaxRestarts`, `MaxEdits`; `MaxFaults` and `MaxRestarts` of the
logger and the queue table, `MaxDispatched`; `MaxSignals`, `MaxFaults`, `MaxDamage` of the
file; `MaxEvents` and its parts in `Supervisor`; `MaxEdits`, `MaxDeletes`, `MaxInbox` in
`StatusSync`. `MaxBatch`, `MaxGap`, `MaxStaleLag` and the thresholds are the code's own
parameters, made small. Deadlock is checked in the runs of `EventDaemon`. It is off
for the others, whose processes really stop after a shutdown, or whose people stop
editing.

### Fairness

`FairSpec` of `EventDaemon` assumes that the main thread and each worker keep running
(weak fairness of `MainThread`, `WorkerThread(p)`, so callbacks return), that the
supervisor starts a process that has ended (`Start`), and that `BACKLOG_TIMEOUT` is long
compared with a pass: an entry whose event is visible is fetched before it expires
(`NextInTime`), one whose event never comes expires in the end (strong fairness, since
the main thread is at such an entry only now and then). The code's scheduling
gives the first by its threads and blocking queues; the rest are its five-minute
timeout and the supervisor's loop. Nothing is assumed of users, signals or events.

`FairSpec` of `DbLogger` assumes that the writer runs and time passes, and, by strong
fairness of the loop's way to the queue, that the 60 s flush interval is longer than a
pass. The number of database failures is bounded, so the database recovers.

The other modules assume weak fairness of every thread or process that can run, that
callbacks return, that a signal and a deadline arrive, and nothing of users, crashes and
restarts of a supervisor. `EventIdFile` adds that an outage ends (a stop that meets
`_getLastEventIdFromDatabase` waits for that: it does not look at `_continue`) and that
the daemon is started again. `Recovers` says what holds from some moment on, since
incidents are bounded; healthy is there a daemon that runs, or that hangs with no event id
file, which the code does not look at. `TableCatchesUp` excepts a map that lists one event twice for
ever, whose rows the unique key refuses at each attempt (`db_logger.py` 640).

## 4. What is proved

TLAPS checks these for every value of the constants: any number of plugins, ids,
supervisors and pids, any bound on queues, faults and restarts. The only assumptions are
the named ones on the constants, each beside its constants: `ConstantsAssumption`
(`EventDaemon` and `DbLogger`), `EventIdFileAssumption`, `QueueTableAssumption`,
`SupervisorAssumption`, `RepairAssumption` and `StatusSyncAssumption`.

| Module | Theorem | Statement (`Spec => [] ...` where nothing else is said) |
|---|---|---|
| `EventDaemonProofs` | `TypeCorrect`, `InvariantHolds` | `TypeOK`; `IInv` |
| | `NothingLostSilently` | `NoSilentLoss` |
| | `RunIsProtected` | `Spec => LockProtectsRun`, an action property |
| | `DeliveryImplemented` | `Spec => ImplementsDelivery`, the refinement |
| `EventDaemonRunProofs` | `WorkersDrainTheirQueues` | `ExitedWorkerIsDrained` |
| | `DispatchedStaysInFlight` | `DispatchedIsInFlight` |
| | `NothingRunsTwice` | `NoNeedlessRerun` |
| | `DaemonInvHolds` | `DaemonInv`, all of the above's invariants |
| `EventIdFileProofs` | `FileInvHolds` | `FileInv` |
| | `NoEventIsSkipped`, `FileStaysLoadable` | `NothingSkipped`; `FileLoads` |
| | `StopIsPersistent` | `StopPersists` |
| `DbLoggerProofs` | `LoggerTypeCorrect`, `LoggerInvariant` | `TypeOK`; `IInv` |
| | `NoRunLostSilently`, `DoublesAreExplained` | `NoUnreportedLoss`; `NoUnexplainedDouble` |
| `QueueTableProofs` | `QueueInvHolds` | `QueueInv` |
| | `RecordsAgree`, `WorkStaysListed` | `PendingMirrorsQueue`; `WorkIsListed` |
| | `CleanFlagMeansWritten` | `CleanTableIsMap` |
| | `CleanStopLeavesNoRow` | `CleanStopEmptiesTable` |
| `SupervisorProofs` | `SupInvHolds` | `SupInv` |
| | `OneSupervisorIsActive`, `OneDaemonIsLaunched` | `OneActiveSupervisor`; `OneLaunchedDaemon` |
| | `StopIsClean`, `NoReloadIsLost` | `CleanStop`; `NoLostReload` |
| `RepairProofs` | `RepairInvHolds` | `FixSpec => []RepairInv` |
| | `RepairKeepsPromises` | `FixSpec => []` of the four properties of `Supervisor` above |
| `StatusSyncProofs` | `SyncInvHolds` | `SyncInv` |
| | `VersionsStayInStep`, `ApprovalsAreDated` | `VersionInStep`; `ApprovalDated` |
| | `FinishedAssetIsIdle` | `NoFinWhileInProgress` |
| | `HeldAssetIsLeftAlone` | `NoWorkOnHeldAsset` |

Each proof has the same layers: *types* and *frame lemmas* (which actions change
which part of the state), then the conjuncts of an inductive invariant, one step per
action that can disturb them, and a last step by temporal logic. Each inductive invariant
(`DaemonInv`, `FileInv`, `IInv`, `QueueInv`, `SupInv`, `RepairInv`, `SyncInv`) is checked by a run as well.

**No silent loss.** `NoSilentLoss` says that every id a cursor
has passed, in memory or in the file, is done, in the backlog or given up with a fate. It is
not inductive. The file is written from `stateData`, collected plugin by
plugin earlier in the pass, and read back into it; between these moments the
worker moves on and the main thread expires entries. `IInv` adds `StateAccounted`:
the collected cursor of a plugin is accounted for whenever it may still be written or
applied (`CollectedStateCounts`: after its collection, until the next, or while it
waits to be applied). It holds because an id that has a fate keeps it and an expiring
entry gets one at the moment it leaves memory. But the collected cursor of a plugin may
have an id in its backlog that memory has lost, which is why fates, not backlogs,
carry the argument. Two more conjuncts say that a process that is down holds no
plugin and that `stop()` returns to a step that exists. `RunIsProtected` needs that only
actions guarded by `Free(p)`, or by the worker's own state, change a plugin's callbacks
and cursor.

**The refinement.** A step of the engine maps to one of `Delivery` only from a state
where the cursor means what it should, so `DeliveryInv` adds: a plugin that is not loaded
has no thread, queue or cursor (`UnloadedIsBlank`); a cursor and a queue come
from a dispatch (`DispatchComesFirst`, `DispatchedIsPublished`); a worker in `first` runs
an event its cursor has not passed (`RunIsFresh`); and the state a plugin is about to be
given is the one in the file (`RestoresFile`), which is what a resumption of `Delivery` is.
Then each action of `EventDaemon` is shown to be one step of `Delivery` or to leave it
unchanged.

**Drained queues and events in flight.** `SentinelInv` says that until a stop is over
nothing but sentinels waits behind a sentinel, and that before one only plugins that are
being retired have one: this is what rules out an `enqueue` behind the sentinel. That a
dispatched event stays in flight needs one more fact, `RetryIsAccounted`: while a worker
runs an entry of its backlog, whatever precedes the entry is accounted for, since that
entry leaves the backlog at the end of the run and moves the cursor.

**No needless rerun.** An event may be run again if what it left in the cursor got lost.
`CheckpointInv` follows where it is: for a plugin without excuse, everything done is
passed for good (`Covers`) by the cursor of a plugin that runs, by the file if it is
waiting to resume (`Restoring`) or the engine has saved and stops (`Stopped`), and by the
collected state from the moment it is the one that will be applied. `StoppedIsIdle` keeps
a plugin from running an event after the last save. A stop during the *first* load is the
exception: it saves cursors without an id, the file then has names but no ids, and no
event is ever fetched from it again. That state is `Dead`, the disjunct in which the
claim is empty because nothing runs; the violation run `no_start` reaches it.

**The event id file.** `NothingSkipped` rests on `SkipInv`: every place a plugin may
resume from (cursor, collected state, both buffers, the temporary file, the file)
passes only what was handled or waived. A rebuild starts all plugins
from one id, so it needs that ids are kept of all plugins or of none: `StartInv` says so
of each place, and `RereadInv` that a running daemon does not read a file without ids once
it has some. `LoadInv` follows the inode that an interrupted save still has open under
the handler's saves: when it is flushed it is the temporary file, or one that has lost its
name, unless the stop has saved once and not yet twice. `PersistInv` says that
from the first save of a stop on, what it wrote, what the main thread may write once more
and all cursors are the same. Both hold as long as nothing was damaged and no disk failed.
`LoadInv` also excepts a stop that was cut short while the interrupted save had the file
itself open (`spoilt`), `PersistInv` every stop that was cut short (`aborted`); so do
the properties.

**The logger.** `NoUnreportedLoss` is not inductive: `InsertEvents`
forgets its batch and `Truncate` empties the MEMORY table, and neither looks at
where the rows are. `BatchReached` says that every open run of the batch has been inserted
when `insertEvents` begins, `MemoryAggregated` that every row of the MEMORY table has been
aggregated when `truncate` begins; both survive failures because a failure goes to
another step or repeats its own, and both are what a server restart between two
statements might break. `NoUnexplainedDouble` needs that a run is in one place only: once in
the queue or the batch (`QueuedOnce`), in no table before it was written
(`UntouchedSoFar`), and at most once in the MEMORY table and the statistics together
except between aggregation and truncation (`CountedInOnePlace`). The recovery from a full
event table is the exception: the rows it inserts again were counted before. So
`CountedInOnePlace` allows a run in `rewritten` two and counts the insert to come as owed
(`Owed`), and `RewrittenOnce` says that such a batch is on its way to that insert or
at it, so that it is not rewritten again. A flush that is raised between aggregation and
truncation, and a process that ends there, leave rows that are aggregated again; they are
`doubtful` from then on, and the theorem claims nothing for them.

**The queue table.** `PendingMirrorsQueue` is an equation between lists, kept by every
step: the list of pending events is what the worker has taken out and not begun, then the
queue, then what the main thread is about to put. It needs that the sentinel is the last
entry of a queue (`ThreadInv`), or an entry would be taken out for it. `WorkIsListed` is
hard because a snapshot may be stored late: `ListedInv` says that what the main thread
holds still covers every event the worker may have begun since. `TableInv` says that with
the flag clear the rows on their way are the map's, so that a `mark` during the writing is
not lost, and `StopInv` that what is shut down lists nothing, so that the last flush of a
stop leaves no row.

**The supervisors.** `SupInv` has four parts beside the types. `BudgetInv`: a reliable
`ps` was reliable before (`PsReliable`, the hypothesis of all four properties). `LockInv`: a
lock is held by a supervisor that is up, at the steps its main thread has let it, and what a
purge has signalled can no longer fork, because SIGTERM ends a daemon that has not yet.
`PurgeInv`: from a purge's listing on, every daemon at work is among the listed or has
slipped; a listed one that forks before the signal leaves a child that has. From the end
of the purge to the launch there is none but those. That gives `OneLaunchedDaemon`, and
`CleanStop` with the same argument for the purge of a stop. `ReloadInv`: after a reload was
heeded, older code survives only among the listed and the slipped. The proof thus says
that the two windows of section 6 are the only ways to a second daemon, for any number of
supervisors and kills. `OneActiveSupervisor` needs no more than that a purge of the other
supervisors stops all that are up: before it two may be up, which is why the property
speaks of those past it.

**The repair.** `run_fix` acts without the life-cycle lock, on observations that may be
out of date, so the theorems about `Supervisor` do not carry over by themselves. They do
because of what a repair can do at most (`Gentle`): it ends processes, it asks a supervisor
for a reload, and it starts a supervisor, which then does what any does. `TouchKeeps`
shows that this keeps `SupInv` whatever the supervisors were doing: no step of a
supervisor counts on a process to stay, and a killed holder of the lock leaves it. So
nothing has to be known of what the snapshot has become. What a repair
promises of its own is `KeptAreSpared`: the daemon and the supervisor it keeps are never
among those it stops. The steps of the supervisors leave the snapshot alone (`RepairFrame`).

**The status plugins.** Two statuses may disagree at any moment, since each plugin writes what
it has read some time before. `SyncInv` says who is still to act on it: some active plugin has the
event of the later change queued (`Queued`), has it in hand and reads on (`Reads`), or is about
to write what follows from the status as it stands (`Writes`). `Queued` names the status, since
TE goes by what the event says. TV and VT read the status again, so what they are about to
write may be out of date, but then the event of the later change is queued behind it: by a
person, or by the other plugin, which then owes in its turn. TE reads the
tasks first and writes the asset last; the second half of `FinInv` says that until that
write whoever takes up a task has the event of it queued behind, and `HoldInv` says that a task
worked on under a hold is still to be met by TE's write or by ET's batch. When a plugin is at rest it owes nothing
(`QuietOwesNothing`), and the properties are left.

## 5. What is only model-checked

* Liveness under fairness (`EveryEventHandled`, `AlertClears`, `EveryRunCounted`,
  `TableCatchesUp`, `Recovers`, `StopEnds`, `FixLeavesDaemon`): fairness and ENABLED are out
  of the prover's reach.
* No definition is recursive and no induction over data is needed; what a
  recursive definition computes for every input, and RECURSIVE operators, are
  out of the prover's reach too.

## 6. Where code and comments differ

Each of these is a violation run whose counterexample is a behaviour of the code.

| Run | Code | Comment |
|---|---|---|
| `main_crash` | `getNextUnprocessedEventId` (1577) reads a key the worker deleted; `KeyError` ends the main thread | 1735-1737: a plugin's error never takes down anything else |
| `stop_deadlock` | SIGTERM inside `_queue_state_lock` or `_queue_snapshot_lock`: `shutdown` joins a worker that needs the lock | 1620-1621: the worker stops once its queue is drained, and `shutdown` waits for it |
| `no_start` | `stop()` (916) before the first read of the file saves empty cursors over it; they load, and nothing is ever fetched | 887-888: a restart resumes from what each plugin reached; 664-666: no collection without a starting point |

The following were met while reading and modelling; no run repeats them.

* `_updateLastEventId` (2030) moves the cursor back to a late event and later events run
  again (1446-1449, 1492-1497 say they are not processed a second time). The models have
  it; `NoNeedlessRerun` excuses it.
* `_process` (1959) asks each callback, not the plugin, whether it is active (1596-1599).
* `getMatchedEventTypes` (1536) and others wait for the lock of a running callback, so a
  stuck plugin delays every other (835-841 say it does not).
* The writer (`db_logger.py` 491) writes one last batch only (365: "drains the queue").
* `_report_queue` (1705) may store the older of two snapshots last; waiting events shown
  by the table may be out of date until the next report (`db_logger.py` 182-185).
* A SIGTERM between `Plugin.getState` returning and its result being stored (1243) leaves
  the older cursor in the last save; the same holds of a write that fails in the last
  save of a stop. `StopPersists` excepts both; the events are handled again.
* A file that is not a pickle and not a number is passed over (640-655): no plugin gets a
  cursor, and the empty cursors are saved.
* `_find_resume_event_id` (`diagnose_daemon.py` 1228: "exact: nothing after it was
  finished") takes the least id over all plugins, so others run some events again; from
  the logs it takes the highest, so what another plugin had not reached is given up.
  That no daemon runs is checked once, before the prompt: one that is started meanwhile
  has its file replaced under it (1319: cursors are never rewritten).
* A foreground supervisor's watchdog does not look for duplicates (`supervisor.py` 8-16).
* A `start` that outlasts its timeout raises `TimeoutExpired` (`supervisor.py` 472) out of
  the main loop and ends the supervisor; the model has that as its crash.
* A slow `stop` helper (`supervisor.py` 584, "harmless") may read the pid file when its
  successor's pid is in it, and stop that; the watchdog then starts another.
* A purge is there so that what follows "begins from a completely clean state"
  (`supervisor.py` 338-339), yet two daemons can be at work. It lists the processes, reads the
  pid file and signals one after the other (346-362): a daemon that forks in between
  goes on under a pid that is not in the list. And what was launched as `sudo python ...`
  (466) is filtered from the listing (257) until `sudo` has run it. The lock of one
  supervisor keeps the purge out of its own launches, but a supervisor that is killed in
  the middle of one, or a start that outlasts its timeout, leaves such a process to
  the next purge. In start mode the watchdog removes the duplicate at its next check. The
  same windows let a daemon survive the purge of a stop or run old code after a reload.
  `slipped` marks such a daemon, and the properties except only it.
* A daemon that hangs before there is an event id file is never replaced
  (`supervisor.py` 896).
* When the rows of a batch for the event table meet a full table (`db_logger.py` 556-579),
  its statistics have been inserted already and `_recover_table_full` inserts them again:
  such runs are counted twice. Event rows that the failing statement had written are
  repeated as well. The log message says "aggregated stats [...] and continued" (581).
* "An interrupted write only corrupts the (discarded) temp file, never this one"
  (1061-1063) fails at one moment: SIGTERM interrupts the main thread's save before its
  flush, the stop's first save renames the temporary file that both have open, and a SIGINT
  before the second ends the process, which flushes the older buffer into the event id
  file. `FileLoads` excepts it. The same SIGINT leaves a stop without its last save,
  though the log has said that the state was flushed (`StopPersists` excepts it).
* Lag alerts are kept by plugin name across collections (`supervisor.py` 1004).
* Two edits of a task and its version at the same time can set TV and VT against each other
  for ever; a task that is final, taken up and then held in quick order can leave its asset
  final; ET's batch may put a task on hold that was finished in between; a task that is
  deleted between event and query makes TE raise, and the engine deactivates it.

## 7. Not modelled

* The double fork (one step) and the Windows service of `daemonizer.py`.
* The configuration with `flush_in_daemon` off.
* The supervisor's lag watch, mails and reports; the checks of `diagnose_daemon.py` that
  only print. They change no process and no file.
* Several collections, and the search for a moved collection's states in the file
  (`_loadEventIdData`, 616-638).
* The order of attribute and type matching in `Callback.canProcess` (`Interest`).
* Config parsing, logging, mail, the import wrapper, the example plugins that set no
  status (each writes its own fields from the event at hand), the web dashboard (reads
  tables): no state the control depends on.

## 8. Plan

Done: all modules of section 2 and the theorems of section 4, which state every safety
property of the passing runs. What is left is liveness, out of the prover's reach (section 5).
