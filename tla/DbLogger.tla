-------------------------------- MODULE DbLogger --------------------------------
(***************************************************************************)
(* DatabaseLogger of db_logger.py, the way of a plugin run from            *)
(* log_plugin_run to the tables of MariaDB: a bounded queue, one writer    *)
(* thread that inserts batches into the MEMORY table plugin_event_log_mem  *)
(* (and into plugin_event_log the runs that keep their output), and the    *)
(* flush that aggregates the MEMORY table into plugin_run_stats and        *)
(* empties it.                                                             *)
(*                                                                         *)
(* Every SQL statement is a step of its own.  It may fail before, while or *)
(* after it takes effect; _run_with_retry runs it twice.  The connection   *)
(* is not a variable: an attempt without one is an attempt that fails.     *)
(* The live queue table, which the same thread writes between batches,     *)
(* shares no data with the runs and is left out.                           *)
(***************************************************************************)
EXTENDS Naturals, Sequences, FiniteSets

CONSTANTS
    NumRuns,            \* plugin runs, numbered
    EventRuns,          \* those with an event row: they failed or asked for it
    QueueMax,           \* queue_maxsize
    BatchSize,          \* batch_size, at least 1
    FlushRowThreshold,  \* flush_row_threshold
    MaxFaults,          \* bound: failures of the database
    MaxRestarts         \* bound: ends of the process

ASSUME ConstantsAssumption ==
    /\ {NumRuns, QueueMax, BatchSize, FlushRowThreshold, MaxFaults,
        MaxRestarts} \subseteq Nat
    /\ BatchSize > 0
    /\ EventRuns \subseteq 1..NumRuns

Run == 1..NumRuns
Wakeup == 0                  \* DatabaseLogger._wakeup, never a run

VARIABLES
    queue,                   \* _queue
    stop,                    \* _stop
    flushDue,                \* next_flush has passed
    memRows,                 \* _mem_rows
    writer, tries,           \* the writer's step; the attempt at its statement
    batch, recovering, closing, reason,   \* its locals: what it writes, whether
                             \* again after a flush, whether it has left the
                             \* loop, and what the flush is for
    mem, stats, eventLog,    \* rows of each run in the three tables
    faults, restarts,
    fate, doubtful,          \* history: what became of a run; the runs that a
                             \* failure may have written without saying so;
    rewritten                \* those whose rows the recovery writes once more

flags == <<stop, flushDue>>
locals == <<recovering, closing, reason>>
tables == <<mem, stats, eventLog>>
bounds == <<faults, restarts>>
history == <<fate, doubtful, rewritten>>
vars == <<queue, flags, memRows, writer, tries, batch, locals, tables, bounds,
          history>>

NoRows == [r \in Run |-> 0]

Init ==
    /\ queue = <<>> /\ stop = FALSE /\ flushDue = FALSE /\ memRows = 0
    /\ writer = "connect" /\ tries = 0
    /\ batch = {} /\ recovering = FALSE /\ closing = FALSE /\ reason = "timer"
    /\ mem = NoRows /\ stats = NoRows /\ eventLog = NoRows
    /\ faults = 0 /\ restarts = 0
    /\ fate = [r \in Run |-> "unlogged"] /\ doubtful = {} /\ rewritten = {}

-----------------------------------------------------------------------------
(* Shared operators *)

InMemory == {r \in Run : mem[r] > 0}
Queued == {queue[i] : i \in DOMAIN queue} \ {Wakeup}

\* One row more for every run of S.
Insert(table, S) == [r \in Run |-> IF r \in S THEN table[r] + 1 ELSE table[r]]

\* The runs of S that are still open meet the fate f.
Meet(S, f) ==
    fate' = [r \in Run |-> IF r \in S /\ fate[r] = "open" THEN f ELSE fate[r]]

Fault == faults < MaxFaults /\ faults' = faults + 1 /\ UNCHANGED restarts

\* A statement of the writer succeeds or fails at step s.
Succeeds(s) == writer = s /\ tries' = 0 /\ UNCHANGED bounds

\* _run_with_retry: the first failure is followed by another attempt.
Again == tries = 0 /\ tries' = 1 /\ UNCHANGED writer

\* The second failure is raised, that of a full table at once.
Raised(full) == (full \/ tries = 1) /\ tries' = 0

Flush(why) == writer' = "aggregate" /\ reason' = why

\* The writer is done with its batch: the last one is followed by the last
\* flush, and many rows in memory by a flush of their own.
BatchEnds(rows) ==
    IF closing THEN Flush("final")
    ELSE IF rows >= FlushRowThreshold THEN Flush("threshold")
    ELSE writer' = "loop" /\ UNCHANGED reason

-----------------------------------------------------------------------------
(* The plugins' worker threads, the main thread, the clock *)

HasRoom == Len(queue) < QueueMax

\* log_plugin_run never waits: a full queue drops the run.  Engine.stop calls
\* shutdown() when every worker has been joined.
LogPluginRun(r) ==
    /\ fate[r] = "unlogged" /\ ~stop
    /\ queue' = IF HasRoom THEN Append(queue, r) ELSE queue
    /\ fate' = [fate EXCEPT ![r] = IF HasRoom THEN "open" ELSE "dropped"]
    /\ UNCHANGED <<flags, memRows, writer, tries, batch, locals, tables, bounds,
                   doubtful, rewritten>>

\* shutdown(): the flag, and a wakeup if there is room for it.
Shutdown ==
    /\ ~stop /\ stop' = TRUE
    /\ queue' = IF HasRoom THEN Append(queue, Wakeup) ELSE queue
    /\ UNCHANGED <<flushDue, memRows, writer, tries, batch, locals, tables,
                   bounds, history>>

FlushIntervalElapses ==
    /\ ~flushDue /\ flushDue' = TRUE
    /\ UNCHANGED <<queue, stop, memRows, writer, tries, batch, locals, tables,
                   bounds, history>>

-----------------------------------------------------------------------------
(* _writer_loop, _collect_batch *)

\* A writer that cannot connect at its start ends; the queue is never read.
Connect ==
    /\ writer = "connect"
    /\ \/ writer' = "loop" /\ UNCHANGED bounds
       \/ writer' = "ended" /\ Fault
    /\ UNCHANGED <<queue, flags, memRows, tries, batch, locals, tables, history>>

LoopWithoutTimer ==                                             \* mutant
    /\ writer = "loop"
    /\ writer' = "collect" /\ closing' = stop /\ UNCHANGED reason
    /\ UNCHANGED <<queue, flags, memRows, tries, batch, recovering, tables,
                   bounds, history>>
LoopTop ==
    /\ writer = "loop"
    /\ IF ~stop /\ flushDue THEN Flush("timer") /\ UNCHANGED closing
       ELSE writer' = "collect" /\ closing' = stop /\ UNCHANGED reason
    /\ UNCHANGED <<queue, flags, memRows, tries, batch, recovering, tables,
                   bounds, history>>

Get ==
    /\ writer = "collect" /\ queue # <<>> /\ Cardinality(batch) < BatchSize
    /\ queue' = Tail(queue)
    /\ batch' = batch \cup ({Head(queue)} \ {Wakeup})
    /\ UNCHANGED <<flags, memRows, writer, tries, locals, tables, bounds,
                   history>>

\* The batch is full, or the queue is empty (for as long as the timeout).  There
\* is one batch only after the loop.
Collected ==
    /\ writer = "collect" /\ (queue = <<>> \/ Cardinality(batch) >= BatchSize)
    /\ IF batch # {} THEN writer' = "insertStats" /\ UNCHANGED reason
       ELSE IF closing THEN Flush("final")
       ELSE writer' = "loop" /\ UNCHANGED reason
    /\ UNCHANGED <<queue, flags, memRows, tries, batch, recovering, closing,
                   tables, bounds, history>>

-----------------------------------------------------------------------------
(* _write_batch, _recover_table_full *)

InsertStats ==
    /\ Succeeds("insertStats")
    /\ mem' = Insert(mem, batch)
    /\ memRows' = memRows + Cardinality(batch)
    /\ writer' = "insertEvents"
    /\ UNCHANGED <<queue, flags, batch, locals, stats, eventLog, history>>

\* A statement of the batch failed for good.  A full table is emptied by a flush
\* and the whole batch is written again; any other error, and any error of that
\* second time, is reported in the log.
BatchFails(full) ==
    /\ Raised(full)
    /\ IF full /\ ~recovering
       THEN Flush("full") /\ UNCHANGED <<batch, recovering, fate>>
       ELSE /\ Meet(batch, "reported")
            /\ batch' = {} /\ recovering' = FALSE
            /\ IF recovering THEN BatchEnds(memRows) ELSE Flush("failed")

\* The rows of S are in the table all the same.
InsertStatsFails(S, full) ==
    /\ writer = "insertStats" /\ Fault
    /\ mem' = Insert(mem, S)
    /\ doubtful' = doubtful \cup S
    /\ \/ ~full /\ Again /\ UNCHANGED <<batch, recovering, reason, fate>>
       \/ BatchFails(full)
    /\ UNCHANGED <<queue, flags, memRows, closing, stats, eventLog, rewritten>>

InsertEvents ==
    /\ Succeeds("insertEvents")
    /\ eventLog' = Insert(eventLog, batch \cap EventRuns)
    /\ batch' = {} /\ recovering' = FALSE
    /\ BatchEnds(memRows)
    /\ UNCHANGED <<queue, flags, memRows, closing, mem, stats, history>>

\* The statistics of the batch are in their table by now; the recovery from a full
\* table writes them again.
InsertEventsFails(S, full) ==
    /\ writer = "insertEvents" /\ batch \cap EventRuns # {} /\ Fault
    /\ eventLog' = Insert(eventLog, S)
    /\ doubtful' = doubtful \cup S
    /\ rewritten' = rewritten \cup (IF full /\ ~recovering THEN batch ELSE {})
    /\ \/ ~full /\ Again /\ UNCHANGED <<batch, recovering, reason, fate>>
       \/ BatchFails(full)
    /\ UNCHANGED <<queue, flags, memRows, closing, mem, stats>>

-----------------------------------------------------------------------------
(* flush_to_disk *)

\* Where the writer goes after a flush for each reason.
FlushDoneDropsBatch ==                                          \* mutant
    /\ flushDue' = IF reason \in {"timer", "threshold"} THEN FALSE ELSE flushDue
    /\ batch' = {} /\ recovering' = FALSE
    /\ IF reason = "final" THEN writer' = "ended" /\ UNCHANGED reason
       ELSE BatchEnds(0)
FlushDone ==
    /\ flushDue' = IF reason \in {"timer", "threshold"} THEN FALSE ELSE flushDue
    /\ CASE reason = "full" ->
                /\ writer' = "insertStats" /\ recovering' = TRUE
                /\ UNCHANGED <<batch, reason>>
         [] reason = "failed" ->
                BatchEnds(0) /\ UNCHANGED <<batch, recovering>>
         [] reason = "final" ->
                writer' = "ended" /\ UNCHANGED <<batch, recovering, reason>>
         [] OTHER ->
                writer' = "loop" /\ UNCHANGED <<batch, recovering, reason>>

\* After one that raised: the loop goes on, a recovery ends, others ignore it.
FlushRaised ==
    /\ UNCHANGED flushDue
    /\ CASE reason = "full" ->
                /\ Meet(batch, "reported")
                /\ batch' = {} /\ BatchEnds(memRows)
         [] reason = "failed" ->
                BatchEnds(memRows) /\ UNCHANGED <<batch, fate>>
         [] reason = "final" ->
                writer' = "ended" /\ UNCHANGED <<batch, reason, fate>>
         [] OTHER ->
                writer' = "loop" /\ UNCHANGED <<batch, reason, fate>>
    /\ UNCHANGED recovering

Aggregated == [r \in Run |-> stats[r] + mem[r]]

NothingAggregated ==                                            \* mutant
    /\ Succeeds("aggregate")
    /\ writer' = "truncate"
    /\ UNCHANGED <<queue, flags, memRows, batch, locals, tables, history>>
Aggregate ==
    /\ Succeeds("aggregate")
    /\ stats' = Aggregated
    /\ writer' = "truncate"
    /\ UNCHANGED <<queue, flags, memRows, batch, locals, mem, eventLog, history>>

AggregateFails(applied, full) ==
    /\ writer = "aggregate" /\ Fault
    /\ stats' = IF applied THEN Aggregated ELSE stats
    /\ doubtful' = doubtful \cup (IF applied THEN InMemory ELSE {})
    /\ \/ ~full /\ Again /\ UNCHANGED <<flushDue, batch, recovering, reason, fate>>
       \/ Raised(full) /\ FlushRaised
    /\ UNCHANGED <<queue, stop, memRows, closing, mem, eventLog, rewritten>>

KeepsRows ==                                                    \* mutant
    /\ Succeeds("truncate")
    /\ memRows' = 0
    /\ FlushDone
    /\ UNCHANGED <<queue, stop, closing, tables, history>>
Truncate ==
    /\ Succeeds("truncate")
    /\ mem' = NoRows /\ memRows' = 0
    /\ FlushDone
    /\ UNCHANGED <<queue, stop, closing, stats, eventLog, history>>

\* Rows that stay are aggregated again by the next flush.
TruncateFails(applied) ==
    /\ writer = "truncate" /\ Fault
    /\ mem' = IF applied THEN NoRows ELSE mem
    /\ \/ Again /\ UNCHANGED <<flushDue, batch, recovering, reason, history>>
       \/ /\ Raised(FALSE) /\ FlushRaised
          /\ doubtful' = doubtful \cup (IF applied THEN {} ELSE InMemory)
          /\ UNCHANGED rewritten
    /\ UNCHANGED <<queue, stop, memRows, closing, stats, eventLog>>

-----------------------------------------------------------------------------
(* Outside the process *)

\* The process ends, by a kill, a crash, or at the end of a stop that waits for
\* the writer 30 seconds at most, and a new one starts.
ProcessRestarts ==
    /\ restarts < MaxRestarts /\ restarts' = restarts + 1
    /\ queue' = <<>> /\ stop' = FALSE /\ flushDue' = FALSE /\ memRows' = 0
    /\ writer' = "connect" /\ tries' = 0
    /\ batch' = {} /\ recovering' = FALSE /\ closing' = FALSE
    /\ reason' = "timer"
    /\ Meet(Queued \cup batch, "abandoned")
    /\ doubtful' = doubtful \cup (IF writer = "truncate" THEN InMemory ELSE {})
    /\ UNCHANGED <<tables, faults, rewritten>>

\* The database server restarts: a MEMORY table loses its rows.
ServerRestarts ==
    /\ Fault
    /\ mem' = NoRows
    /\ Meet({r \in InMemory : stats[r] = 0}, "serverLost")
    /\ UNCHANGED <<queue, flags, memRows, writer, tries, batch, locals, stats,
                   eventLog, doubtful, rewritten>>

-----------------------------------------------------------------------------

WriteBatch ==
    \/ InsertStats \/ InsertEvents
    \/ \E full \in BOOLEAN :
        \/ \E S \in SUBSET batch : InsertStatsFails(S, full)
        \/ \E S \in SUBSET (batch \cap EventRuns) : InsertEventsFails(S, full)

FlushToDisk ==
    \/ Aggregate \/ Truncate
    \/ \E applied \in BOOLEAN :
        \/ \E full \in BOOLEAN : AggregateFails(applied, full)
        \/ TruncateFails(applied)

WriterThread ==
    Connect \/ LoopTop \/ Get \/ Collected \/ WriteBatch \/ FlushToDisk

Next ==
    \/ WriterThread
    \/ \E r \in Run : LogPluginRun(r)
    \/ Shutdown \/ FlushIntervalElapses
    \/ ProcessRestarts \/ ServerRestarts

Spec == Init /\ [][Next]_vars

\* The writer runs, time passes, and the flush interval (60 s) is longer than a
\* pass of the loop, so that the timer does not keep it from the queue.  The
\* database fails a bounded number of times.
FairSpec ==
    /\ Spec
    /\ WF_vars(WriterThread) /\ WF_vars(FlushIntervalElapses)
    /\ SF_vars(LoopTop /\ writer' = "collect")

-----------------------------------------------------------------------------
(* Properties *)

WriterStep == {"connect", "loop", "collect", "insertStats", "insertEvents",
               "aggregate", "truncate", "ended"}

\* Every variable has its type; the queue keeps its limit, and the statements of
\* a batch have one.
TypeOK ==
    /\ queue \in Seq(Run \cup {Wakeup}) /\ Len(queue) <= QueueMax
    /\ stop \in BOOLEAN /\ flushDue \in BOOLEAN /\ memRows \in Nat
    /\ writer \in WriterStep /\ tries \in {0, 1}
    /\ batch \in SUBSET Run /\ recovering \in BOOLEAN /\ closing \in BOOLEAN
    /\ reason \in {"timer", "threshold", "full", "failed", "final"}
    /\ mem \in [Run -> Nat] /\ stats \in [Run -> Nat]
    /\ eventLog \in [Run -> Nat]
    /\ faults \in Nat /\ restarts \in Nat
    /\ fate \in [Run -> {"unlogged", "open", "dropped", "reported", "abandoned",
                         "serverLost"}]
    /\ doubtful \in SUBSET Run /\ rewritten \in SUBSET Run

\* A run that was accepted is on its way or counted, and its event row written
\* when the batch is done with, unless a dropped batch was reported, the process
\* ended or the server lost it (_write_batch, _recover_table_full, flush_to_disk).
OnItsWay(r) == r \in Queued \cup batch
NoUnreportedLoss ==
    \A r \in Run : fate[r] = "open" =>
        \/ OnItsWay(r)
        \/ (mem[r] > 0 \/ stats[r] > 0) /\ (r \in EventRuns => eventLog[r] > 0)

\* A run is counted once, and its event row written once, whatever is retried,
\* recovered, flushed early or left behind in the MEMORY table by an earlier
\* process.  It is counted twice, and no more, if the insert of the event rows of its
\* batch met a full table: the recovery repeats the statistics, which were in their
\* table already (_recover_table_full, db_logger.py:556).  Left out are the runs of
\* which a failing statement had written rows, and those aggregated but still in the
\* MEMORY table when truncate failed for good or the process ended before it.
Allowed(r) == IF r \in rewritten THEN 2 ELSE 1
NoUnexplainedDouble ==
    \A r \in Run \ doubtful : stats[r] <= Allowed(r) /\ eventLog[r] <= 1

\* The inductive invariant behind both.  A step of the writer relies on where the
\* rows of its batch are, and a run is in one place only.
Reached(r) == mem[r] > 0 \/ stats[r] > 0
Untouched(r) == mem[r] = 0 /\ stats[r] = 0 /\ eventLog[r] = 0 /\ r \notin rewritten

BatchReached == writer = "insertEvents" =>
    \A r \in batch : fate[r] = "open" => Reached(r)
MemoryAggregated == writer = "truncate" => \A r \in InMemory : stats[r] > 0

QueuedOnce ==
    /\ \A i, j \in DOMAIN queue : queue[i] = queue[j] /\ queue[i] # Wakeup => i = j
    /\ Queued \cap batch = {}

UntouchedSoFar ==
    /\ \A r \in Run : fate[r] = "unlogged" => Untouched(r) /\ ~OnItsWay(r)
    /\ \A r \in Queued : Untouched(r)
    /\ \A r \in batch \ doubtful :
        eventLog[r] = 0 /\ (writer = "insertStats" => mem[r] = 0)

\* A batch is written once more by a recovery only, after the flush that makes room.
RewrittenOnce ==
    \A r \in batch \cap rewritten :
        IF writer \in {"insertStats", "insertEvents"} THEN recovering
        ELSE writer \in {"aggregate", "truncate"} /\ reason = "full"

\* The row that the writer has yet to insert for a run of its batch.
Owed(r) == IF r \in batch /\ writer # "insertEvents" THEN 1 ELSE 0

CountedInOnePlace ==
    \A r \in Run \ doubtful :
        /\ mem[r] <= 1 /\ stats[r] + Owed(r) <= Allowed(r)
        /\ writer # "truncate" => mem[r] + stats[r] + Owed(r) <= Allowed(r)

IInv ==
    /\ TypeOK
    /\ NoUnreportedLoss /\ BatchReached /\ MemoryAggregated
    /\ NoUnexplainedDouble
    /\ QueuedOnce /\ UntouchedSoFar /\ RewrittenOnce /\ CountedInOnePlace

\* Every accepted run is in plugin_run_stats in the end, unless it was given up or
\* the writer has ended.
EveryRunCounted ==
    \A r \in Run :
        fate[r] = "open" ~> (stats[r] > 0 \/ fate[r] # "open" \/ writer = "ended")
================================================================================
