------------------------ MODULE EventDaemonInvariants ------------------------
(***************************************************************************)
(* What EventDaemon maintains beyond IInv: the invariants on which the     *)
(* proofs rest that it implements Delivery, that queues are drained before *)
(* a worker ends, that a dispatched event is in flight, and that no event  *)
(* is run again without a reason.                                          *)
(***************************************************************************)
EXTENDS EventDaemon

\* The step the main thread is at, or returns to after a stop.
At(step) == pc = step \/ (pc = "stopping" /\ interrupted = step)

ItemsOf(q) == {q[i] : i \in DOMAIN q}
Items(p) == ItemsOf(queue[p])

\* A plugin that is not in the collection has no thread, no queue and no cursor.
UnloadedIsBlank ==
    \A p \in Plugin \ plugins :
        /\ worker[p] = "idle" /\ queue[p] = <<>>
        /\ lastDispatchedEventId[p] = NoId

\* Only what was dispatched is queued or run, and moves a cursor.
DispatchComesFirst ==
    \A p \in Plugin : lastDispatchedEventId[p] = NoId =>
        /\ lastEventId[p] = NoId
        /\ Items(p) \subseteq {StopSentinel}

\* Cursors without an id have no backlog.
BacklogHasCursor ==
    \A p \in Plugin :
        \A c \in {CursorOf(p), stateData[p], eventIdFile[p]} :
            c.last = NoId => c.backlog = {}

\* An event is run only while the lock is held, and it is ahead of the cursor
\* unless it was taken from the backlog.
RunIsFresh ==
    \A p \in Plugin :
        /\ ~Locked(p) => current[p] = NoId
        /\ Locked(p) => lastDispatchedEventId[p] # NoId
        /\ worker[p] = "first" => Fresh(p, current[p])

\* What is dispatched is visible in Shotgun.
DispatchedIsPublished ==
    /\ batch \subseteq published
    /\ \A p \in Plugin : /\ Items(p) \subseteq published \cup {StopSentinel}
                         /\ current[p] \in published \cup {NoId}

\* A state without a name is no state.
UnnamedIsNoCursor ==
    \A p \in Plugin :
        /\ p \notin stateNames => stateData[p] = NoCursor
        /\ p \notin eventIdNames => eventIdFile[p] = NoCursor

\* The state a plugin is about to take is the one in the file, and the file has
\* nothing that is newer than the state that other plugins are given.
RestoresFile ==
    \A p \in plugins : TakesState(p) =>
        /\ At("apply") /\ p >= at =>
            /\ eventIdFile[p].last <= maxStateId
            /\ stateData[p].last = NoId \/ stateData[p] = eventIdFile[p]
        /\ At("askId") \/ At("seed") => eventIdFile[p].last = NoId
SeedIsKnown == At("seed") => maxStateId # NoId

DeliveryInv ==
    /\ IInv
    /\ UnloadedIsBlank /\ DispatchComesFirst /\ BacklogHasCursor
    /\ RunIsFresh /\ DispatchedIsPublished /\ UnnamedIsNoCursor
    /\ RestoresFile /\ SeedIsKnown

\* Behind a sentinel nothing but sentinels waits, ...
SentinelsLast(q) ==
    \A i, j \in DOMAIN q : i <= j /\ q[i] = StopSentinel => q[j] = StopSentinel

\* ... until a stop has come to its end; and before one begins only plugins that
\* are on their way out have a sentinel, or a thread that has ended.
Leaving(p) == pc \in {"retire", "join", "install"} /\ p \notin listed

SentinelInv ==
    \A p \in Plugin :
        /\ continuing \/ pc = "stopping" =>
            /\ SentinelsLast(queue[p])
            /\ worker[p] = "exited" => Items(p) \subseteq {StopSentinel}
        /\ continuing /\ (worker[p] = "exited" \/ StopSentinel \in Items(p)) => Leaving(p)

\* While an entry of the backlog is run, whatever precedes it is accounted for.
RetryIsAccounted ==
    \A p \in Plugin : worker[p] = "retry" =>
        \A e \in 1..current[p] : e \in backlog[p] \/ fate[p][e] # "open"

-----------------------------------------------------------------------------
(* What was done is in the cursor or, while a plugin has none, in a checkpoint. *)

\* What a cursor has passed for good.
PassedBy(cursor) == {e \in EventId : e <= cursor.last /\ e \notin cursor.backlog}

Done(p) == {e \in EventId : fate[p][e] = "done"}
Covers(p, cursor) == Done(p) \subseteq PassedBy(cursor)

\* A plugin of the collection that waits for its state; at the exit, one that will
\* never have one.
Restoring(p) ==
    /\ TakesState(p)
    /\ \/ At("readState") \/ At("askId") \/ At("exit")
       \/ (At("apply") \/ At("seed")) /\ p >= at

\* Engine.stop has saved the plugins and the main thread is on its way out.
Stopped == ~continuing /\ pc # "stopping"

StopIsNoted == At("exit") \/ pc = "stopping" => ~continuing
LoopIsReset == At("install") \/ At("readState") \/ At("askId") => at = 1
ApplyHasState == At("apply") => stateNames # {}
SeedHasNoFile == (At("askId") \/ At("seed")) /\ stateNames = {} => eventIdNames = {}
FetchIsReset ==
    /\ nextEventId # NoId =>
        \E step \in {"scan", "entries", "types", "lockTypes", "fetch", "exit",
                     "crashed"} : At(step)
    /\ batch # {} => At("dispatch") \/ At("exit")
SeedIsReset == maxStateId # NoId => At("apply") \/ At("seed") \/ At("exit")

\* There are no states only until the first plugins have been given theirs.
FirstLoad ==
    stateNames = {} /\ plugins # {} =>
        /\ At("readState") \/ At("askId") \/ At("seed") \/ At("exit")
        /\ nextEventId = NoId /\ batch = {}
        /\ \A p \in Plugin : lastDispatchedEventId[p] = NoId
        /\ At("seed") => \A p \in plugins : p >= at

StepInv == /\ StopIsNoted /\ LoopIsReset /\ ApplyHasState /\ SeedHasNoFile
           /\ FetchIsReset /\ SeedIsReset /\ FirstLoad

\* The file has no cursor with an id, and nothing is ever fetched again: a stop
\* during the first load leaves such a file behind.
Dead ==
    /\ eventIdNames # {} /\ nextEventId = NoId /\ batch = {}
    /\ maxStateId = NoId \/ pc = "exit"
    /\ \A p \in Plugin : /\ eventIdFile[p].last = NoId /\ stateData[p].last = NoId
                         /\ lastDispatchedEventId[p] = NoId
    /\ \A step \in {"askId", "seed", "lockTypes", "fetch"} : ~At(step)

CursorCovers(p) == p \in plugins /\ ~Restoring(p) => Covers(p, CursorOf(p))
FileCovers(p) ==
    p \notin plugins \/ Restoring(p) \/ Stopped => Covers(p, eventIdFile[p])
StateCovers(p) ==
    stateNames # {} /\ (p \notin plugins \/ (Restoring(p) /\ At("apply")) \/ Stopped)
        => Covers(p, stateData[p])

\* After a stop no plugin runs: the threads have ended, or never get anything.
StoppedIsIdle ==
    Stopped => \A p \in plugins :
        \/ worker[p] = "exited"
        \/ /\ worker[p] = "idle" /\ queue[p] = <<>>
           /\ pc \in {"readState", "apply", "askId", "seed", "firstSave",
                      "firstWrite", "loop", "exit"}

CheckpointInv ==
    /\ StepInv /\ StoppedIsIdle
    /\ \/ Dead
       \/ \A p \in Plugin : clean[p] => CursorCovers(p) /\ FileCovers(p) /\ StateCovers(p)

\* Everything the proofs about the daemon rest on: what memory, file and collected
\* state account for, where sentinels, dispatched events and retried ones are, and
\* that what was done is covered by the cursor or the file a plugin resumes from.
DaemonInv == DeliveryInv /\ SentinelInv /\ RetryIsAccounted /\ CheckpointInv
==============================================================================
