------------------------------ MODULE EventIdFile ------------------------------
(***************************************************************************)
(* The event id file, step by step: how the engine saves and loads it, how *)
(* a signal stops the engine in the middle of that, and how diagnose_      *)
(* daemon.py rebuilds a file that cannot be loaded.                        *)
(*                                                                         *)
(* EventDaemon has the save as one step; here a SIGTERM handler may run    *)
(* between any two steps of it, saves through the same temporary file, and *)
(* returns; SIGINT unwinds the main thread instead.  Events arrive in      *)
(* order, so that a plugin's state is one id, and none waits in a backlog. *)
(***************************************************************************)
EXTENDS Naturals, FiniteSets

CONSTANTS
    Plugin,       \* the plugins of the collection
    MaxId,        \* bound: event ids are 1..MaxId
    MaxSignals,   \* bound on SIGTERM, SIGINT and SIGUSR1
    MaxFaults,    \* bound on writes that fail, outages and kills
    MaxDamage     \* bound on files removed or damaged from outside

ASSUME EventIdFileAssumption ==
    /\ IsFiniteSet(Plugin) /\ Plugin # {}
    /\ MaxId \in Nat \ {0}
    /\ {MaxSignals, MaxFaults, MaxDamage} \subseteq Nat

EventId == 1 .. MaxId
NoId == 0                      \* None
Ids == [Plugin -> EventId \cup {NoId}]
NoIds == [p \in Plugin |-> NoId]

\* What a file may hold: nothing, a pickled state, the single id of old versions,
\* or bytes that cannot be unpickled.
State(ids) == [kind |-> "state", ids |-> ids]
Legacy(e) == [kind |-> "int", ids |-> [p \in Plugin |-> e]]
Other(kind) == [kind |-> kind, ids |-> NoIds]
Contents == {State(ids) : ids \in Ids} \cup {Legacy(e) : e \in EventId}
            \cup {Other(k) : k \in {"missing", "empty", "garbled"}}

VARIABLES
    file, tmp,   \* eventIdFile and eventIdFile.tmp
    latest,      \* the newest event in Shotgun
    outage,      \* Shotgun does not answer
    cursor,      \* Plugin._lastEventId
    sent,        \* Plugin._lastDispatchedEventId
    data,        \* Engine._eventIdData
    continuing,  \* Engine._continue
    main,        \* the main thread
    stop,        \* Engine.stop, on top of what the main thread was doing
    oldest,      \* MIN(event_id) of plugin_event_queue, or NoId
    handled, waived,   \* history: run by the plugin; given up for a known reason
    excuse,      \* history: what has happened that a stop cannot make up for
    budget       \* what is left of the bounds

\* todo: the plugins whose cursor is still to be collected; now, at: one whose cursor
\* has been read, and what it was; buf: what the open temporary file has still to be
\* given; inode: which file that is by now; next: the step after the save.
main0 == [pc |-> "down", todo |-> {}, now |-> {}, at |-> NoId, buf |-> NoIds,
          inode |-> "none", next |-> "loop"]
stop0 == [pc |-> "off", buf |-> NoIds, saves |-> 0]
excuse0 == [torn |-> FALSE, failed |-> FALSE, aborted |-> FALSE, spoilt |-> FALSE]

processVars == <<cursor, sent, data, continuing, main, stop>>
files == <<file, tmp>>
history == <<handled, waived, excuse>>
outside == <<latest, outage, oldest>>
vars == <<files, processVars, outside, history, budget>>

Init ==
    /\ file \in {Other("missing"), Legacy(1)} /\ tmp = Other("missing")
    /\ latest = 1 /\ outage = FALSE /\ oldest = NoId
    /\ cursor = NoIds /\ sent = NoIds /\ data = NoIds
    /\ continuing = TRUE /\ main = main0 /\ stop = stop0
    /\ handled = [p \in Plugin |-> {}]
    /\ waived = [p \in Plugin |-> IF file.kind = "int" THEN {1} ELSE {}]
    /\ excuse = excuse0
    /\ budget = [signals |-> MaxSignals, faults |-> MaxFaults, damage |-> MaxDamage]

-----------------------------------------------------------------------------
Spend(what) == budget[what] > 0 /\ budget' = [budget EXCEPT ![what] = @ - 1]

\* The main thread is at step pc, and no handler runs on top of it.
At(pc) == main.pc = pc /\ stop.pc = "off"
Goto(pc) == main' = [main EXCEPT !.pc = pc]

\* History: the ids up to m[p] that p has not handled are given up.
Waive(m) ==
    waived' = [p \in Plugin |-> waived[p] \cup ((1 .. m[p]) \ handled[p])]

Lost ==
    /\ cursor' = NoIds /\ sent' = NoIds /\ data' = NoIds
    /\ continuing' = TRUE /\ main' = main0 /\ stop' = stop0

\* start(): the plugins are loaded (a signal before that finds no state to save).
Start ==
    /\ At("down") /\ Goto("scripts")
    /\ excuse' = [excuse EXCEPT !.torn = FALSE]
    /\ UNCHANGED <<files, cursor, sent, data, continuing, stop, outside, handled,
                   waived, budget>>

\* _loadDisabledEventLogScriptIds asks until Shotgun answers or a stop is wanted.
LoadScriptIds ==
    /\ At("scripts") /\ (~outage \/ ~continuing)
    /\ Goto("readFile")
    /\ UNCHANGED <<files, cursor, sent, data, continuing, stop, outside, history,
                   budget>>

-----------------------------------------------------------------------------
(* _loadEventIdData                                                        *)

\* Plugin.setState: once something was dispatched, what is loaded is ignored.
Takes(p) == sent[p] = NoId
Adopt(ids) ==
    /\ cursor' = [p \in Plugin |-> IF Takes(p) THEN ids[p] ELSE cursor[p]]
    /\ sent' = [p \in Plugin |-> IF Takes(p) THEN ids[p] ELSE sent[p]]

\* A pickled state becomes the engine's.
LoadState ==
    /\ At("readFile") /\ file.kind = "state"
    /\ data' = file.ids /\ Adopt(file.ids)
    /\ Goto("loop")
    /\ UNCHANGED <<files, continuing, stop, outside, history, budget>>

\* The single id of old versions is every plugin's.
LoadInt ==
    /\ At("readFile") /\ file.kind = "int"
    /\ Adopt(file.ids) /\ data' = cursor'
    /\ Goto("loop")
    /\ UNCHANGED <<files, continuing, stop, outside, history, budget>>

\* UnpicklingError is passed over, and no plugin gets a state; any other error of
\* pickle ends the main thread, and the exit handlers cannot build the thread pool
\* that stop() needs: nothing is saved.
LoadGarbled ==
    /\ At("readFile") /\ file.kind = "garbled"
    /\ \/ Goto("loop") /\ UNCHANGED <<cursor, sent, data, continuing, stop>>
       \/ Lost
    /\ UNCHANGED <<files, outside, history, budget>>

\* No file, or an empty one: the newest id in Shotgun.
NoFile ==
    /\ At("readFile") /\ file.kind \in {"missing", "empty"}
    /\ main' = [main EXCEPT !.pc = "ask",
                            !.next = IF file.kind = "missing" THEN "save" ELSE "loop"]
    /\ UNCHANGED <<files, cursor, sent, data, continuing, stop, outside, history,
                   budget>>

\* _getLastEventIdFromDatabase: the newest event is the last one, not the next.
NextEventId == latest + 1
LastEventId == latest

\* It asks until Shotgun answers, stop or not.
Seed ==
    LET newest == [p \in Plugin |-> LastEventId] IN
    /\ At("ask") /\ ~outage
    /\ Adopt(newest) /\ data' = cursor'
    /\ Waive([p \in Plugin |-> IF Takes(p) THEN latest ELSE NoId])
    /\ main' = IF main.next = "save"
               THEN [main EXCEPT !.pc = "read", !.todo = Plugin, !.next = "loop"]
               ELSE [main EXCEPT !.pc = "loop"]
    /\ UNCHANGED <<files, continuing, stop, outside, handled, excuse, budget>>

-----------------------------------------------------------------------------
(* _mainLoop and the workers                                               *)

\* The loop does not look at _continue.
LoopsForEver ==
    /\ At("loop") /\ Goto("fetch")
    /\ UNCHANGED <<files, cursor, sent, data, continuing, stop, outside, history,
                   budget>>
LoopTop ==
    /\ At("loop")
    /\ Goto(IF continuing THEN "fetch" ELSE "exit")
    /\ UNCHANGED <<files, cursor, sent, data, continuing, stop, outside, history,
                   budget>>

Pending(p) == sent[p] > cursor[p]
HasCursor == \E p \in Plugin : sent[p] # NoId
NextEvent ==
    LET cursors == {sent[p] : p \in Plugin} \ {NoId} IN
    1 + CHOOSE e \in cursors : \A f \in cursors : e <= f

BeginSave == main' = [main EXCEPT !.pc = "read", !.todo = Plugin, !.next = "readFile"]

\* The next event, if there is one, goes to every plugin; bound: none of them has
\* another one waiting.
Dispatch ==
    /\ At("fetch") /\ continuing /\ ~outage /\ HasCursor
    /\ NextEvent <= latest /\ \A p \in Plugin : ~Pending(p)
    /\ sent' = [p \in Plugin |-> NextEvent]
    /\ BeginSave
    /\ UNCHANGED <<files, cursor, data, continuing, stop, outside, history, budget>>

\* Nothing to fetch, no cursor to fetch from, or the plugins are busy.
DispatchNothing ==
    /\ At("fetch")
    /\ continuing /\ HasCursor =>
          ~outage /\ (NextEvent > latest \/ \E p \in Plugin : Pending(p))
    /\ BeginSave
    /\ UNCHANGED <<files, cursor, sent, data, continuing, stop, outside, history,
                   budget>>

\* Plugin.process; a plugin without a cursor starts at the event it gets.  Workers
\* end when a stop has drained them.
Process(p) ==
    /\ Pending(p) /\ (continuing \/ stop.pc = "drain")
    /\ cursor' = [cursor EXCEPT ![p] = sent[p]]
    /\ handled' = [handled EXCEPT ![p] = @ \cup {sent[p]}]
    /\ waived' = IF cursor[p] # NoId THEN waived
                 ELSE [waived EXCEPT ![p] = @ \cup ((1 .. sent[p] - 1) \ handled[p])]
    /\ UNCHANGED <<files, sent, data, continuing, main, stop, outside, excuse, budget>>

Exit ==
    /\ At("exit") /\ Lost
    /\ UNCHANGED <<files, outside, history, budget>>

-----------------------------------------------------------------------------
(* _saveEventIdData in the main thread                                     *)

\* PluginCollection.getState: Plugin.getState returns ...
ReadCursor ==
    /\ At("read")
    /\ IF main.todo = {} THEN Goto("write")
       ELSE \E p \in main.todo :
            main' = [main EXCEPT !.pc = "store", !.todo = @ \ {p}, !.now = {p},
                            !.at = cursor[p]]
    /\ UNCHANGED <<files, cursor, sent, data, continuing, stop, outside, history,
                   budget>>

\* ... and its result is stored.
StoreCursor ==
    /\ At("store")
    /\ data' = [p \in Plugin |-> IF p \in main.now THEN main.at ELSE data[p]]
    /\ main' = [main EXCEPT !.pc = "read", !.now = {}, !.at = NoId]
    /\ UNCHANGED <<files, cursor, sent, continuing, stop, outside, history, budget>>

AfterSave == [main EXCEPT !.pc = main.next, !.buf = NoIds, !.inode = "none"]

\* The temporary file is opened and truncated, and the state pickled into its
\* buffer; or opening or writing fails, which is logged.
\* The file itself is opened and truncated.
WriteInPlace ==
    /\ At("write")
    /\ file' = Other("empty")
    /\ main' = [main EXCEPT !.pc = "close", !.buf = data, !.inode = "file"]
    /\ UNCHANGED <<tmp, cursor, sent, data, continuing, stop, outside, history,
                   budget>>
WriteTmp ==
    /\ At("write")
    /\ tmp' = Other("empty")
    /\ main' = [main EXCEPT !.pc = "close", !.buf = data, !.inode = "tmp"]
    /\ UNCHANGED <<file, cursor, sent, data, continuing, stop, outside, history,
                   budget>>
WriteFails ==
    /\ main.pc \in {"write", "close", "rename"} /\ stop.pc = "off" /\ Spend("faults")
    /\ main' = AfterSave
    /\ excuse' = [excuse EXCEPT !.failed = TRUE]
    /\ UNCHANGED <<files, cursor, sent, data, continuing, stop, outside, handled,
                   waived>>

\* What a file holds when a buffer that belongs to it is flushed over other
\* contents: the older bytes, both mixed, or bytes that make no pickle.
Overlay(ids, under) ==
    {State(ids), Other("garbled")}
    \cup {State([p \in Plugin |-> IF p \in S THEN ids[p] ELSE under.ids[p]]) :
            S \in IF under.kind = "state" THEN SUBSET Plugin ELSE {}}

\* The end of the with statement flushes the buffer to the file that was opened,
\* whatever its name is by now.
Flush ==
    CASE main.inode = "tmp"    -> tmp' = State(main.buf) /\ UNCHANGED file
      [] main.inode = "shared" -> tmp' \in Overlay(main.buf, tmp) /\ UNCHANGED file
      [] main.inode = "file"   -> file' \in Overlay(main.buf, file) /\ UNCHANGED tmp
      [] OTHER                 -> UNCHANGED files

CloseTmp ==
    /\ At("close") /\ Flush
    /\ Goto("rename")
    /\ UNCHANGED <<cursor, sent, data, continuing, stop, outside, history, budget>>

\* os.replace; without a temporary file it fails, and is logged.
RenameTmp ==
    /\ At("rename")
    /\ file' = IF tmp.kind = "missing" THEN file ELSE tmp
    /\ tmp' = Other("missing")
    /\ main' = AfterSave
    /\ UNCHANGED <<cursor, sent, data, continuing, stop, outside, history, budget>>

-----------------------------------------------------------------------------
(* Signals and Engine.stop                                                 *)

CanSignal == main.pc # "down" /\ stop.pc = "off" /\ continuing

\* History: a stop that begins between the reading of a cursor and its being stored.
StopBegins ==
    /\ continuing' = FALSE
    /\ stop' = [stop EXCEPT !.pc = "drain"]
    /\ excuse' = [excuse EXCEPT
            !.torn = @ \/ (main.pc = "store" /\ main'.pc = "store")]

\* SIGTERM: the handler calls stop(), on top of the step it interrupts.
Sigterm ==
    /\ CanSignal /\ Spend("signals")
    /\ UNCHANGED main /\ StopBegins
    /\ UNCHANGED <<files, cursor, sent, data, outside, handled, waived>>

\* SIGINT and SIGUSR1 unwind the main thread, which closes what is open, and start()
\* calls stop() before the process ends.
Sigint ==
    /\ CanSignal /\ Spend("signals")
    /\ IF main.pc = "close" THEN Flush ELSE UNCHANGED files
    /\ main' = [main EXCEPT !.pc = "exit", !.buf = NoIds, !.inode = "none"]
    /\ StopBegins
    /\ UNCHANGED <<cursor, sent, data, outside, handled, waived>>

\* A SIGINT in the middle of a stop unwinds that as well, and stop() is not begun
\* again; the file that is open below is closed, whatever its name is by now.
Abort ==
    /\ stop.pc # "off" /\ Spend("signals")
    /\ IF main.pc = "close" THEN Flush ELSE UNCHANGED files
    /\ excuse' = [excuse EXCEPT !.aborted = TRUE,
                                !.spoilt = @ \/ main.inode = "file"]
    /\ main' = [main EXCEPT !.pc = "exit", !.buf = NoIds, !.inode = "none"]
    /\ stop' = stop0
    /\ UNCHANGED <<cursor, sent, data, continuing, outside, handled, waived>>

\* shutdown() of the collection has drained every queue.
Drained ==
    /\ stop.pc = "drain" /\ \A p \in Plugin : ~Pending(p)
    /\ data' = cursor /\ stop' = [stop EXCEPT !.pc = "write", !.buf = cursor]
    /\ UNCHANGED <<files, cursor, sent, continuing, main, outside, history, budget>>

\* One of the two saves of stop(): another file, or the one that is open below.
StopWrite ==
    /\ stop.pc = "write"
    /\ tmp' = Other("empty")
    /\ main' = IF main.inode = "tmp" THEN [main EXCEPT !.inode = "shared"] ELSE main
    /\ stop' = [stop EXCEPT !.pc = "close"]
    /\ UNCHANGED <<file, cursor, sent, data, continuing, outside, history, budget>>

StopClose ==
    /\ stop.pc = "close"
    /\ tmp' = State(stop.buf)
    /\ stop' = [stop EXCEPT !.pc = "rename"]
    /\ UNCHANGED <<file, cursor, sent, data, continuing, main, outside, history, budget>>

\* stop() saves once.
SavesOnce == stop0
\* stop() saves a second time when the database logger has been shut down.
AfterStopSave ==
    IF stop.saves = 0 THEN [stop EXCEPT !.pc = "write", !.saves = 1] ELSE stop0

\* The file that had this name so far has none any more.
StopRename ==
    /\ stop.pc = "rename"
    /\ file' = tmp /\ tmp' = Other("missing")
    /\ main' = [main EXCEPT !.inode = CASE @ = "shared" -> "file"
                                        [] @ = "file"   -> "orphan"
                                        [] OTHER        -> @]
    /\ stop' = AfterStopSave
    /\ UNCHANGED <<cursor, sent, data, continuing, outside, history, budget>>

StopWriteFails ==
    /\ stop.pc \in {"write", "close", "rename"} /\ Spend("faults")
    /\ stop' = AfterStopSave
    /\ excuse' = [excuse EXCEPT !.failed = TRUE]
    /\ UNCHANGED <<files, cursor, sent, data, continuing, main, outside, handled,
                   waived>>

\* SIGKILL, or the timer of start() that forces an exit.
Kill ==
    /\ main.pc # "down" /\ Spend("faults")
    /\ Lost
    /\ UNCHANGED <<files, outside, history>>

-----------------------------------------------------------------------------
(* Outside the process                                                     *)

NewEvent ==
    /\ latest < MaxId /\ latest' = latest + 1
    /\ UNCHANGED <<files, processVars, outage, oldest, history, budget>>

OutageBegins ==
    /\ ~outage /\ Spend("faults") /\ outage' = TRUE
    /\ UNCHANGED <<files, processVars, latest, oldest, history>>
OutageEnds ==
    /\ outage /\ outage' = FALSE
    /\ UNCHANGED <<files, processVars, latest, oldest, history, budget>>

\* Somebody removes the file, or a disk damages it.
Damage ==
    /\ Spend("damage")
    /\ file' \in {Other(k) : k \in {"missing", "empty", "garbled"}}
    /\ UNCHANGED <<tmp, processVars, outside, history>>

\* The database logger's snapshot of the queues.
SaveQueue ==
    LET waiting == {sent[p] : p \in {q \in Plugin : Pending(q)}} IN
    /\ main.pc # "down"
    /\ oldest' = IF waiting = {} THEN NoId
                 ELSE CHOOSE e \in waiting : \A f \in waiting : e <= f
    /\ UNCHANGED <<files, processVars, latest, outage, history, budget>>

\* _find_resume_event_id with events in the queue table: the id before the oldest.
ResumeAtQueued == oldest
ResumeBeforeQueued == oldest - 1

\* rebuild, for a file that no daemon can load while none is running: every plugin
\* gets one id, from the queue table or else from the logs, whose highest id is the
\* latest event that was handled.
Rebuild ==
    LET seen == UNION {handled[p] : p \in Plugin}
        resume == IF oldest # NoId THEN ResumeBeforeQueued
                  ELSE CHOOSE e \in seen : \A f \in seen : f <= e
    IN
    /\ At("down") /\ file.kind # "state" /\ (oldest # NoId \/ seen # {})
    /\ file' = State([p \in Plugin |-> resume])
    /\ IF oldest # NoId THEN UNCHANGED waived
       ELSE Waive([p \in Plugin |-> resume])
    /\ UNCHANGED <<tmp, processVars, outside, handled, excuse, budget>>

-----------------------------------------------------------------------------
MainStep ==
    \/ LoadScriptIds
    \/ LoadState \/ LoadInt \/ LoadGarbled \/ NoFile \/ Seed
    \/ LoopTop \/ Dispatch \/ DispatchNothing \/ Exit
    \/ ReadCursor \/ StoreCursor \/ WriteTmp \/ CloseTmp \/ RenameTmp
    \/ Drained \/ StopWrite \/ StopClose \/ StopRename

Next ==
    \/ MainStep \/ Start \/ \E p \in Plugin : Process(p)
    \/ Sigterm \/ Sigint \/ Abort \/ Kill
    \/ WriteFails \/ StopWriteFails
    \/ NewEvent \/ OutageBegins \/ OutageEnds \/ Damage \/ SaveQueue \/ Rebuild

Spec == Init /\ [][Next]_vars

\* The threads run, an outage ends, and the supervisor starts the daemon again.
FairSpec ==
    /\ Spec
    /\ WF_vars(MainStep) /\ WF_vars(Start) /\ WF_vars(OutageEnds)
    /\ \A p \in Plugin : WF_vars(Process(p))

-----------------------------------------------------------------------------
MainSteps == {"down", "scripts", "readFile", "ask", "loop", "fetch", "read",
              "store", "write", "close", "rename", "exit"}

\* Type invariant.
TypeOK ==
    /\ file \in Contents /\ tmp \in Contents
    /\ latest \in EventId /\ {outage, continuing} \subseteq BOOLEAN
    /\ {cursor, sent, data} \subseteq Ids /\ oldest \in EventId \cup {NoId}
    /\ main \in [pc : MainSteps, todo : SUBSET Plugin, now : SUBSET Plugin,
                at : EventId \cup {NoId}, buf : Ids,
                inode : {"none", "tmp", "shared", "file", "orphan"},
                next : {"loop", "readFile", "save"}]
    /\ stop \in [pc : {"off", "drain", "write", "close", "rename"}, buf : Ids,
                saves : {0, 1}]
    /\ {handled, waived} \subseteq [Plugin -> SUBSET EventId]
    /\ excuse \in [torn : BOOLEAN, failed : BOOLEAN, aborted : BOOLEAN,
                  spoilt : BOOLEAN]
    /\ budget \in [signals : Nat, faults : Nat, damage : 0 .. MaxDamage]

\* What a stop has saved stands when the process ends, whatever step of another save
\* the signal interrupted: the file has the state that every plugin reached.
\* Excepted are a stop between the reading and the storing of a cursor, one that is
\* cut short, and a failing disk (stop).
StopPersists ==
    /\ At("exit") /\ budget.damage = MaxDamage
    /\ TRUE \notin {excuse.torn, excuse.failed, excuse.aborted, excuse.spoilt}
    => file = State(cursor)

\* No signal or kill leaves a file that cannot be loaded, whatever step of a save it
\* meets (_saveEventIdData's comment on os.replace), and no stop that is cut short
\* does, but for one: a SIGINT between the two saves of a stop that a signal began on
\* top of a save of the main thread.  The file that this save has still open is the
\* event id file by then.  A failing disk and damage from outside are left out.
FileLoads ==
    At("down") /\ file.kind \in {"empty", "garbled"} =>
        budget.damage < MaxDamage \/ excuse.failed \/ excuse.spoilt

\* No cursor, in memory or in the file, passes an event that was neither handled nor
\* given up: the restarts resume from an older state, never a newer one, and so does
\* a file rebuilt from the queue table (_find_resume_event_id).
NothingSkipped ==
    \A p \in Plugin :
        /\ 1 .. cursor[p] \subseteq handled[p] \cup waived[p]
        /\ 1 .. file.ids[p] \subseteq handled[p] \cup waived[p]

\* A stop ends the process, even when the signal met the main thread during an
\* outage, unless the outage lasts (_getNewEvents' comment on self._continue).
StopEnds == (~continuing) ~> (main.pc = "down")
-----------------------------------------------------------------------------
(* What the safety properties rest on                                      *)

SaveSteps == {"read", "store", "write", "close", "rename"}

\* Where the main thread is, and what it holds there.
StepInv ==
    /\ main.inode # "none" <=> main.pc \in {"close", "rename"}
    /\ main.now # {} => main.pc \in {"store", "exit"}
    /\ main.pc = "ask" => main.next # "readFile"
    /\ main.pc \in SaveSteps => main.next # "save"
    /\ stop.pc # "off" \/ main.pc = "exit" => ~continuing
    /\ stop.pc \in {"off", "drain"} => stop.saves = 0
    /\ ~continuing => main.pc # "down"
    /\ main.pc \in {"down", "scripts"} => cursor = NoIds /\ sent = NoIds
    /\ stop.pc = "rename" => tmp = State(stop.buf)

\* Either every plugin has an id or none has one, wherever ids are kept, ...
Uniform(ids) == \A p, q \in Plugin : ids[p] = NoId <=> ids[q] = NoId
\* ... and in memory and in what is about to be the file it is the same everywhere.
LikeCursor(ids) == \A p, q \in Plugin : ids[p] = NoId <=> cursor[q] = NoId
StartInv ==
    /\ LikeCursor(cursor) /\ LikeCursor(sent) /\ LikeCursor(data)
    /\ \A p \in main.now, q \in Plugin : main.at = NoId <=> cursor[q] = NoId
    /\ main.inode # "none" => LikeCursor(main.buf)
    /\ stop.pc \in {"write", "close", "rename"} => LikeCursor(stop.buf)
    /\ Uniform(file.ids) /\ Uniform(tmp.ids)
    /\ \/ main.inode \in {"shared", "file", "orphan"}
       \/ main.pc = "rename" \/ stop.pc = "rename"
       => tmp.kind # "state" \/ LikeCursor(tmp.ids)
    /\ main.inode = "file" => file.kind # "state" \/ LikeCursor(file.ids)

\* While a daemon runs, it does not load a file without ids once it has some.
RereadInv ==
    /\ \/ main.pc \in {"fetch", "readFile"}
       \/ main.pc \in SaveSteps /\ main.next = "readFile"
       \/ main.pc \in SaveSteps \cup {"loop"} /\ continuing
       => file.kind # "state" \/ cursor = NoIds \/ LikeCursor(file.ids)
    /\ main.pc = "ask" /\ continuing => file.kind # "state"

\* Whatever a plugin may resume from passes nothing that is not accounted for, and
\* no cursor is more than one event behind what was dispatched.
Known(p) == handled[p] \cup waived[p]
Covered(ids) == \A p \in Plugin : 1 .. ids[p] \subseteq Known(p)
SkipInv ==
    /\ Covered(cursor) /\ Covered(data) /\ Covered(file.ids) /\ Covered(tmp.ids)
    /\ Covered(main.buf) /\ Covered(stop.buf)
    /\ \A p \in main.now : 1 .. main.at \subseteq Known(p)
    /\ oldest # NoId => \A p \in Plugin : 1 .. (oldest - 1) \subseteq Known(p)
    /\ \A p \in Plugin : cursor[p] # NoId => sent[p] <= cursor[p] + 1
    /\ \A p, q \in Plugin : Pending(p) => sent[q] = sent[p]

\* As long as no file was damaged, no disk failed and no stop was cut short between
\* its saves, each file is complete when it is renamed, and the descriptor that a
\* stop left open belongs to a file without a name when it is flushed.
Unspoilt == budget.damage = MaxDamage /\ ~excuse.failed /\ ~excuse.spoilt
Undisturbed == Unspoilt /\ ~excuse.aborted
LoadInv ==
    Unspoilt =>
        /\ file.kind \in {"missing", "int", "state"}
        /\ main.pc = "ask" => main.next = "save"
        /\ main.inode = "shared" => stop.pc \in {"close", "rename"} /\ stop.saves = 0
        /\ main.inode = "file" => stop.saves = 1
        /\ main.inode = "tmp" =>
               stop.saves = 0 /\ stop.pc \in {"off", "drain", "write"}
        /\ main.inode = "orphan" =>
               stop.pc = "off" /\ ~continuing /\ tmp.kind = "missing"
        /\ main.pc = "rename" /\ stop.pc \in {"off", "drain"} =>
               tmp.kind \in {"missing", "state"}

\* What a stop has written, what the main thread writes once more when it goes on
\* after it, and every cursor are the same.
Idle == \A p \in Plugin : ~Pending(p)
PersistInv ==
    Undisturbed /\ ~excuse.torn /\ ~continuing =>
        /\ stop.pc # "off" => main.pc # "store"
        /\ stop.pc \in {"write", "close", "rename"} =>
               /\ Idle /\ data = cursor /\ stop.buf = cursor
               /\ stop.saves = 1 => file = State(cursor)
        /\ stop.pc = "off" =>
               /\ Idle /\ data = cursor
               /\ main.pc \in {"scripts", "readFile", "ask", "loop", "fetch", "exit"}
                      => file = State(cursor)
               /\ main.pc = "store" => \A p \in main.now : main.at = cursor[p]
               /\ main.pc = "close" =>
                      IF main.inode = "orphan" THEN file = State(cursor)
                      ELSE main.buf = cursor
               /\ main.pc = "rename" =>
                      IF tmp.kind = "missing" THEN file = State(cursor)
                      ELSE tmp = State(cursor)

\* The inductive invariant.
FileInv == /\ TypeOK /\ StepInv /\ StartInv /\ RereadInv
           /\ SkipInv /\ LoadInv /\ PersistInv
================================================================================
