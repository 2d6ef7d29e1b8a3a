------------------------------ MODULE StatusSync ------------------------------
(***************************************************************************)
(* Four of the example plugins, which keep the statuses of an asset, of    *)
(* its tasks and of their versions in step:                                *)
(*   TV  task_status_update_version_status.py                              *)
(*   VT  version_status_update_task_status.py                              *)
(*   TE  task_status_update_entity_status.py                               *)
(*   ET  entity_status_update_task_status.py                               *)
(* A plugin handles its events one after the other, the plugins run side   *)
(* by side, and people edit the same fields.  A query and an update are    *)
(* steps of their own: what a callback has read may have changed when it   *)
(* writes, and what it writes is an event for the others.                  *)
(*                                                                         *)
(* Shotgun is external: a field that gets a new value makes an event, and  *)
(* every plugin that listens receives it in order.                         *)
(***************************************************************************)
EXTENDS Naturals, Sequences, FiniteSets, Functions

CONSTANTS
    NumTasks,        \* the tasks of the asset
    VersionsOf,      \* VersionsOf[t]: how many versions task t has
    VersionMapping,  \* sg_version_status_mapping of each Status, or None
    TaskMapping,     \* sg_task_status_mapping of each Status, or None
    MaxEdits,        \* bound on edits by people
    MaxDeletes,      \* bound on tasks deleted by them
    MaxInbox         \* bound on the events that wait for a plugin

Task == 1 .. NumTasks
None == "none"
TaskStatus == {"ip", "fin", "na", "hld"}
VersionStatus == {"rev", "apr"}
Plugins == {"TV", "VT", "TE", "ET"}

ASSUME StatusSyncAssumption ==
    /\ {NumTasks, MaxEdits, MaxDeletes, MaxInbox} \subseteq Nat
    /\ VersionsOf \in [Task -> Nat]
    /\ VersionMapping \in [TaskStatus -> VersionStatus \cup {None}]
    /\ TaskMapping \in [VersionStatus -> TaskStatus \cup {None}]

Version == UNION {{<<t, i>> : i \in 1 .. VersionsOf[t]} : t \in Task}
Asset == 0

VARIABLES
    task,       \* Task.sg_status_list, None when the task is deleted
    version,    \* Version.sg_status_list
    dated,      \* the versions with client_approved_at
    asset,      \* Asset.sg_status_list
    described,  \* the asset has a description
    inbox,      \* the events each plugin has still to handle
    run,        \* what each plugin is doing
    active,     \* the plugins that are valid and have not failed
    byHand,     \* history: a person gave the asset its status
    bounds      \* edits and deletions so far

fields == <<task, version, dated, asset, described>>
vars == <<fields, inbox, run, active, byHand, bounds>>

NoEntity == <<>>
Idle == [pc |-> "idle", of |-> NoEntity, old |-> None, new |-> None, seen |-> None,
         found |-> {}, describe |-> FALSE]

Live == {t \in Task : task[t] # None}

\* A task and its latest version agree by one mapping or the other.
InStep(t) ==
    LET latest == version[<<t, VersionsOf[t]>>]
        mapped == VersionMapping[task[t]]
        back == TaskMapping[latest]
    IN  latest = mapped \/ back = task[t] \/ None \in {mapped, back}

\* A plugin whose is_valid fails registers nothing; VT has no is_valid.  The
\* statuses are in step when the plugins start.
Init ==
    /\ task = [t \in Task |-> "ip"]
    /\ version \in [Version -> VersionStatus]
    /\ \A t \in Live : VersionsOf[t] > 0 => InStep(t)
    /\ dated = {v \in Version : version[v] = "apr"}
    /\ asset = "ip" /\ described \in BOOLEAN
    /\ inbox = [p \in Plugins |-> <<>>]
    /\ run = [p \in Plugins |-> Idle]
    /\ active \in {valid \cup {"VT"} : valid \in SUBSET Plugins}
    /\ byHand = FALSE
    /\ bounds = [edits |-> 0, deletes |-> 0]

-----------------------------------------------------------------------------
(* Shotgun (external)                                                      *)

\* What the plugins have registered for: the status of a task, version or asset.
TvListens(e) == Len(e.of) = 1 /\ e.of # <<Asset>>
VtListens(e) == Len(e.of) = 2
TeListens(e) == Len(e.of) = 1 /\ e.of # <<Asset>>
EtListens(e) == e.of = <<Asset>>

Listens(p, e) ==
    \/ p = "TV" /\ TvListens(e)
    \/ p = "VT" /\ VtListens(e)
    \/ p = "TE" /\ TeListens(e)
    \/ p = "ET" /\ EtListens(e)

\* The events of one update, which are all of tasks, of versions or of the asset,
\* reach the plugins that listen to them and are active.
Deliver(box, who, events) ==
    [p \in Plugins |->
        IF p \in who /\ \A i \in DOMAIN events : Listens(p, events[i])
        THEN box[p] \o events ELSE box[p]]

Changes(before, after, of) ==
    IF before = after THEN <<>> ELSE << [of |-> of, old |-> before, new |-> after] >>

\* The tasks of a batch come in the order in which a query found them: in any.
InAnyOrder(events) == Bijection(1 .. Cardinality(events), events)

\* Sorted the other way.
Oldest(t) == <<t, 1>>
\* Versions are sorted by created_at, the latest first.
Latest(t) == <<t, VersionsOf[t]>>

-----------------------------------------------------------------------------
(* People                                                                  *)

Edit == /\ bounds.edits < MaxEdits
        /\ bounds' = [bounds EXCEPT !.edits = @ + 1]

SetTask ==
    /\ Edit
    /\ \E t \in Live, s \in TaskStatus :
        /\ s # task[t]
        /\ task' = [task EXCEPT ![t] = s]
        /\ inbox' = Deliver(inbox, active, Changes(task[t], s, <<t>>))
    /\ UNCHANGED <<version, dated, asset, described, run, active, byHand>>

SetVersion ==
    /\ Edit
    /\ \E v \in Version, s \in VersionStatus :
        /\ s # version[v]
        /\ version' = [version EXCEPT ![v] = s]
        /\ inbox' = Deliver(inbox, active, Changes(version[v], s, v))
    /\ UNCHANGED <<task, dated, asset, described, run, active, byHand>>

SetAsset ==
    /\ Edit
    /\ \E s \in TaskStatus :
        /\ s # asset
        /\ asset' = s
        /\ inbox' = Deliver(inbox, active, Changes(asset, s, <<Asset>>))
    /\ byHand' = TRUE
    /\ UNCHANGED <<task, version, dated, described, run, active>>

DeleteTask ==
    /\ bounds.deletes < MaxDeletes
    /\ bounds' = [bounds EXCEPT !.deletes = @ + 1]
    /\ \E t \in Live : task' = [task EXCEPT ![t] = None]
    /\ UNCHANGED <<version, dated, asset, described, inbox, run, active, byHand>>

-----------------------------------------------------------------------------
(* The plugins                                                             *)

Pc(p) == run[p].pc
Ev(p) == run[p]
Goto(p, pc) == run' = [run EXCEPT ![p].pc = pc]
Done(p) == run' = [run EXCEPT ![p] = Idle]

\* A callback that raises is switched off, and its plugin with it.
Raise(p) ==
    /\ active' = active \ {p}
    /\ inbox' = [inbox EXCEPT ![p] = <<>>]
    /\ run' = [run EXCEPT ![p] = Idle]

Take(p) ==
    /\ Pc(p) = "idle" /\ inbox[p] # <<>>
    /\ LET e == Head(inbox[p]) IN
       run' = [run EXCEPT ![p] =
                [Idle EXCEPT !.pc = "begin", !.of = e.of, !.old = e.old, !.new = e.new]]
    /\ inbox' = [inbox EXCEPT ![p] = Tail(@)]
    /\ UNCHANGED <<fields, active, byHand, bounds>>

NoUpdate == UNCHANGED <<fields, inbox, active, byHand, bounds>>

\* The early return without a mapping left out.
TvReadUnmapped ==
    /\ Pc("TV") = "begin"
    /\ LET t == Ev("TV").of[1]
           mapped == IF task[t] = None THEN None ELSE VersionMapping[task[t]]
       IN  IF task[t] = None \/ VersionsOf[t] = 0 THEN Done("TV")
           ELSE run' = [run EXCEPT !["TV"].pc = "write", !["TV"].seen = mapped]
    /\ NoUpdate

\* TV: task_status_changed reads the task again, ...
TvRead ==
    /\ Pc("TV") = "begin"
    /\ LET t == Ev("TV").of[1]
           mapped == IF task[t] = None THEN None ELSE VersionMapping[task[t]]
       IN  IF mapped = None \/ VersionsOf[t] = 0 THEN Done("TV")
           ELSE run' = [run EXCEPT !["TV"].pc = "write", !["TV"].seen = mapped]
    /\ NoUpdate

\* ... and writes the status of its latest version.
TvWrite ==
    /\ Pc("TV") = "write"
    /\ LET v == Latest(Ev("TV").of[1]) IN
       /\ version' = [version EXCEPT ![v] = Ev("TV").seen]
       /\ inbox' = Deliver(inbox, active, Changes(version[v], Ev("TV").seen, v))
    /\ Done("TV")
    /\ UNCHANGED <<task, dated, asset, described, active, byHand, bounds>>

\* Done when the task needs nothing.
VtReadNoDate ==
    /\ Pc("VT") = "begin"
    /\ LET v == Ev("VT").of
           t == v[1]
           mapped == TaskMapping[version[v]]
           new == IF task[t] = None \/ mapped = task[t] THEN None ELSE mapped
       IN  IF new = None THEN Done("VT")
           ELSE run' = [run EXCEPT !["VT"].pc = "write", !["VT"].seen = new,
                                   !["VT"].describe = version[v] = "apr"]
    /\ NoUpdate

\* VT: version_status_changed reads the version and its task in one query, ...
VtRead ==
    /\ Pc("VT") = "begin"
    /\ LET v == Ev("VT").of
           t == v[1]
           mapped == TaskMapping[version[v]]
           new == IF task[t] = None \/ mapped = task[t] THEN None ELSE mapped
       IN  IF new = None /\ version[v] # "apr" THEN Done("VT")
           ELSE run' = [run EXCEPT !["VT"].pc = "write", !["VT"].seen = new,
                                   !["VT"].describe = version[v] = "apr"]
    /\ NoUpdate

\* ... and writes the task and the date of the approval in one batch, which
\* fails if the task is gone.
VtWrite ==
    LET v == Ev("VT").of
        t == v[1]
        new == Ev("VT").seen
    IN
    /\ Pc("VT") = "write"
    /\ IF new # None /\ task[t] = None
       THEN Raise("VT") /\ UNCHANGED <<task, dated>>
       ELSE /\ task' = IF new = None THEN task ELSE [task EXCEPT ![t] = new]
            /\ dated' = IF Ev("VT").describe THEN dated \cup {v} ELSE dated
            /\ inbox' = Deliver(inbox, active, Changes(task[t], task'[t], <<t>>))
            /\ Done("VT") /\ UNCHANGED active
    /\ UNCHANGED <<version, asset, described, byHand, bounds>>

\* TE: update_entity_status goes by the values of the event and reads the task
\* again; without the task it raises.
TeRead ==
    /\ Pc("TE") = "begin"
    /\ LET t == Ev("TE").of[1]
           new == Ev("TE").new
       IN
       \/ /\ new \notin {"fin", "na", "ip"} /\ Ev("TE").old \notin {"fin", "na"}
          /\ Done("TE") /\ UNCHANGED <<inbox, active>>
       \/ /\ new \in {"fin", "na", "ip"} \/ Ev("TE").old \in {"fin", "na"}
          /\ IF task[t] = None THEN Raise("TE")
             ELSE /\ IF new \in {"fin", "na"} THEN Goto("TE", "tasks")
                     ELSE IF new = "ip" /\ task[t] # "ip" THEN Done("TE")
                     ELSE Goto("TE", "asset")
                  /\ UNCHANGED <<inbox, active>>
    /\ UNCHANGED <<fields, byHand, bounds>>

\* The status of the event's own task decides.
TeTasksOfEvent ==
    /\ Pc("TE") = "tasks"
    /\ IF \E t \in Live : task[t] = "fin"
       THEN Goto("TE", "asset") ELSE Done("TE")
    /\ NoUpdate

\* All tasks are final, and not all of them are not applicable.
TeTasks ==
    /\ Pc("TE") = "tasks"
    /\ IF /\ \A t \in Live : task[t] \in {"fin", "na"}
          /\ \E t \in Live : task[t] # "na"
       THEN Goto("TE", "asset") ELSE Done("TE")
    /\ NoUpdate

\* An asset on hold left alone.
TeAssetKeepsHold ==
    /\ Pc("TE") = "asset"
    /\ IF \/ Ev("TE").new \in {"fin", "na"} /\ asset # "na"
          \/ Ev("TE").new = "ip" /\ asset # "hld"
          \/ Ev("TE").new = "hld" /\ asset = "fin"
       THEN Goto("TE", "write") ELSE Done("TE")
    /\ NoUpdate

TeAsset ==
    /\ Pc("TE") = "asset"
    /\ IF \/ Ev("TE").new \in {"fin", "na"} /\ asset # "na"
          \/ Ev("TE").new = "ip"
          \/ Ev("TE").new = "hld" /\ asset = "fin"
       THEN Goto("TE", "write") ELSE Done("TE")
    /\ NoUpdate

TeWrite ==
    LET new == IF Ev("TE").new \in {"fin", "na"} THEN "fin" ELSE "ip" IN
    /\ Pc("TE") = "write"
    /\ asset' = new
    /\ byHand' = (byHand /\ asset = new)
    /\ inbox' = Deliver(inbox, active, Changes(asset, new, <<Asset>>))
    /\ Done("TE")
    /\ UNCHANGED <<task, version, dated, described, active, bounds>>

\* ET: entity_status_update_task_status acts on a hold that still stands, ...
EtRead ==
    /\ Pc("ET") = "begin"
    /\ IF Ev("ET").new = "hld" /\ asset = "hld"
       THEN run' = [run EXCEPT !["ET"].pc = "tasks", !["ET"].describe = ~described]
       ELSE Done("ET")
    /\ NoUpdate

\* ... looks for the tasks that are open, ...
EtTasks ==
    /\ Pc("ET") = "tasks"
    /\ run' = [run EXCEPT !["ET"].pc = "write",
                    !["ET"].found = {t \in Live : task[t] \notin {"fin", "na", "hld"}}]
    /\ NoUpdate

\* ... and puts them on hold in one batch, whatever they are by now.
EtWrite ==
    LET Held == Ev("ET").found
        Holds == {[of |-> <<t>>, old |-> task[t], new |-> "hld"] :
                    t \in {u \in Held : task[u] # "hld"}}
    IN
    /\ Pc("ET") = "write"
    /\ IF Held \subseteq Live
       THEN /\ task' = [t \in Task |-> IF t \in Held THEN "hld" ELSE task[t]]
            /\ described' = (described \/ Ev("ET").describe)
            /\ \E events \in InAnyOrder(Holds) : inbox' = Deliver(inbox, active, events)
            /\ Done("ET") /\ UNCHANGED active
       ELSE Raise("ET") /\ UNCHANGED <<task, described>>
    /\ UNCHANGED <<version, dated, asset, byHand, bounds>>

-----------------------------------------------------------------------------
HasRoom == \A p \in Plugins : Len(inbox'[p]) <= MaxInbox

Next ==
    /\ \/ SetTask \/ SetVersion \/ SetAsset \/ DeleteTask
       \/ \E p \in Plugins : Take(p)
       \/ TvRead \/ TvWrite \/ VtRead \/ VtWrite
       \/ TeRead \/ TeTasks \/ TeAsset \/ TeWrite
       \/ EtRead \/ EtTasks \/ EtWrite
    /\ HasRoom

Spec == Init /\ [][Next]_vars

-----------------------------------------------------------------------------
Status == TaskStatus \cup VersionStatus
Entity == {<<t>> : t \in Task} \cup Version \cup {<<Asset>>}
Event == [of : Entity, old : Status, new : Status]

\* Type invariant: the fields in Shotgun and the plugins.
TypeOK ==
    /\ task \in [Task -> TaskStatus \cup {None}]
    /\ version \in [Version -> VersionStatus]
    /\ dated \subseteq Version
    /\ asset \in TaskStatus /\ described \in BOOLEAN
    /\ inbox \in [Plugins -> Seq(Event)]
    /\ run \in [Plugins ->
            [pc : {"idle", "begin", "tasks", "asset", "write"},
             of : Entity \cup {NoEntity}, old : Status \cup {None},
             new : Status \cup {None}, seen : Status \cup {None},
             found : SUBSET Task, describe : BOOLEAN]]
    /\ active \subseteq Plugins /\ byHand \in BOOLEAN
    /\ bounds \in [edits : 0 .. MaxEdits, deletes : 0 .. MaxDeletes]

Quiet(p) == p \in active /\ Pc(p) = "idle" /\ inbox[p] = <<>>

\* When both plugins have nothing left to do, a task and its latest version agree
\* by one mapping or the other, in whatever order people and plugins wrote
\* (task_status_update_version_status.py:92).
VersionInStep ==
    Quiet("TV") /\ Quiet("VT") =>
        \A t \in Live : VersionsOf[t] > 0 => InStep(t)

\* When the plugin has nothing left to do, an asset that it has finished has no task
\* in progress, though the tasks are read before the asset is written
\* (task_status_update_entity_status.py:108).
NoFinWhileInProgress ==
    Quiet("TE") /\ asset = "fin" /\ ~byHand => \A t \in Task : task[t] # "ip"

\* When both plugins have nothing left to do, nobody works on an asset on hold: a
\* task that is taken up again after the hold takes the asset up as well
\* (entity_status_update_task_status.py:231).
NoWorkOnHeldAsset ==
    Quiet("TE") /\ Quiet("ET") /\ asset = "hld" => \A t \in Task : task[t] # "ip"

\* When the plugin has nothing left to do, every approved version has the date of an
\* approval, whoever approved it (version_status_update_task_status.py:127).
ApprovalDated ==
    Quiet("VT") => \A v \in Version : version[v] = "apr" => v \in dated

-----------------------------------------------------------------------------
(* What the safety properties rest on                                      *)

\* A plugin hears of what it has registered for only, and writes what it may.
HeardInv ==
    /\ \A p \in Plugins :
        /\ \A i \in DOMAIN inbox[p] : Listens(p, inbox[p][i])
        /\ Pc(p) # "idle" => Listens(p, Ev(p))
    /\ Pc("TV") = "write" =>
        VersionsOf[Ev("TV").of[1]] > 0 /\ Ev("TV").seen \in VersionStatus
    /\ Pc("VT") = "write" => Ev("VT").seen \in TaskStatus \cup {None}

\* The event that gave an entity this status waits for the plugin.
Queued(p, entity, status) ==
    \E i \in DOMAIN inbox[p] :
        inbox[p][i].of = entity /\ inbox[p][i].new = status

\* The plugin has the entity's event in hand, and not yet read its status, ...
Reads(p, entity) == Pc(p) = "begin" /\ Ev(p).of = entity
\* ... or is about to write what follows from it.
Writes(p, entity) == Pc(p) = "write" /\ Ev(p).of = entity

\* The latest version of t is still to follow the task, or the task it.
TvOwes(t) ==
    \/ Queued("TV", <<t>>, task[t]) \/ Reads("TV", <<t>>)
    \/ Writes("TV", <<t>>) /\ Ev("TV").seen = VersionMapping[task[t]]
VtOwes(v) ==
    \/ Queued("VT", v, version[v]) \/ Reads("VT", v)
    \/ Writes("VT", v) /\ Ev("VT").seen = TaskMapping[version[v]]

StepInv ==
    {"TV", "VT"} \subseteq active =>
        \A t \in Live : VersionsOf[t] > 0 =>
            InStep(t) \/ TvOwes(t) \/ VtOwes(Latest(t))

\* The date of an approval is still to be written.
DateInv ==
    "VT" \in active =>
        \A v \in Version : version[v] = "apr" =>
            \/ v \in dated \/ Queued("VT", v, "apr") \/ Reads("VT", v)
            \/ Writes("VT", v) /\ Ev("VT").describe

\* TE is still to take the asset up because t is worked on.
TeOwes(t) ==
    \/ Queued("TE", <<t>>, "ip")
    \/ Ev("TE").new = "ip" /\ (Reads("TE", <<t>>) \/ Pc("TE") \in {"asset", "write"})

\* TE finishes the asset only while all who took up a task since are heard later.
FinInv ==
    "TE" \in active =>
        \A t \in Task : task[t] = "ip" =>
            /\ asset = "fin" /\ ~byHand => TeOwes(t)
            /\ Pc("TE") \in {"asset", "write"} /\ Ev("TE").new \in {"fin", "na"}
               => Queued("TE", <<t>>, "ip")

\* ET is still to put t on hold.
EtOwes(t) ==
    \/ Queued("ET", <<Asset>>, "hld")
    \/ Reads("ET", <<Asset>>) /\ Ev("ET").new = "hld"
    \/ Pc("ET") = "tasks"
    \/ Pc("ET") = "write" /\ t \in Ev("ET").found

HoldInv ==
    {"TE", "ET"} \subseteq active /\ asset = "hld" =>
        \A t \in Task : task[t] = "ip" => TeOwes(t) \/ EtOwes(t)

\* Whenever two statuses disagree, some plugin still has to hear of the later change,
\* or is about to write what follows from it (task_status_update_version_status.py:92,
\* version_status_update_task_status.py:127, task_status_update_entity_status.py:108,
\* entity_status_update_task_status.py:231).
SyncInv == /\ TypeOK /\ HeardInv
           /\ StepInv /\ DateInv /\ FinInv /\ HoldInv

=============================================================================
