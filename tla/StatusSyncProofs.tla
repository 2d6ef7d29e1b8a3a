--------------------------- MODULE StatusSyncProofs ---------------------------
(***************************************************************************)
(* Theorems about StatusSync for every number of tasks and versions, any   *)
(* mappings of their statuses and any bounds: in the end the statuses of   *)
(* an asset, its tasks and their versions agree.                           *)
(*                                                                         *)
(* A plugin writes what it has read some time before, so that statuses may *)
(* disagree at any moment; the invariant says who is still to act on it.   *)
(* Three facts carry the proof: whoever is active gets an event of every   *)
(* change of a status (StepEffects), an event that waits is not lost but   *)
(* taken in hand (Waits), and what a plugin that has an event in hand      *)
(* reads now is the status as it stands, whoever wrote it last.            *)
(***************************************************************************)
EXTENDS StatusSync, SequenceTheorems, FiniteSetTheorems, TLAPS

USE DEF vars, fields

-----------------------------------------------------------------------------
(* Entities and events *)

\* The three kinds of entities, told apart by their names.
LEMMA Entities ==
    /\ Task \subseteq Nat \ {0} /\ IsFiniteSet(Task)
    /\ \A t \in Task : /\ <<t>> \in Entity /\ Len(<<t>>) = 1 /\ <<t>>[1] = t
                       /\ <<t>> # <<Asset>>
    /\ <<Asset>> \in Entity /\ Len(<<Asset>>) = 1
    /\ \A v \in Version : /\ v \in Entity /\ Len(v) = 2 /\ v # <<Asset>>
                          /\ v[1] \in Task /\ VersionsOf[v[1]] \in Nat \ {0}
    /\ \A t \in Task : VersionsOf[t] > 0 => Latest(t) \in Version
<1>1. NumTasks \in Nat /\ \A t \in Task : VersionsOf[t] \in Nat
  BY StatusSyncAssumption
<1>2. Task \subseteq Nat \ {0} /\ IsFiniteSet(Task)
  BY <1>1, FS_Interval DEF Task
<1>3. ASSUME NEW t \in Task
      PROVE  /\ <<t>> \in Entity /\ Len(<<t>>) = 1 /\ <<t>>[1] = t
             /\ <<t>> # <<Asset>>
  <2>1. t # Asset
    BY <1>2 DEF Asset
  <2> QED BY <2>1 DEF Entity
<1>4. <<Asset>> \in Entity /\ Len(<<Asset>>) = 1
  BY DEF Entity
<1>5. ASSUME NEW v \in Version
      PROVE  /\ v \in Entity /\ Len(v) = 2 /\ v # <<Asset>>
             /\ v[1] \in Task /\ VersionsOf[v[1]] \in Nat \ {0}
  <2>1. PICK t \in Task : \E i \in 1 .. VersionsOf[t] : v = <<t, i>>
    BY <1>5 DEF Version
  <2>2. v[1] = t /\ Len(v) = 2
    BY <2>1
  <2>3. VersionsOf[t] \in Nat \ {0}
    BY <1>1, <2>1
  <2>4. Len(<<Asset>>) = 1
    OBVIOUS
  <2> QED BY <2>1, <2>2, <2>3, <2>4 DEF Entity
<1>6. ASSUME NEW t \in Task, VersionsOf[t] > 0
      PROVE  Latest(t) \in Version
  <2>1. VersionsOf[t] \in 1 .. VersionsOf[t]
    BY <1>1, <1>6
  <2>2. Latest(t) \in {<<t, i>> : i \in 1 .. VersionsOf[t]}
    BY <2>1 DEF Latest
  <2> QED BY <2>2 DEF Version
<1> QED BY <1>2, <1>3, <1>4, <1>5, <1>6

\* Which plugins hear of which kind.
LEMMA Hearing ==
    ASSUME NEW e, e.of \in Entity
    PROVE  /\ Listens("TV", e) <=> \E t \in Task : e.of = <<t>>
           /\ Listens("TE", e) <=> \E t \in Task : e.of = <<t>>
           /\ Listens("VT", e) <=> e.of \in Version
           /\ Listens("ET", e) <=> e.of = <<Asset>>
<1>1. \/ \E t \in Task : e.of = <<t>>
      \/ e.of \in Version
      \/ e.of = <<Asset>>
  BY DEF Entity
<1>2. CASE \E t \in Task : e.of = <<t>>
  BY <1>2, Entities DEF Listens, TvListens, VtListens, TeListens, EtListens
<1>3. CASE e.of \in Version
  BY <1>3, Entities DEF Listens, TvListens, VtListens, TeListens, EtListens
<1>4. CASE e.of = <<Asset>>
  BY <1>4, Entities DEF Listens, TvListens, VtListens, TeListens, EtListens
<1> QED BY <1>1, <1>2, <1>3, <1>4

\* A plugin listens to what an event is of, whatever its values are.
LEMMA SameHearing ==
    ASSUME NEW p \in Plugins, NEW d, NEW e, d.of = e.of
    PROVE  Listens(p, d) <=> Listens(p, e)
BY DEF Listens, TvListens, VtListens, TeListens, EtListens

-----------------------------------------------------------------------------
(* What an update does to the inboxes *)

Heard == \A p \in Plugins : \A i \in DOMAIN inbox[p] : Listens(p, inbox[p][i])

\* An event waits after the step.
Queues(p, entity, status) ==
    \E i \in DOMAIN inbox'[p] :
        inbox'[p][i].of = entity /\ inbox'[p][i].new = status

\* Nothing that waits is lost.
Kept == \A p \in Plugins : \A of, new : Queued(p, of, new) => Queues(p, of, new)

\* Everybody who is active and listens hears of each event of an update.
LEMMA Delivered ==
    ASSUME inbox \in [Plugins -> Seq(Event)], NEW events \in Seq(Event),
           inbox' = Deliver(inbox, active, events)
    PROVE  /\ inbox' \in [Plugins -> Seq(Event)] /\ Kept
           /\ Heard => Heard'
           /\ \A p \in Plugins \cap active :
                (\A i \in DOMAIN events : Listens(p, events[i]))
                => \A k \in DOMAIN events : Queues(p, events[k].of, events[k].new)
<1>1. ASSUME NEW p \in Plugins
      PROVE  \/ inbox'[p] = inbox[p]
             \/ /\ inbox'[p] = inbox[p] \o events
                /\ \A i \in DOMAIN events : Listens(p, events[i])
  BY <1>1 DEF Deliver
<1>2. ASSUME NEW p \in Plugins
      PROVE  inbox[p] \in Seq(Event) /\ inbox[p] \o events \in Seq(Event)
  BY <1>2
<1>3. inbox' \in [Plugins -> Seq(Event)]
  BY <1>2 DEF Deliver
<1>4. ASSUME NEW p \in Plugins, NEW i \in DOMAIN inbox[p],
             inbox'[p] = inbox[p] \o events
      PROVE  i \in DOMAIN inbox'[p] /\ inbox'[p][i] = inbox[p][i]
  BY <1>2, <1>4
<1>5. Kept
  BY <1>1, <1>4 DEF Kept, Queued, Queues
<1>6. ASSUME Heard PROVE Heard'
  <2>1. ASSUME NEW p \in Plugins, NEW i \in DOMAIN inbox'[p]
        PROVE  Listens(p, inbox'[p][i])
    <3>1. CASE inbox'[p] = inbox[p]
      BY <1>6, <2>1, <3>1 DEF Heard
    <3>2. CASE /\ inbox'[p] = inbox[p] \o events
               /\ \A j \in DOMAIN events : Listens(p, events[j])
      <4>1. \/ i \in DOMAIN inbox[p] /\ inbox'[p][i] = inbox[p][i]
            \/ \E j \in DOMAIN events : inbox'[p][i] = events[j]
        <5>1. Len(inbox[p]) \in Nat /\ Len(events) \in Nat
          BY <1>2
        <5>2. i \in 1 .. (Len(inbox[p]) + Len(events))
          BY <1>2, <2>1, <3>2
        <5>3. CASE i <= Len(inbox[p])
          BY <1>2, <3>2, <5>1, <5>2, <5>3
        <5>4. CASE ~(i <= Len(inbox[p]))
          <6>1. i - Len(inbox[p]) \in DOMAIN events
            BY <5>1, <5>2, <5>4
          <6>2. inbox'[p][i] = events[i - Len(inbox[p])]
            BY <1>2, <3>2, <5>1, <5>2, <5>4
          <6> QED BY <6>1, <6>2
        <5> QED BY <5>3, <5>4
      <4> QED BY <1>6, <3>2, <4>1 DEF Heard
    <3> QED BY <1>1, <3>1, <3>2
  <2> QED BY <2>1 DEF Heard
<1>7. ASSUME NEW p \in Plugins \cap active, NEW k \in DOMAIN events,
             \A i \in DOMAIN events : Listens(p, events[i])
      PROVE  Queues(p, events[k].of, events[k].new)
  <2>1. inbox'[p] = inbox[p] \o events
    BY <1>7 DEF Deliver
  <2>2. Len(inbox[p]) + k \in DOMAIN inbox'[p]
    BY <1>2, <1>7, <2>1
  <2>3. inbox'[p][Len(inbox[p]) + k] = events[k]
    BY <1>2, <1>7, <2>1
  <2> QED BY <2>2, <2>3 DEF Queues
<1> QED BY <1>3, <1>5, <1>6, <1>7

\* An update of one entity.
LEMMA Told ==
    ASSUME inbox \in [Plugins -> Seq(Event)], NEW of \in Entity,
           NEW before \in Status, NEW after \in Status,
           inbox' = Deliver(inbox, active, Changes(before, after, of))
    PROVE  /\ inbox' \in [Plugins -> Seq(Event)] /\ Kept /\ (Heard => Heard')
           /\ before # after =>
                /\ (\E t \in Task : of = <<t>>) =>
                      \A p \in {"TV", "TE"} \cap active : Queues(p, of, after)
                /\ of \in Version /\ "VT" \in active => Queues("VT", of, after)
                /\ of = <<Asset>> /\ "ET" \in active => Queues("ET", of, after)
<1> DEFINE e == [of |-> of, old |-> before, new |-> after]
           events == Changes(before, after, of)
<1>1. e \in Event /\ e.of = of /\ e.new = after
  BY DEF Event
<1>2. events \in Seq(Event)
  BY <1>1 DEF Changes
<1>3. ASSUME before # after
      PROVE  DOMAIN events = {1} /\ events[1] = e
  BY <1>3 DEF Changes
<1>4. /\ inbox' \in [Plugins -> Seq(Event)] /\ Kept /\ (Heard => Heard')
      /\ \A p \in Plugins \cap active :
                (\A i \in DOMAIN events : Listens(p, events[i]))
                => \A k \in DOMAIN events : Queues(p, events[k].of, events[k].new)
  BY <1>2, Delivered
<1>5. ASSUME before # after, NEW p \in Plugins \cap active, Listens(p, e)
      PROVE  Queues(p, of, after)
  <2> HIDE DEF events, e
  <2> QED BY <1>1, <1>3, <1>4, <1>5
<1>6. Plugins = {"TV", "VT", "TE", "ET"}
  BY DEF Plugins
<1> HIDE DEF e, events
<1> QED BY <1>1, <1>4, <1>5, <1>6, Hearing

\* A batch of holds: every event of it reaches those who listen to tasks.
LEMMA Batched ==
    ASSUME inbox \in [Plugins -> Seq(Event)], NEW Held \in SUBSET Task,
           \A t \in Held : task[t] \in Status,
           NEW events \in InAnyOrder({[of |-> <<t>>, old |-> task[t], new |-> "hld"] :
                                        t \in {u \in Held : task[u] # "hld"}}),
           inbox' = Deliver(inbox, active, events)
    PROVE  /\ inbox' \in [Plugins -> Seq(Event)] /\ Kept /\ (Heard => Heard')
           /\ \A t \in Held : task[t] # "hld" =>
                \A p \in {"TV", "TE"} \cap active : Queues(p, <<t>>, "hld")
<1> DEFINE EventOf(t) == [of |-> <<t>>, old |-> task[t], new |-> "hld"]
           Changed == {u \in Held : task[u] # "hld"}
           Holds == {EventOf(t) : t \in Changed}
           n == Cardinality(Holds)
<1>1. n \in Nat
  <2>1. IsFiniteSet(Changed)
    BY Entities, FS_Subset
  <2>2. IsFiniteSet(Holds)
    <3> DEFINE f == [t \in Changed |-> EventOf(t)]
    <3>1. f \in Surjection(Changed, Holds)
      BY DEF Surjection
    <3> QED BY <2>1, <3>1, FS_Surjection
  <2> QED BY <2>2, FS_CardinalityType
<1>2. events \in [1 .. n -> Holds] /\ \A e \in Holds : \E i \in 1 .. n : events[i] = e
  BY DEF InAnyOrder, Bijection, Surjection, Injection
<1>3. ASSUME NEW t \in Changed
      PROVE  EventOf(t) \in Event /\ EventOf(t).of = <<t>> /\ EventOf(t).new = "hld"
  BY Entities DEF Event, Status, TaskStatus
<1>4. Holds \subseteq Event
  BY <1>3
<1>5. events \in Seq(Event)
  <2> HIDE DEF Holds, n
  <2> QED BY <1>1, <1>2, <1>4
<1>6. /\ inbox' \in [Plugins -> Seq(Event)] /\ Kept /\ (Heard => Heard')
      /\ \A p \in Plugins \cap active :
                (\A i \in DOMAIN events : Listens(p, events[i]))
                => \A k \in DOMAIN events : Queues(p, events[k].of, events[k].new)
  BY <1>5, Delivered
<1>7. ASSUME NEW p \in {"TV", "TE"}, NEW i \in DOMAIN events
      PROVE  Listens(p, events[i])
  <2>1. PICK t \in Changed : events[i] = EventOf(t)
    BY <1>2
  <2>2. events[i].of = <<t>> /\ t \in Task /\ <<t>> \in Entity
    BY <1>3, <2>1, Entities
  <2> HIDE DEF EventOf
  <2> QED BY <2>2, Hearing
<1>8. ASSUME NEW t \in Held, task[t] # "hld", NEW p \in {"TV", "TE"} \cap active
      PROVE  Queues(p, <<t>>, "hld")
  <2>1. PICK i \in DOMAIN events : events[i] = EventOf(t)
    BY <1>2, <1>8
  <2>2. p \in Plugins
    BY DEF Plugins
  <2>3. events[i].of = <<t>> /\ events[i].new = "hld"
    BY <2>1
  <2> HIDE DEF EventOf, Holds, n
  <2> QED BY <1>6, <1>7, <2>2, <2>3
<1> QED BY <1>6, <1>8

-----------------------------------------------------------------------------
(* What a step does *)

\* The plugins and the people, one by one.
LEMMA Steps ==
    ASSUME [Next]_vars
    PROVE  \/ SetTask \/ SetVersion \/ SetAsset \/ DeleteTask
           \/ \E p \in Plugins : Take(p)
           \/ TvRead \/ TvWrite \/ VtRead \/ VtWrite
           \/ TeRead \/ TeTasks \/ TeAsset \/ TeWrite
           \/ EtRead \/ EtTasks \/ EtWrite
           \/ UNCHANGED vars
BY DEF Next

\* The types that the steps below need, taken apart.
LEMMA Typed ==
    ASSUME TypeOK, HeardInv
    PROVE  /\ \A t \in Task : task[t] \in Status \cup {None}
           /\ \A t \in Live : t \in Task /\ task[t] \in Status
           /\ \A v \in Version : version[v] \in Status
           /\ asset \in Status /\ TaskStatus \subseteq Status
           /\ \A p \in Plugins : inbox[p] \in Seq(Event)
           /\ Pc("TV") # "idle" => \E t \in Task : Ev("TV").of = <<t>>
           /\ Pc("TE") # "idle" => \E t \in Task : Ev("TE").of = <<t>>
           /\ Pc("VT") # "idle" => Ev("VT").of \in Version
           /\ Pc("ET") # "idle" => Ev("ET").of = <<Asset>>
           /\ Ev("ET").found \subseteq Task
           /\ Heard
<1> USE DEF TypeOK, Status, Live
<1>1. ASSUME NEW p \in Plugins, Pc(p) # "idle"
      PROVE  Ev(p).of \in Entity /\ Listens(p, Ev(p))
  <2>1. Listens(p, Ev(p))
    BY <1>1 DEF HeardInv
  <2>2. Ev(p).of \in Entity \cup {NoEntity}
    BY DEF Ev
  <2>3. Ev(p).of # NoEntity
    <3>1. NoEntity # <<Asset>> /\ Len(NoEntity) # 1 /\ Len(NoEntity) # 2
      BY DEF NoEntity
    <3>2. \/ Len(Ev(p).of) = 1 \/ Len(Ev(p).of) = 2 \/ Ev(p).of = <<Asset>>
      BY <2>1, Zenon DEF Listens, TvListens, VtListens, TeListens, EtListens
    <3> QED BY <3>1, <3>2
  <2> QED BY <2>1, <2>2, <2>3
<1>2. Pc("TV") # "idle" => \E t \in Task : Ev("TV").of = <<t>>
  BY <1>1, Hearing DEF Plugins
<1>3. Pc("TE") # "idle" => \E t \in Task : Ev("TE").of = <<t>>
  BY <1>1, Hearing DEF Plugins
<1>4. Pc("VT") # "idle" => Ev("VT").of \in Version
  BY <1>1, Hearing DEF Plugins
<1>5. Pc("ET") # "idle" => Ev("ET").of = <<Asset>>
  BY <1>1, Hearing DEF Plugins
<1>6. Heard
  BY DEF HeardInv, Heard
<1> QED BY <1>2, <1>3, <1>4, <1>5, <1>6 DEF Plugins, Ev

\* Whoever is active has an event of every change that was made to the task.
TaskNews ==
    \A t \in Task : task'[t] # task[t] /\ task'[t] # None =>
        \A p \in {"TV", "TE"} \cap active' : Queues(p, <<t>>, task'[t])
VersionNews ==
    \A v \in Version : version'[v] # version[v] /\ "VT" \in active' =>
        Queues("VT", v, version'[v])
AssetNews ==
    asset' # asset /\ "ET" \in active' => Queues("ET", <<Asset>>, asset')

\* What waits for p waits on, or p takes it in hand.
Waits(p) ==
    p \in active' => \A of, new : Queued(p, of, new) =>
        \/ Queues(p, of, new)
        \/ run'[p].pc = "begin" /\ run'[p].of = of /\ run'[p].new = new

\* What a step does to the fields and the inboxes.
StepEffect ==
    /\ TaskNews /\ VersionNews /\ AssetNews
    /\ \A p \in Plugins : Waits(p)
    /\ \A t \in Task : task[t] = None => task'[t] = None
    /\ active' \subseteq active

LEMMA StepEffects ==
    ASSUME TypeOK, HeardInv, [Next]_vars
    PROVE  StepEffect
<1> USE DEF StepEffect, TaskNews, VersionNews, AssetNews
<1>1. inbox \in [Plugins -> Seq(Event)] /\ DOMAIN run = Plugins
  BY DEF TypeOK
<1>2. ASSUME Kept, NEW p \in Plugins
      PROVE  Waits(p)
  BY <1>2 DEF Kept, Waits
<1>3. ASSUME UNCHANGED inbox
      PROVE  Kept
  BY <1>3 DEF Kept, Queued, Queues
<1>4. CASE SetTask
  <2>1. PICK t \in Live, s \in TaskStatus :
          /\ s # task[t] /\ task' = [task EXCEPT ![t] = s]
          /\ inbox' = Deliver(inbox, active, Changes(task[t], s, <<t>>))
    BY <1>4 DEF SetTask
  <2>2. t \in Task /\ <<t>> \in Entity /\ task[t] \in Status /\ s \in Status
    BY Typed, Entities DEF Status
  <2>3. Kept /\ \A p \in {"TV", "TE"} \cap active : Queues(p, <<t>>, s)
    BY <1>1, <2>1, <2>2, Told
  <2>4. \A u \in Task : task'[u] = IF u = t THEN s ELSE task[u]
    BY <2>1, <2>2 DEF TypeOK
  <2>5. task[t] # None
    BY DEF Live
  <2> QED BY <1>2, <1>4, <2>3, <2>4, <2>5 DEF SetTask
<1>5. CASE SetVersion
  <2>1. PICK v \in Version, s \in VersionStatus :
          /\ s # version[v] /\ version' = [version EXCEPT ![v] = s]
          /\ inbox' = Deliver(inbox, active, Changes(version[v], s, v))
    BY <1>5 DEF SetVersion
  <2>2. v \in Entity /\ version[v] \in Status /\ s \in Status
    BY Typed, Entities DEF Status
  <2>3. Kept /\ ("VT" \in active => Queues("VT", v, s))
    BY <1>1, <2>1, <2>2, Told
  <2>4. \A u \in Version : version'[u] = IF u = v THEN s ELSE version[u]
    BY <2>1 DEF TypeOK
  <2> QED BY <1>2, <1>5, <2>3, <2>4 DEF SetVersion
<1>6. CASE SetAsset
  <2>1. PICK s \in TaskStatus :
          /\ s # asset /\ asset' = s
          /\ inbox' = Deliver(inbox, active, Changes(asset, s, <<Asset>>))
    BY <1>6 DEF SetAsset
  <2>2. Kept /\ ("ET" \in active => Queues("ET", <<Asset>>, s))
    BY <1>1, <2>1, Told, Typed, Entities DEF Status
  <2> QED BY <1>2, <1>6, <2>1, <2>2 DEF SetAsset
<1>7. CASE DeleteTask
  <2>1. PICK t \in Live : task' = [task EXCEPT ![t] = None]
    BY <1>7 DEF DeleteTask
  <2>2. \A u \in Task : task'[u] \in {task[u], None}
    BY <2>1 DEF TypeOK, Live
  <2> QED BY <1>2, <1>3, <1>7, <2>2 DEF DeleteTask
<1>8. ASSUME NEW q \in Plugins, Take(q)
      PROVE  StepEffect
  <2>1. ASSUME NEW p \in Plugins \ {q}
        PROVE  Waits(p)
    BY <1>1, <1>8 DEF Take, Waits, Queued, Queues
  <2>2. inbox[q] \in Seq(Event) /\ inbox[q] # <<>>
    BY <1>1, <1>8 DEF Take
  <2>3. inbox'[q] = Tail(inbox[q]) /\ run'[q].pc = "begin"
        /\ run'[q].of = Head(inbox[q]).of /\ run'[q].new = Head(inbox[q]).new
    BY <1>1, <1>8 DEF Take, Idle
  <2>4. ASSUME NEW i \in DOMAIN inbox[q]
        PROVE  \/ inbox[q][i] = Head(inbox[q])
               \/ \E j \in DOMAIN inbox'[q] : inbox'[q][j] = inbox[q][i]
    <3>1. CASE i = 1
      BY <2>2, <3>1
    <3>2. CASE i # 1
      <4>1. i - 1 \in DOMAIN Tail(inbox[q]) /\ Tail(inbox[q])[i - 1] = inbox[q][i]
        BY <2>2, <3>2
      <4> QED BY <2>3, <4>1
    <3> QED BY <3>1, <3>2
  <2>5. Waits(q)
    BY <2>3, <2>4 DEF Waits, Queued, Queues
  <2> QED BY <1>8, <2>1, <2>5 DEF Take
<1>9. ASSUME NoUpdate PROVE StepEffect
  BY <1>2, <1>3, <1>9 DEF NoUpdate
<1>10. CASE TvWrite
  <2>1. PICK t \in Task : Ev("TV").of = <<t>> /\ Ev("TV").of[1] = t
    BY <1>10, Typed, Entities DEF TvWrite
  <2> DEFINE v == Latest(t)
             s == Ev("TV").seen
  <2>2. v \in Version /\ s \in VersionStatus
    BY <1>10, <2>1, Entities DEF TvWrite, HeardInv
  <2>3. /\ version' = [version EXCEPT ![v] = s]
        /\ inbox' = Deliver(inbox, active, Changes(version[v], s, v))
    BY <1>10, <2>1 DEF TvWrite
  <2> HIDE DEF v, s
  <2>4. Kept /\ (version[v] # s /\ "VT" \in active => Queues("VT", v, s))
    BY <1>1, <2>2, <2>3, Told, Typed, Entities DEF Status
  <2>5. \A u \in Version : version'[u] = IF u = v THEN s ELSE version[u]
    BY <2>2, <2>3 DEF TypeOK
  <2> QED BY <1>2, <1>10, <2>4, <2>5 DEF TvWrite
<1>11. CASE VtWrite
  <2> DEFINE v == Ev("VT").of
             t == v[1]
             new == Ev("VT").seen
  <2>1. v \in Version /\ t \in Task /\ <<t>> \in Entity /\ new \in TaskStatus \cup {None}
    BY <1>11, Typed, Entities DEF VtWrite, HeardInv
  <2>2. CASE new # None /\ task[t] = None
    <3>1. /\ active' = active \ {"VT"}
          /\ inbox' = [inbox EXCEPT !["VT"] = <<>>]
          /\ UNCHANGED <<task, version, asset>>
      BY <1>11, <2>2 DEF VtWrite, Raise
    <3>2. \A p \in Plugins : Waits(p)
      BY <1>1, <3>1 DEF Waits, Queued, Queues
    <3> QED BY <3>1, <3>2
  <2>3. CASE ~(new # None /\ task[t] = None)
    <3>1. /\ task' = IF new = None THEN task ELSE [task EXCEPT ![t] = new]
          /\ inbox' = Deliver(inbox, active, Changes(task[t], task'[t], <<t>>))
          /\ UNCHANGED <<active, version, asset>>
      BY <1>11, <2>3 DEF VtWrite
    <3>2. CASE new = None
      <4>1. inbox' = inbox
        <5>1. inbox' = Deliver(inbox, active, <<>>)
          BY <3>1, <3>2 DEF Changes
        <5>2. \A p \in Plugins : inbox[p] \o <<>> = inbox[p]
          BY <1>1
        <5> QED BY <1>1, <5>1, <5>2 DEF Deliver
      <4> QED BY <1>2, <1>3, <3>1, <3>2, <4>1
    <3>3. CASE new # None
      <4> HIDE DEF v, t, new
      <4>1. \A u \in Task : task'[u] = IF u = t THEN new ELSE task[u]
        BY <2>1, <3>1, <3>3 DEF TypeOK
      <4>2. task[t] \in Status /\ new \in Status /\ task[t] # None
        BY <2>1, <2>3, <3>3, Typed DEF Status
      <4>3. Kept /\ (task[t] # new =>
                       \A p \in {"TV", "TE"} \cap active : Queues(p, <<t>>, new))
        BY <1>1, <2>1, <3>1, <4>1, <4>2, Told
      <4> QED BY <1>2, <3>1, <4>1, <4>2, <4>3
    <3> QED BY <3>2, <3>3
  <2> QED BY <2>2, <2>3
<1>12. CASE TeRead
  <2>1. \/ NoUpdate
        \/ /\ active' = active \ {"TE"}
           /\ inbox' = [inbox EXCEPT !["TE"] = <<>>]
           /\ UNCHANGED fields
    BY <1>12 DEF TeRead, Raise, NoUpdate
  <2>2. ASSUME active' = active \ {"TE"}, inbox' = [inbox EXCEPT !["TE"] = <<>>]
        PROVE  \A p \in Plugins : Waits(p)
    BY <1>1, <2>2 DEF Waits, Queued, Queues
  <2> QED BY <1>9, <2>1, <2>2
<1>13. CASE TeWrite
  <2>1. PICK new \in {"fin", "ip"} :
          /\ asset' = new
          /\ inbox' = Deliver(inbox, active, Changes(asset, new, <<Asset>>))
    BY <1>13 DEF TeWrite
  <2>2. Kept /\ (asset # new /\ "ET" \in active => Queues("ET", <<Asset>>, new))
    BY <1>1, <2>1, Told, Typed, Entities DEF Status, TaskStatus
  <2> QED BY <1>2, <1>13, <2>1, <2>2 DEF TeWrite
<1>14. CASE EtWrite
  <2> DEFINE Held == Ev("ET").found
  <2>1. CASE ~(Held \subseteq Live)
    <3>1. /\ active' = active \ {"ET"}
          /\ inbox' = [inbox EXCEPT !["ET"] = <<>>]
          /\ UNCHANGED <<task, version, asset>>
      BY <1>14, <2>1 DEF EtWrite, Raise
    <3>2. \A p \in Plugins : Waits(p)
      BY <1>1, <3>1 DEF Waits, Queued, Queues
    <3> QED BY <3>1, <3>2
  <2>2. CASE Held \subseteq Live
    <3>1. PICK events \in InAnyOrder({[of |-> <<t>>, old |-> task[t], new |-> "hld"] :
                                        t \in {u \in Held : task[u] # "hld"}}) :
            inbox' = Deliver(inbox, active, events)
      BY <1>14, <2>2 DEF EtWrite
    <3>2. /\ \A t \in Task : task'[t] = IF t \in Held THEN "hld" ELSE task[t]
          /\ UNCHANGED <<active, version, asset>>
      BY <1>14, <2>2 DEF EtWrite
    <3>3. Held \in SUBSET Task /\ \A t \in Held : task[t] \in Status /\ task[t] # None
      BY <2>2, Typed DEF Live
    <3> HIDE DEF Held
    <3>4. Kept /\ \A t \in Held : task[t] # "hld" =>
                    \A p \in {"TV", "TE"} \cap active : Queues(p, <<t>>, "hld")
      BY <1>1, <3>1, <3>3, Batched
    <3> QED BY <1>2, <3>2, <3>3, <3>4
  <2> QED BY <2>1, <2>2
<1>15. CASE \/ TvRead \/ VtRead \/ TeTasks \/ TeAsset \/ EtRead \/ EtTasks
  BY <1>9, <1>15 DEF TvRead, VtRead, TeTasks, TeAsset, EtRead, EtTasks
<1>16. CASE UNCHANGED vars
  BY <1>9, <1>16 DEF NoUpdate
<1> QED BY <1>4, <1>5, <1>6, <1>7, <1>8, <1>10, <1>11, <1>12, <1>13, <1>14, <1>15,
           <1>16, Steps

-----------------------------------------------------------------------------
(* What a step does to a plugin's run *)

\* Every plugin takes its own steps only.
LEMMA RunSteps ==
    ASSUME TypeOK, [Next]_vars
    PROVE  /\ run'["TV"] = run["TV"] \/ Take("TV") \/ TvRead \/ TvWrite
           /\ run'["VT"] = run["VT"] \/ Take("VT") \/ VtRead \/ VtWrite
           /\ \/ run'["TE"] = run["TE"] \/ Take("TE")
              \/ TeRead \/ TeTasks \/ TeAsset \/ TeWrite
           /\ \/ run'["ET"] = run["ET"] \/ Take("ET")
              \/ EtRead \/ EtTasks \/ EtWrite
<1>1. DOMAIN run = Plugins
  BY DEF TypeOK
<1>2. ASSUME NEW p \in Plugins, Take(p)
      PROVE  \A q \in Plugins \ {p} : run'[q] = run[q]
  BY <1>1, <1>2 DEF Take
<1>3. ASSUME UNCHANGED run \/ SetTask \/ SetVersion \/ SetAsset \/ DeleteTask
      PROVE  run' = run
  BY <1>3 DEF SetTask, SetVersion, SetAsset, DeleteTask
<1>4. ASSUME TvRead \/ TvWrite
      PROVE  \A q \in Plugins \ {"TV"} : run'[q] = run[q]
  BY <1>1, <1>4 DEF TvRead, TvWrite, Done
<1>5. ASSUME VtRead \/ VtWrite
      PROVE  \A q \in Plugins \ {"VT"} : run'[q] = run[q]
  BY <1>1, <1>5 DEF VtRead, VtWrite, Done, Raise
<1>6. ASSUME TeRead \/ TeTasks \/ TeAsset \/ TeWrite
      PROVE  \A q \in Plugins \ {"TE"} : run'[q] = run[q]
  BY <1>1, <1>6 DEF TeRead, TeTasks, TeAsset, TeWrite, Done, Raise, Goto
<1>7. ASSUME EtRead \/ EtTasks \/ EtWrite
      PROVE  \A q \in Plugins \ {"ET"} : run'[q] = run[q]
  BY <1>1, <1>7 DEF EtRead, EtTasks, EtWrite, Done, Raise
<1>8. Plugins = {"TV", "VT", "TE", "ET"}
  BY DEF Plugins
<1> QED BY <1>2, <1>3, <1>4, <1>5, <1>6, <1>7, <1>8, Steps

\* The runs that the invariants speak of.
RunType == [pc : {"idle", "begin", "tasks", "asset", "write"},
            of : Entity \cup {NoEntity}, old : Status \cup {None},
            new : Status \cup {None}, seen : Status \cup {None},
            found : SUBSET Task, describe : BOOLEAN]

\* Every plugin's run is well-formed again.
LEMMA RunTyped ==
    ASSUME TypeOK, HeardInv, [Next]_vars
    PROVE  run' \in [Plugins -> RunType]
<1>1. run \in [Plugins -> RunType] /\ DOMAIN run = Plugins
  BY DEF TypeOK, RunType
<1>2. Idle \in RunType
  BY DEF Idle, RunType
<1>3. ASSUME NEW p \in Plugins, NEW e \in RunType, run' = [run EXCEPT ![p] = e]
      PROVE  run' \in [Plugins -> RunType]
  BY <1>1, <1>3
<1>4. ASSUME NEW p \in Plugins, NEW pc \in {"tasks", "asset", "write"}, Goto(p, pc)
      PROVE  run' \in [Plugins -> RunType]
  <2>1. [run[p] EXCEPT !.pc = pc] \in RunType
    BY <1>1 DEF RunType
  <2> QED BY <1>1, <2>1, <1>4 DEF Goto
<1>5. ASSUME NEW p \in Plugins, Done(p) \/ Raise(p) PROVE run' \in [Plugins -> RunType]
  BY <1>1, <1>2, <1>5 DEF Done, Raise
<1>6. ASSUME NEW p \in Plugins, Take(p) PROVE run' \in [Plugins -> RunType]
  <2> DEFINE e == Head(inbox[p])
             r == [Idle EXCEPT !.pc = "begin", !.of = e.of, !.old = e.old, !.new = e.new]
  <2>1. e \in Event
    BY <1>6 DEF Take, TypeOK
  <2>2. r \in RunType
    BY <2>1 DEF Idle, RunType, Event
  <2>3. run' = [run EXCEPT ![p] = r]
    BY <1>6 DEF Take
  <2> HIDE DEF r
  <2> QED BY <1>1, <2>2, <2>3
<1>7. ASSUME NEW p \in Plugins, NEW seen \in Status \cup {None}, NEW describe \in BOOLEAN,
             run' = [run EXCEPT ![p].pc = "write", ![p].seen = seen,
                                ![p].describe = describe]
      PROVE  run' \in [Plugins -> RunType]
  <2>1. [run[p] EXCEPT !.pc = "write", !.seen = seen, !.describe = describe] \in RunType
    BY <1>1 DEF RunType
  <2>2. run' = [run EXCEPT ![p] = [run[p] EXCEPT !.pc = "write", !.seen = seen,
                                                 !.describe = describe]]
    BY <1>1, <1>7
  <2> QED BY <1>1, <2>1, <2>2
<1>8. CASE TvRead
  <2>1. CASE Done("TV")
    BY <1>5, <2>1 DEF Plugins
  <2>2. CASE ~Done("TV")
    <3>1. PICK t \in Task : Ev("TV").of = <<t>> /\ Ev("TV").of[1] = t
      BY <1>8, Typed, Entities DEF TvRead
    <3> DEFINE seen == VersionMapping[task[t]]
    <3>2. seen \in Status \cup {None}
      BY <1>8, <2>2, <3>1, StatusSyncAssumption DEF TvRead, TypeOK, Status
    <3>3. run' = [run EXCEPT !["TV"].pc = "write", !["TV"].seen = seen]
      BY <1>8, <2>2, <3>1 DEF TvRead
    <3> HIDE DEF seen
    <3>4. ASSUME NEW r \in RunType
          PROVE  [r EXCEPT !.pc = "write", !.seen = seen] \in RunType
      BY <3>2 DEF RunType
    <3>5. run' = [run EXCEPT !["TV"] = [run["TV"] EXCEPT !.pc = "write", !.seen = seen]]
      BY <1>1, <3>3
    <3>6. "TV" \in Plugins /\ run["TV"] \in RunType
      BY <1>1 DEF Plugins
    <3> QED BY <1>3, <3>4, <3>5, <3>6
  <2> QED BY <2>1, <2>2
<1>9. CASE VtRead
  <2> DEFINE v == Ev("VT").of
             mapped == TaskMapping[version[v]]
             new == IF task[v[1]] = None \/ mapped = task[v[1]] THEN None ELSE mapped
             describe == version[v] = "apr"
  <2>1. new \in Status \cup {None} /\ describe \in BOOLEAN
    <3>1. v \in Version
      BY <1>9, Typed DEF VtRead
    <3>2. mapped \in TaskStatus \cup {None}
      BY <3>1, StatusSyncAssumption DEF TypeOK
    <3> QED BY <3>2 DEF Status
  <2>2. \/ Done("VT")
        \/ run' = [run EXCEPT !["VT"].pc = "write", !["VT"].seen = new,
                              !["VT"].describe = describe]
    BY <1>9 DEF VtRead
  <2> HIDE DEF new, describe
  <2> QED BY <1>5, <1>7, <2>1, <2>2 DEF Plugins
<1>10. CASE TeRead \/ TeTasks \/ TeAsset \/ TeWrite
  <2>1. \/ Done("TE") \/ Raise("TE")
        \/ \E pc \in {"tasks", "asset", "write"} : Goto("TE", pc)
    BY <1>10 DEF TeRead, TeTasks, TeAsset, TeWrite
  <2> QED BY <1>4, <1>5, <2>1 DEF Plugins
<1>11. CASE TvWrite \/ VtWrite \/ EtWrite
  <2>1. \E p \in Plugins : Done(p) \/ Raise(p)
    BY <1>11 DEF TvWrite, VtWrite, EtWrite, Plugins
  <2> QED BY <1>5, <2>1
<1>12. CASE EtRead
  <2>1. CASE Done("ET")
    BY <1>5, <2>1 DEF Plugins
  <2>2. CASE ~Done("ET")
    <3> DEFINE describe == ~described
    <3>1. describe \in BOOLEAN
      BY DEF TypeOK
    <3>2. run' = [run EXCEPT !["ET"].pc = "tasks", !["ET"].describe = describe]
      BY <1>12, <2>2 DEF EtRead
    <3> HIDE DEF describe
    <3>3. [run["ET"] EXCEPT !.pc = "tasks", !.describe = describe] \in RunType
      BY <1>1, <3>1 DEF RunType, Plugins
    <3>4. run' = [run EXCEPT !["ET"] = [run["ET"] EXCEPT !.pc = "tasks",
                                                         !.describe = describe]]
      BY <1>1, <3>2
    <3> QED BY <1>1, <3>3, <3>4 DEF Plugins
  <2> QED BY <2>1, <2>2
<1>13. CASE EtTasks
  <2> DEFINE found == {t \in Live : task[t] \notin {"fin", "na", "hld"}}
  <2>1. found \in SUBSET Task
    BY DEF Live
  <2>2. run' = [run EXCEPT !["ET"].pc = "write", !["ET"].found = found]
    BY <1>13 DEF EtTasks
  <2> HIDE DEF found
  <2>3. [run["ET"] EXCEPT !.pc = "write", !.found = found] \in RunType
    BY <1>1, <2>1 DEF RunType, Plugins
  <2>4. run' = [run EXCEPT !["ET"] = [run["ET"] EXCEPT !.pc = "write", !.found = found]]
    BY <1>1, <2>2
  <2> QED BY <1>1, <2>3, <2>4 DEF Plugins
<1>14. CASE SetTask \/ SetVersion \/ SetAsset \/ DeleteTask \/ UNCHANGED vars
  BY <1>1, <1>14 DEF SetTask, SetVersion, SetAsset, DeleteTask
<1> QED BY <1>6, <1>8, <1>9, <1>10, <1>11, <1>12, <1>13, <1>14, Steps

-----------------------------------------------------------------------------
(* Types *)

\* The fields keep their types, and who is active.
LEMMA FieldTypes ==
    ASSUME TypeOK, HeardInv, [Next]_vars
    PROVE  /\ task' \in [Task -> TaskStatus \cup {None}]
           /\ version' \in [Version -> VersionStatus]
           /\ dated' \subseteq Version
           /\ asset' \in TaskStatus /\ described' \in BOOLEAN
           /\ active' \subseteq Plugins /\ byHand' \in BOOLEAN
           /\ bounds' \in [edits : 0 .. MaxEdits, deletes : 0 .. MaxDeletes]
<1> USE DEF TypeOK
<1>1. ASSUME NoUpdate \/ UNCHANGED vars
      PROVE  UNCHANGED <<fields, active, byHand, bounds>>
  BY <1>1 DEF NoUpdate
<1>2. CASE TvRead \/ VtRead \/ TeTasks \/ TeAsset \/ EtRead \/ EtTasks \/ UNCHANGED vars
  BY <1>1, <1>2 DEF TvRead, VtRead, TeTasks, TeAsset, EtRead, EtTasks
<1>3. ASSUME \/ Edit
             \/ /\ bounds.deletes < MaxDeletes
                /\ bounds' = [bounds EXCEPT !.deletes = @ + 1]
      PROVE  bounds' \in [edits : 0 .. MaxEdits, deletes : 0 .. MaxDeletes]
  <2>1. MaxEdits \in Nat /\ MaxDeletes \in Nat
    BY StatusSyncAssumption
  <2>2. CASE Edit
    BY <2>1, <2>2 DEF Edit
  <2>3. CASE bounds.deletes < MaxDeletes /\ bounds' = [bounds EXCEPT !.deletes = @ + 1]
    BY <2>1, <2>3
  <2> QED BY <1>3, <2>2, <2>3
<1>10. CASE SetTask
  <2>1. PICK t \in Live, s \in TaskStatus : task' = [task EXCEPT ![t] = s]
    BY <1>10 DEF SetTask
  <2>2. task' \in [Task -> TaskStatus \cup {None}]
    BY <2>1
  <2>3. UNCHANGED <<version, dated, asset, described, active, byHand>>
    BY <1>10 DEF SetTask
  <2>4. bounds' \in [edits : 0 .. MaxEdits, deletes : 0 .. MaxDeletes]
    BY <1>3, <1>10 DEF SetTask
  <2> QED BY <2>2, <2>3, <2>4
<1>11. CASE SetVersion
  <2>1. PICK v \in Version, s \in VersionStatus : version' = [version EXCEPT ![v] = s]
    BY <1>11 DEF SetVersion
  <2>2. version' \in [Version -> VersionStatus]
    BY <2>1
  <2>3. UNCHANGED <<task, dated, asset, described, active, byHand>>
    BY <1>11 DEF SetVersion
  <2>4. bounds' \in [edits : 0 .. MaxEdits, deletes : 0 .. MaxDeletes]
    BY <1>3, <1>11 DEF SetVersion
  <2> QED BY <2>2, <2>3, <2>4
<1>12. CASE SetAsset
  <2>1. asset' \in TaskStatus /\ byHand' = TRUE
    BY <1>12 DEF SetAsset
  <2>3. UNCHANGED <<task, version, dated, described, active>>
    BY <1>12 DEF SetAsset
  <2>4. bounds' \in [edits : 0 .. MaxEdits, deletes : 0 .. MaxDeletes]
    BY <1>3, <1>12 DEF SetAsset
  <2> QED BY <2>1, <2>3, <2>4
<1>13. CASE DeleteTask
  <2>1. PICK t \in Live : task' = [task EXCEPT ![t] = None]
    BY <1>13 DEF DeleteTask
  <2>2. task' \in [Task -> TaskStatus \cup {None}]
    BY <2>1
  <2> QED BY <1>3, <1>13, <2>2 DEF DeleteTask
<1>4. CASE \E p \in Plugins : Take(p)
  BY <1>4 DEF Take
<1>5. CASE TvWrite
  <2>1. Ev("TV").seen \in VersionStatus
    BY <1>5 DEF TvWrite, HeardInv
  <2> QED BY <1>5, <2>1 DEF TvWrite
<1>6. CASE VtWrite
  <2>1. Ev("VT").of \in Version /\ Ev("VT").seen \in TaskStatus \cup {None}
    BY <1>6, Typed DEF VtWrite, HeardInv
  <2> QED BY <1>6, <2>1 DEF VtWrite, Raise
<1>7. CASE TeRead
  BY <1>7 DEF TeRead, Raise
<1>8. CASE TeWrite
  <2>1. asset' \in {"fin", "ip"} /\ byHand' \in BOOLEAN
        /\ UNCHANGED <<task, version, dated, described, active, bounds>>
    BY <1>8 DEF TeWrite
  <2> QED BY <2>1 DEF TaskStatus
<1>9. CASE EtWrite
  <2>1. /\ \/ task' = task
           \/ task' = [t \in Task |-> IF t \in Ev("ET").found THEN "hld" ELSE task[t]]
        /\ described' \in {described, described \/ Ev("ET").describe}
        /\ active' \subseteq active /\ UNCHANGED <<version, dated, asset, byHand, bounds>>
    BY <1>9 DEF EtWrite, Raise
  <2>2. Ev("ET").describe \in BOOLEAN
    BY DEF Ev, Plugins
  <2>3. described' \in BOOLEAN
    BY <2>1, <2>2
  <2> QED BY <2>1, <2>3 DEF TaskStatus
<1> QED BY <1>2, <1>4, <1>5, <1>6, <1>7, <1>8, <1>9, <1>10, <1>11, <1>12, <1>13, Steps

\* The inboxes hold events, each of what its plugin has registered for.
LEMMA InboxTypes ==
    ASSUME TypeOK, HeardInv, [Next]_vars
    PROVE  inbox' \in [Plugins -> Seq(Event)] /\ Heard'
<1>1. inbox \in [Plugins -> Seq(Event)] /\ Heard
  BY Typed DEF TypeOK
<1>2. ASSUME NEW of \in Entity, NEW before \in Status, NEW after \in Status,
             inbox' = Deliver(inbox, active, Changes(before, after, of))
      PROVE  inbox' \in [Plugins -> Seq(Event)] /\ Heard'
  BY <1>1, <1>2, Told
<1>3. CASE UNCHANGED inbox
  BY <1>1, <1>3 DEF Heard
<1>4. ASSUME NEW p \in Plugins, inbox' = [inbox EXCEPT ![p] = <<>>]
      PROVE  inbox' \in [Plugins -> Seq(Event)] /\ Heard'
  BY <1>1, <1>4 DEF Heard
<1>5. ASSUME NEW p \in Plugins, Take(p)
      PROVE  inbox' \in [Plugins -> Seq(Event)] /\ Heard'
  <2>1. inbox' = [inbox EXCEPT ![p] = Tail(inbox[p])] /\ inbox[p] \in Seq(Event)
        /\ inbox[p] # <<>>
    BY <1>1, <1>5 DEF Take
  <2>2. /\ Tail(inbox[p]) \in Seq(Event)
        /\ \A i \in DOMAIN Tail(inbox[p]) : \E j \in DOMAIN inbox[p] :
              Tail(inbox[p])[i] = inbox[p][j]
    BY <2>1
  <2>3. inbox' \in [Plugins -> Seq(Event)]
    BY <1>1, <2>1, <2>2
  <2>4. \A q \in Plugins : \A i \in DOMAIN inbox'[q] : \E j \in DOMAIN inbox[q] :
              inbox'[q][i] = inbox[q][j]
    BY <1>1, <2>1, <2>2
  <2> QED BY <1>1, <2>3, <2>4 DEF Heard
<1>6. CASE SetTask
  <2>1. PICK t \in Live, s \in TaskStatus :
          inbox' = Deliver(inbox, active, Changes(task[t], s, <<t>>))
    BY <1>6 DEF SetTask
  <2>2. <<t>> \in Entity /\ task[t] \in Status /\ s \in Status
    BY Typed, Entities
  <2> QED BY <1>2, <2>1, <2>2
<1>7. CASE SetVersion
  <2>1. PICK v \in Version, s \in VersionStatus :
          inbox' = Deliver(inbox, active, Changes(version[v], s, v))
    BY <1>7 DEF SetVersion
  <2>2. v \in Entity /\ version[v] \in Status /\ s \in Status
    BY Typed, Entities DEF Status
  <2> QED BY <1>2, <2>1, <2>2
<1>8. CASE SetAsset
  <2>1. PICK s \in TaskStatus :
          inbox' = Deliver(inbox, active, Changes(asset, s, <<Asset>>))
    BY <1>8 DEF SetAsset
  <2> QED BY <1>2, <2>1, Typed, Entities
<1>9. CASE TvWrite
  <2>1. PICK t \in Task : Ev("TV").of = <<t>> /\ Ev("TV").of[1] = t
    BY <1>9, Typed, Entities DEF TvWrite
  <2>2. Latest(t) \in Version /\ Ev("TV").seen \in VersionStatus
    BY <1>9, <2>1, Entities DEF TvWrite, HeardInv
  <2>3. inbox' = Deliver(inbox, active, Changes(version[Latest(t)], Ev("TV").seen, Latest(t)))
    BY <1>9, <2>1 DEF TvWrite
  <2>4. Latest(t) \in Entity /\ version[Latest(t)] \in Status /\ Ev("TV").seen \in Status
    BY <2>2, Typed, Entities DEF Status
  <2> QED BY <1>2, <2>3, <2>4
<1>10. CASE VtWrite
  <2> DEFINE t == Ev("VT").of[1]
             new == Ev("VT").seen
  <2>1. t \in Task /\ <<t>> \in Entity /\ new \in TaskStatus \cup {None}
    BY <1>10, Typed, Entities DEF VtWrite, HeardInv
  <2>2. CASE new # None /\ task[t] = None
    BY <1>4, <1>10, <2>2 DEF VtWrite, Raise, Plugins
  <2>3. CASE ~(new # None /\ task[t] = None)
    <3>1. /\ task' = IF new = None THEN task ELSE [task EXCEPT ![t] = new]
          /\ inbox' = Deliver(inbox, active, Changes(task[t], task'[t], <<t>>))
      BY <1>10, <2>3 DEF VtWrite
    <3>2. CASE new = None
      <4>1. inbox' = Deliver(inbox, active, <<>>) /\ <<>> \in Seq(Event)
        BY <3>1, <3>2 DEF Changes
      <4> QED BY <1>1, <4>1, Delivered
    <3>3. CASE new # None
      <4>1. task[t] \in Status /\ task'[t] \in Status
        BY <2>1, <2>3, <3>1, <3>3, Typed DEF TypeOK, Status
      <4> HIDE DEF t, new
      <4> QED BY <1>2, <2>1, <3>1, <4>1
    <3> QED BY <3>2, <3>3
  <2> QED BY <2>2, <2>3
<1>11. CASE TeRead
  BY <1>3, <1>4, <1>11 DEF TeRead, Raise, Plugins
<1>12. CASE TeWrite
  <2>1. PICK new \in {"fin", "ip"} :
          inbox' = Deliver(inbox, active, Changes(asset, new, <<Asset>>))
    BY <1>12 DEF TeWrite
  <2>2. new \in Status
    BY DEF Status, TaskStatus
  <2> QED BY <1>2, <2>1, <2>2, Typed, Entities
<1>13. CASE EtWrite
  <2> DEFINE Held == Ev("ET").found
  <2>1. CASE ~(Held \subseteq Live)
    BY <1>4, <1>13, <2>1 DEF EtWrite, Raise, Plugins
  <2>2. CASE Held \subseteq Live
    <3>1. PICK events \in InAnyOrder({[of |-> <<t>>, old |-> task[t], new |-> "hld"] :
                                        t \in {u \in Held : task[u] # "hld"}}) :
            inbox' = Deliver(inbox, active, events)
      BY <1>13, <2>2 DEF EtWrite
    <3>2. Held \in SUBSET Task /\ \A t \in Held : task[t] \in Status
      BY <2>2, Typed
    <3> HIDE DEF Held
    <3> QED BY <1>1, <3>1, <3>2, Batched
  <2> QED BY <2>1, <2>2
<1>14. CASE \/ TvRead \/ VtRead \/ TeTasks \/ TeAsset \/ EtRead \/ EtTasks
            \/ DeleteTask \/ UNCHANGED vars
  BY <1>3, <1>14 DEF TvRead, VtRead, TeTasks, TeAsset, EtRead, EtTasks, NoUpdate,
     DeleteTask
<1> QED BY <1>5, <1>6, <1>7, <1>8, <1>9, <1>10, <1>11, <1>12, <1>13, <1>14, Steps

\* Every step keeps the types.
LEMMA Types ==
    ASSUME TypeOK, HeardInv, [Next]_vars
    PROVE  TypeOK'
<1>1. run' \in [Plugins -> RunType]
  BY RunTyped
<1> QED BY <1>1, FieldTypes, InboxTypes DEF TypeOK, RunType

\* What a plugin takes in hand is an event it listens to, and it keeps to it until
\* it is done.
LEMMA InHand ==
    ASSUME TypeOK, HeardInv, [Next]_vars, NEW p \in Plugins
    PROVE  \/ run'[p].pc = "idle"
           \/ Take(p) /\ run'[p].pc = "begin" /\ Listens(p, run'[p])
           \/ Pc(p) # "idle" /\ run'[p].of = run[p].of /\ run'[p].new = run[p].new
           \/ run'[p] = run[p]
<1>0. run \in [Plugins -> RunType] /\ DOMAIN run = Plugins
  BY DEF TypeOK, RunType
<1>1. ASSUME Take(p)
      PROVE  run'[p].pc = "begin" /\ Listens(p, run'[p])
  <2>1. /\ run'[p].pc = "begin" /\ run'[p].of = Head(inbox[p]).of
        /\ inbox[p] \in Seq(Event) /\ inbox[p] # <<>>
    BY <1>0, <1>1 DEF Take, Idle, TypeOK
  <2>2. 1 \in DOMAIN inbox[p] /\ Head(inbox[p]) = inbox[p][1]
    BY <2>1
  <2>3. Listens(p, Head(inbox[p]))
    BY <2>2, Typed DEF Heard
  <2> QED BY <2>1, <2>3, SameHearing
<1>2. ASSUME Done(p) \/ Raise(p)
      PROVE  run'[p].pc = "idle"
  BY <1>0, <1>2 DEF Done, Raise, Idle
<1>3. ASSUME NEW pc, Goto(p, pc)
      PROVE  run'[p].of = run[p].of /\ run'[p].new = run[p].new
  BY <1>0, <1>3 DEF Goto, RunType
<1>4. CASE p = "TV"
  BY <1>0, <1>1, <1>2, <1>4, RunSteps DEF TvRead, TvWrite, RunType, Pc
<1>5. CASE p = "VT"
  BY <1>0, <1>1, <1>2, <1>5, RunSteps DEF VtRead, VtWrite, RunType, Pc
<1>6. CASE p = "TE"
  BY <1>0, <1>1, <1>2, <1>3, <1>6, RunSteps DEF TeRead, TeTasks, TeAsset, TeWrite, Pc
<1>7. CASE p = "ET"
  BY <1>0, <1>1, <1>2, <1>7, RunSteps DEF EtRead, EtTasks, EtWrite, RunType, Pc
<1> QED BY <1>4, <1>5, <1>6, <1>7 DEF Plugins

\* TV goes on to write only a mapped status, to a task's latest version.
LEMMA TvReads ==
    ASSUME TypeOK, HeardInv, TvRead
    PROVE  \/ /\ run'["TV"].pc = "idle"
              /\ \A t \in Task : Ev("TV").of = <<t>> =>
                    task[t] = None \/ VersionMapping[task[t]] = None \/ VersionsOf[t] = 0
           \/ \E t \in Task :
                /\ Ev("TV").of = <<t>> /\ VersionsOf[t] > 0
                /\ VersionMapping[task[t]] \in VersionStatus
                /\ run'["TV"] = [run["TV"] EXCEPT !.pc = "write",
                                                  !.seen = VersionMapping[task[t]]]
<1>0. DOMAIN run = Plugins /\ "TV" \in Plugins
  BY DEF TypeOK, Plugins
<1>1. PICK t \in Task : Ev("TV").of = <<t>> /\ Ev("TV").of[1] = t
  BY Typed, Entities DEF TvRead
<1>2. \A u \in Task : <<u>> = <<t>> => u = t
  OBVIOUS
<1>3. CASE Done("TV") /\ (task[t] = None \/ VersionMapping[task[t]] = None
                            \/ VersionsOf[t] = 0)
  BY <1>0, <1>1, <1>2, <1>3 DEF Done, Idle
<1>4. CASE /\ task[t] # None /\ VersionMapping[task[t]] # None /\ VersionsOf[t] # 0
           /\ run' = [run EXCEPT !["TV"].pc = "write",
                                 !["TV"].seen = VersionMapping[task[t]]]
  <2>1. VersionMapping[task[t]] \in VersionStatus /\ VersionsOf[t] > 0
    BY <1>4, StatusSyncAssumption DEF TypeOK
  <2>2. run'["TV"] = [run["TV"] EXCEPT !.pc = "write",
                                       !.seen = VersionMapping[task[t]]]
    BY <1>0, <1>4
  <2> QED BY <1>1, <2>1, <2>2
<1> QED BY <1>1, <1>3, <1>4 DEF TvRead

\* VT has read v, and is about to write new to its task.
VtGoesOn(v, new) ==
    run'["VT"] = [run["VT"] EXCEPT !.pc = "write", !.seen = new,
                                   !.describe = version[v] = "apr"]

\* VT goes on to write the mapped status, to a task that has another, or the date.
LEMMA VtReads ==
    ASSUME TypeOK, HeardInv, VtRead,
           NEW v, v = Ev("VT").of, NEW t, t = v[1],
           NEW mapped, mapped = TaskMapping[version[v]]
    PROVE  /\ v \in Version /\ mapped \in TaskStatus \cup {None}
           /\ \/ /\ run'["VT"].pc = "idle" /\ version[v] # "apr"
                 /\ task[t] = None \/ mapped \in {task[t], None}
              \/ VtGoesOn(v, mapped)
              \/ VtGoesOn(v, None) /\ task[t] \in {None, mapped}
<1>0. DOMAIN run = Plugins /\ "VT" \in Plugins
  BY DEF TypeOK, Plugins
<1>1. v \in Version
  BY Typed DEF VtRead
<1>2. mapped \in TaskStatus \cup {None}
  BY <1>1, StatusSyncAssumption DEF TypeOK
<1> DEFINE new == IF task[t] = None \/ mapped = task[t] THEN None ELSE mapped
<1>3. CASE new = None /\ version[v] # "apr" /\ Done("VT")
  BY <1>0, <1>1, <1>2, <1>3 DEF Done, Idle
<1>4. CASE run' = [run EXCEPT !["VT"].pc = "write", !["VT"].seen = new,
                              !["VT"].describe = version[v] = "apr"]
  <2>1. VtGoesOn(v, new)
    BY <1>0, <1>4 DEF VtGoesOn
  <2> QED BY <1>1, <1>2, <2>1
<1> QED BY <1>3, <1>4 DEF VtRead

\* What VT is about to write then.
LEMMA VtGone ==
    ASSUME TypeOK, NEW v, NEW new, VtGoesOn(v, new)
    PROVE  /\ run'["VT"].pc = "write" /\ run'["VT"].of = Ev("VT").of
           /\ run'["VT"].seen = new /\ run'["VT"].describe = (version[v] = "apr")
<1>1. run["VT"] \in RunType
  BY DEF TypeOK, RunType, Plugins
<1>2. /\ run'["VT"].pc = "write" /\ run'["VT"].of = Ev("VT").of
      /\ run'["VT"].seen = new
  BY <1>1 DEF VtGoesOn, RunType, Ev
<1>3. run'["VT"].describe = (version[v] = "apr")
  BY <1>1 DEF VtGoesOn, RunType
<1> QED BY <1>2, <1>3

\* Every plugin hears of what it listens to, and is about to write what it may.
LEMMA HeardStays ==
    ASSUME TypeOK, HeardInv, [Next]_vars
    PROVE  HeardInv'
<1>0. run \in [Plugins -> RunType] /\ Plugins = {"TV", "VT", "TE", "ET"}
  BY DEF TypeOK, RunType, Plugins
<1>1. ASSUME NEW p \in Plugins, run'[p].pc # "idle"
      PROVE  Listens(p, run'[p])
  <2>1. CASE Take(p) /\ run'[p].pc = "begin" /\ Listens(p, run'[p])
    BY <2>1
  <2>2. CASE Pc(p) # "idle" /\ run'[p].of = run[p].of
    BY <2>2, SameHearing DEF HeardInv, Ev
  <2>3. CASE run'[p] = run[p]
    BY <1>1, <2>3 DEF HeardInv, Ev, Pc
  <2> QED BY <1>1, <2>1, <2>2, <2>3, InHand
<1>4. ASSUME NEW p \in Plugins, Take(p) \/ Done(p) \/ Raise(p)
      PROVE  run'[p].pc \in {"idle", "begin"}
  <2>1. CASE Take(p)
    BY <1>0, <2>1 DEF Take, Idle
  <2>2. CASE Done(p) \/ Raise(p)
    BY <1>0, <2>2 DEF Done, Raise, Idle
  <2> QED BY <1>4, <2>1, <2>2
<1>2. ASSUME run'["TV"].pc = "write"
      PROVE  VersionsOf[run'["TV"].of[1]] > 0 /\ run'["TV"].seen \in VersionStatus
  <2>1. CASE run'["TV"] = run["TV"]
    BY <1>2, <2>1 DEF HeardInv, Pc, Ev
  <2>2. CASE TvRead
    <3>1. PICK t \in Task :
            /\ Ev("TV").of = <<t>> /\ VersionsOf[t] > 0
            /\ VersionMapping[task[t]] \in VersionStatus
            /\ run'["TV"] = [run["TV"] EXCEPT !.pc = "write",
                                              !.seen = VersionMapping[task[t]]]
      BY <1>2, <2>2, TvReads
    <3>2. run'["TV"].of = run["TV"].of /\ run'["TV"].seen = VersionMapping[task[t]]
      BY <1>0, <3>1 DEF RunType
    <3> QED BY <3>1, <3>2 DEF Ev
  <2>3. CASE Take("TV") \/ TvWrite
    BY <1>0, <1>2, <1>4, <2>3 DEF TvWrite
  <2> QED BY <2>1, <2>2, <2>3, RunSteps
<1>3. ASSUME run'["VT"].pc = "write"
      PROVE  run'["VT"].seen \in TaskStatus \cup {None}
  <2>1. CASE run'["VT"] = run["VT"]
    BY <1>3, <2>1 DEF HeardInv, Pc, Ev
  <2>2. CASE VtRead
    <3>1. PICK new \in TaskStatus \cup {None} : VtGoesOn(Ev("VT").of, new)
      BY <1>3, <2>2, VtReads
    <3> QED BY <3>1, VtGone
  <2>3. CASE Take("VT") \/ VtWrite
    BY <1>0, <1>3, <1>4, <2>3 DEF VtWrite
  <2> QED BY <2>1, <2>2, <2>3, RunSteps
<1> QED BY <1>1, <1>2, <1>3, InboxTypes DEF HeardInv, Heard, Pc, Ev

-----------------------------------------------------------------------------
(* Tasks and their versions *)

\* What a plugin's moves do to its run.
LEMMA Moves ==
    ASSUME TypeOK, NEW p \in Plugins
    PROVE  /\ Take(p) => Pc(p) = "idle"
           /\ Done(p) => run'[p].pc = "idle"
           /\ Raise(p) => p \notin active'
           /\ \A pc : Goto(p, pc) =>
                run'[p].pc = pc /\ run'[p].of = Ev(p).of /\ run'[p].new = Ev(p).new
<1>1. run \in [Plugins -> RunType] /\ DOMAIN run = Plugins
  BY DEF TypeOK, RunType
<1>2. ASSUME NEW pc, Goto(p, pc)
      PROVE  run'[p].pc = pc /\ run'[p].of = Ev(p).of /\ run'[p].new = Ev(p).new
  BY <1>1, <1>2 DEF Goto, RunType, Ev
<1>3. Done(p) => run'[p].pc = "idle"
  BY <1>1 DEF Done, Idle
<1> QED BY <1>2, <1>3 DEF Take, Raise

\* A version that TV owes its task's status is still owed it, or in step.
LEMMA TvOwesStays ==
    ASSUME TypeOK, HeardInv, [Next]_vars, "TV" \in active',
           NEW t \in Live, VersionsOf[t] > 0,
           task'[t] = task[t], version'[Latest(t)] = version[Latest(t)], TvOwes(t)
    PROVE  InStep(t)' \/ TvOwes(t)'
<1>0. /\ "TV" \in Plugins /\ DOMAIN run = Plugins /\ run["TV"] \in RunType
      /\ t \in Task /\ task[t] # None
  BY DEF TypeOK, Plugins, Live, RunType
<1>1. CASE Queued("TV", <<t>>, task[t])
  <2>1. \/ Queues("TV", <<t>>, task[t])
        \/ run'["TV"].pc = "begin" /\ run'["TV"].of = <<t>>
    BY <1>0, <1>1, StepEffects DEF StepEffect, Waits
  <2>2. CASE Queues("TV", <<t>>, task[t])
    BY <2>2 DEF TvOwes, Queued, Queues
  <2>3. CASE run'["TV"].pc = "begin" /\ run'["TV"].of = <<t>>
    BY <2>3 DEF TvOwes, Reads, Pc, Ev
  <2> QED BY <2>1, <2>2, <2>3
<1>2. CASE Reads("TV", <<t>>)
  <2>1. Pc("TV") = "begin" /\ Ev("TV").of = <<t>>
    BY <1>2 DEF Reads
  <2>2. CASE run'["TV"] = run["TV"]
    BY <1>2, <2>2 DEF TvOwes, Reads, Pc, Ev
  <2>3. CASE TvRead
    <3>1. CASE task[t] = None \/ VersionMapping[task[t]] = None \/ VersionsOf[t] = 0
      <4>1. VersionMapping[task'[t]] = None
        BY <1>0, <3>1
      <4> QED BY <4>1 DEF InStep
    <3>2. CASE \E u \in Task :
                 /\ Ev("TV").of = <<u>>
                 /\ run'["TV"] = [run["TV"] EXCEPT !.pc = "write",
                                                   !.seen = VersionMapping[task[u]]]
      <4>0. PICK u \in Task :
                 /\ <<t>> = <<u>>
                 /\ run'["TV"] = [run["TV"] EXCEPT !.pc = "write",
                                                   !.seen = VersionMapping[task[u]]]
        BY <2>1, <3>2
      <4>1. run'["TV"] = [run["TV"] EXCEPT !.pc = "write",
                                           !.seen = VersionMapping[task[t]]]
        BY <4>0
      <4>2. /\ run'["TV"].pc = "write" /\ run'["TV"].of = <<t>>
            /\ run'["TV"].seen = VersionMapping[task'[t]]
        BY <1>0, <2>1, <4>1 DEF RunType, Ev
      <4> QED BY <4>2 DEF TvOwes, Writes, Pc, Ev
    <3> QED BY <1>0, <2>1, <2>3, <3>1, <3>2, TvReads
  <2> QED BY <1>0, <2>1, <2>2, <2>3, RunSteps, Moves DEF TvWrite
<1>3. CASE Writes("TV", <<t>>) /\ Ev("TV").seen = VersionMapping[task[t]]
  <2>1. Pc("TV") = "write" /\ Ev("TV").of = <<t>>
    BY <1>3 DEF Writes
  <2>2. CASE run'["TV"] = run["TV"]
    BY <1>3, <2>2 DEF TvOwes, Writes, Pc, Ev
  <2>3. CASE TvWrite
    <3>1. version' = [version EXCEPT ![Latest(t)] = VersionMapping[task[t]]]
      BY <1>0, <1>3, <2>1, <2>3, Entities DEF TvWrite
    <3>2. version'[Latest(t)] = VersionMapping[task'[t]]
      BY <1>0, <3>1, Entities DEF TypeOK
    <3> QED BY <3>2 DEF InStep, Latest
  <2> QED BY <1>0, <2>1, <2>2, <2>3, RunSteps, Moves DEF TvRead
<1> QED BY <1>1, <1>2, <1>3 DEF TvOwes

\* A task that VT owes its version's status is still owed it, or in step.
LEMMA VtOwesStays ==
    ASSUME TypeOK, HeardInv, [Next]_vars, "VT" \in active',
           NEW t \in Live, VersionsOf[t] > 0, NEW v, v = Latest(t),
           task'[t] = task[t], version'[v] = version[v], VtOwes(v)
    PROVE  InStep(t)' \/ VtOwes(v)'
<1>0. /\ "VT" \in Plugins /\ DOMAIN run = Plugins /\ run["VT"] \in RunType
      /\ t \in Task /\ task[t] # None /\ v[1] = t
  BY DEF TypeOK, Plugins, Live, RunType, Latest
<1>1. CASE Queued("VT", v, version[v])
  <2>1. \/ Queues("VT", v, version[v])
        \/ run'["VT"].pc = "begin" /\ run'["VT"].of = v
    BY <1>0, <1>1, StepEffects DEF StepEffect, Waits
  <2>2. CASE Queues("VT", v, version[v])
    BY <2>2 DEF VtOwes, Queued, Queues
  <2>3. CASE run'["VT"].pc = "begin" /\ run'["VT"].of = v
    BY <2>3 DEF VtOwes, Reads, Pc, Ev
  <2> QED BY <2>1, <2>2, <2>3
<1>2. CASE Reads("VT", v)
  <2>1. Pc("VT") = "begin" /\ Ev("VT").of = v
    BY <1>2 DEF Reads
  <2>2. CASE run'["VT"] = run["VT"]
    BY <1>2, <2>2 DEF VtOwes, Reads, Pc, Ev
  <2>3. CASE VtRead
    <3>1. CASE TaskMapping[version[v]] \in {task[t], None}
      <4>1. TaskMapping[version'[v]] = task'[t] \/ TaskMapping[version'[v]] = None
        BY <3>1
      <4> QED BY <4>1 DEF InStep, Latest
    <3>2. CASE VtGoesOn(v, TaskMapping[version[v]])
      <4>1. /\ run'["VT"].pc = "write" /\ run'["VT"].of = v
            /\ run'["VT"].seen = TaskMapping[version'[v]]
        BY <2>1, <3>2, VtGone
      <4> QED BY <4>1 DEF VtOwes, Writes, Pc, Ev
    <3>3. \/ TaskMapping[version[v]] \in {task[t], None}
          \/ VtGoesOn(v, TaskMapping[version[v]])
      BY <1>0, <2>1, <2>3, VtReads
    <3> QED BY <3>1, <3>2, <3>3
  <2> QED BY <1>0, <2>1, <2>2, <2>3, RunSteps, Moves DEF VtWrite
<1>3. CASE Writes("VT", v) /\ Ev("VT").seen = TaskMapping[version[v]]
  <2>1. Pc("VT") = "write" /\ Ev("VT").of = v
    BY <1>3 DEF Writes
  <2>2. CASE run'["VT"] = run["VT"]
    BY <1>3, <2>2 DEF VtOwes, Writes, Pc, Ev
  <2>3. CASE VtWrite
    <3> DEFINE new == TaskMapping[version[v]]
    <3>1. /\ new # None => task' = [task EXCEPT ![t] = new]
      BY <1>0, <1>3, <2>1, <2>3, Moves DEF VtWrite
    <3>2. new # None => task'[t] = new
      BY <1>0, <3>1 DEF TypeOK
    <3>3. TaskMapping[version'[v]] \in {task'[t], None}
      BY <3>2
    <3> QED BY <3>3 DEF InStep, Latest
  <2> QED BY <1>0, <2>1, <2>2, <2>3, RunSteps, Moves DEF VtRead
<1> QED BY <1>1, <1>2, <1>3 DEF VtOwes

\* The latest version and its task are in step, or the later of the two is still
\* to be followed.
LEMMA StepStays ==
    ASSUME TypeOK, HeardInv, StepInv, [Next]_vars
    PROVE  StepInv'
<1> SUFFICES ASSUME {"TV", "VT"} \subseteq active', NEW t \in Live', VersionsOf[t] > 0
             PROVE  InStep(t)' \/ TvOwes(t)' \/ VtOwes(Latest(t))'
  BY DEF StepInv
<1> DEFINE v == Latest(t)
<1>1. /\ StepEffect /\ {"TV", "VT"} \subseteq active
      /\ t \in Task /\ task'[t] # None /\ t \in Live
  BY StepEffects DEF StepEffect, Live
<1>2. v \in Version
  BY <1>1, Entities
<1>3. CASE task'[t] # task[t]
  <2>1. Queues("TV", <<t>>, task'[t])
    BY <1>1, <1>3 DEF StepEffect, TaskNews
  <2> QED BY <2>1 DEF TvOwes, Queued, Queues
<1>4. CASE version'[v] # version[v]
  <2>1. Queues("VT", v, version'[v])
    BY <1>1, <1>2, <1>4 DEF StepEffect, VersionNews
  <2> QED BY <2>1 DEF VtOwes, Queued, Queues, Latest
<1>5. CASE task'[t] = task[t] /\ version'[v] = version[v]
  <2>1. CASE InStep(t)
    BY <1>5, <2>1 DEF InStep, Latest
  <2>2. CASE TvOwes(t)
    BY <1>1, <1>5, <2>2, TvOwesStays
  <2>3. CASE VtOwes(v)
    <3>1. InStep(t)' \/ VtOwes(v)'
      BY <1>1, <1>5, <2>3, VtOwesStays
    <3> QED BY <3>1
  <2> QED BY <1>1, <2>1, <2>2, <2>3 DEF StepInv
<1> QED BY <1>3, <1>4, <1>5

\* An approved version has its date, or VT is still to write it.
LEMMA DateStays ==
    ASSUME TypeOK, HeardInv, DateInv, [Next]_vars
    PROVE  DateInv'
<1> SUFFICES ASSUME "VT" \in active', NEW v \in Version, version'[v] = "apr"
             PROVE  \/ v \in dated' \/ Queues("VT", v, "apr")
                    \/ run'["VT"].pc = "begin" /\ run'["VT"].of = v
                    \/ run'["VT"].pc = "write" /\ run'["VT"].of = v
                       /\ run'["VT"].describe
  BY DEF DateInv, Queued, Queues, Reads, Writes, Pc, Ev
<1>0. /\ "VT" \in Plugins /\ DOMAIN run = Plugins /\ run["VT"] \in RunType
      /\ StepEffect /\ "VT" \in active
  BY StepEffects DEF TypeOK, Plugins, RunType, StepEffect
<1>1. CASE version'[v] # version[v]
  BY <1>0, <1>1 DEF StepEffect, VersionNews
<1>2. CASE v \in dated
  <2>1. dated \subseteq dated'
    BY Steps DEF SetTask, SetVersion, SetAsset, DeleteTask, Take, TvRead, TvWrite, VtRead,
       VtWrite, TeRead, TeTasks, TeAsset, TeWrite, EtRead, EtTasks, EtWrite, NoUpdate
  <2> QED BY <1>2, <2>1
<1>3. CASE Queued("VT", v, "apr")
  BY <1>0, <1>3 DEF StepEffect, Waits
<1>4. CASE version[v] = "apr" /\ Reads("VT", v)
  <2>1. Pc("VT") = "begin" /\ Ev("VT").of = v
    BY <1>4 DEF Reads
  <2>2. CASE run'["VT"] = run["VT"]
    BY <2>1, <2>2 DEF Pc, Ev
  <2>3. CASE VtRead
    <3>1. PICK new \in TaskStatus \cup {None} : VtGoesOn(v, new)
      BY <1>4, <2>1, <2>3, VtReads
    <3> QED BY <1>4, <2>1, <3>1, VtGone
  <2> QED BY <1>0, <2>1, <2>2, <2>3, RunSteps, Moves DEF VtWrite
<1>5. CASE Writes("VT", v) /\ Ev("VT").describe
  <2>1. Pc("VT") = "write" /\ Ev("VT").of = v
    BY <1>5 DEF Writes
  <2>2. CASE run'["VT"] = run["VT"]
    BY <1>5, <2>1, <2>2 DEF Pc, Ev
  <2>3. CASE VtWrite
    BY <1>0, <1>5, <2>1, <2>3, Moves DEF VtWrite
  <2> QED BY <1>0, <2>1, <2>2, <2>3, RunSteps, Moves DEF VtRead
<1> QED BY <1>0, <1>1, <1>2, <1>3, <1>4, <1>5 DEF DateInv

-----------------------------------------------------------------------------
(* Tasks and their asset *)

\* TE still takes the asset up for a task that it owes it, or does it now.
LEMMA TeOwesStays ==
    ASSUME TypeOK, HeardInv, [Next]_vars, "TE" \in active',
           NEW t \in Task, task[t] = "ip", TeOwes(t)
    PROVE  TeOwes(t)' \/ (TeWrite /\ Ev("TE").new = "ip")
<1>0. "TE" \in Plugins /\ DOMAIN run = Plugins /\ task[t] # None
  BY DEF TypeOK, Plugins, None
<1>1. CASE Queued("TE", <<t>>, "ip")
  <2>1. \/ Queues("TE", <<t>>, "ip")
        \/ run'["TE"].pc = "begin" /\ run'["TE"].of = <<t>> /\ run'["TE"].new = "ip"
    BY <1>0, <1>1, StepEffects DEF StepEffect, Waits
  <2>2. CASE Queues("TE", <<t>>, "ip")
    BY <2>2 DEF TeOwes, Queued, Queues
  <2>3. CASE run'["TE"].pc = "begin" /\ run'["TE"].of = <<t>> /\ run'["TE"].new = "ip"
    BY <2>3 DEF TeOwes, Reads, Pc, Ev
  <2> QED BY <2>1, <2>2, <2>3
<1>2. CASE Ev("TE").new = "ip" /\ Pc("TE") = "begin" /\ Ev("TE").of = <<t>>
  <2>1. CASE run'["TE"] = run["TE"]
    BY <1>2, <2>1 DEF TeOwes, Reads, Pc, Ev
  <2>2. CASE TeRead
    <3>1. Ev("TE").of[1] = t
      BY <1>2
    <3>2. Goto("TE", "asset")
      BY <1>0, <1>2, <2>2, <3>1 DEF TeRead
    <3>3. run'["TE"].pc = "asset" /\ run'["TE"].new = "ip"
      BY <1>0, <1>2, <3>2, Moves
    <3> QED BY <3>3 DEF TeOwes, Pc, Ev
  <2> QED BY <1>0, <1>2, <2>1, <2>2, RunSteps, Moves DEF TeTasks, TeAsset, TeWrite
<1>3. CASE Ev("TE").new = "ip" /\ Pc("TE") \in {"asset", "write"}
  <2>1. CASE run'["TE"] = run["TE"]
    BY <1>3, <2>1 DEF TeOwes, Pc, Ev
  <2>2. CASE TeAsset
    <3>1. Goto("TE", "write")
      BY <1>3, <2>2 DEF TeAsset
    <3>2. run'["TE"].pc = "write" /\ run'["TE"].new = "ip"
      BY <1>0, <1>3, <3>1, Moves
    <3> QED BY <3>2 DEF TeOwes, Pc, Ev
  <2>3. CASE TeWrite
    BY <1>3, <2>3
  <2> QED BY <1>0, <1>3, <2>1, <2>2, <2>3, RunSteps, Moves DEF TeRead, TeTasks
<1> QED BY <1>1, <1>2, <1>3 DEF TeOwes, Reads

\* Whoever took up a task while TE finishes the asset is heard after it.
LEMMA FinStays ==
    ASSUME TypeOK, HeardInv, FinInv, [Next]_vars
    PROVE  FinInv'
<1> SUFFICES ASSUME "TE" \in active', NEW t \in Task, task'[t] = "ip"
             PROVE  /\ asset' = "fin" /\ ~byHand' => TeOwes(t)'
                    /\ /\ run'["TE"].pc \in {"asset", "write"}
                       /\ run'["TE"].new \in {"fin", "na"}
                       => Queues("TE", <<t>>, "ip")
  BY DEF FinInv, Queued, Queues, Pc, Ev
<1>0. /\ "TE" \in Plugins /\ DOMAIN run = Plugins
      /\ StepEffect /\ "TE" \in active
  BY StepEffects DEF TypeOK, Plugins, StepEffect
<1>1. CASE task'[t] # task[t]
  <2>1. Queues("TE", <<t>>, "ip")
    BY <1>0, <1>1 DEF StepEffect, TaskNews, None
  <2>2. TeOwes(t)'
    BY <2>1 DEF TeOwes, Queued, Queues
  <2> QED BY <2>1, <2>2
<1>2. CASE task[t] = "ip"
  <2>0. t \in Live
    BY <1>2 DEF Live, None
  <2>1. ASSUME asset' = "fin", ~byHand'
        PROVE  TeOwes(t)'
    <3>1. CASE TeWrite
      <4>1. Pc("TE") = "write" /\ Ev("TE").new \in {"fin", "na"}
        BY <2>1, <3>1 DEF TeWrite
      <4>2. Queued("TE", <<t>>, "ip")
        BY <1>0, <1>2, <4>1 DEF FinInv
      <4> QED BY <1>2, <4>1, <4>2, TeOwesStays DEF TeOwes
    <3>2. CASE ~TeWrite
      <4>1. asset' = asset /\ byHand' = byHand
        <5>1. CASE SetTask \/ SetVersion \/ SetAsset \/ DeleteTask
          BY <2>1, <5>1 DEF SetTask, SetVersion, SetAsset, DeleteTask
        <5>2. CASE TvWrite \/ VtWrite \/ EtWrite
          BY <5>2 DEF TvWrite, VtWrite, EtWrite
        <5>3. CASE \/ \E p \in Plugins : Take(p)
                   \/ TvRead \/ VtRead \/ TeRead \/ TeTasks \/ TeAsset \/ EtRead
                   \/ EtTasks \/ UNCHANGED vars
          BY <5>3 DEF Take, TvRead, VtRead, TeRead, TeTasks, TeAsset, EtRead, EtTasks,
             NoUpdate
        <5> QED BY <3>2, <5>1, <5>2, <5>3, Steps
      <4>2. TeOwes(t)
        BY <1>0, <1>2, <2>1, <4>1 DEF FinInv
      <4> QED BY <1>2, <3>2, <4>2, TeOwesStays
    <3> QED BY <3>1, <3>2
  <2>2. ASSUME run'["TE"].pc \in {"asset", "write"}, run'["TE"].new \in {"fin", "na"}
        PROVE  Queues("TE", <<t>>, "ip")
    <3>1. ASSUME Pc("TE") \in {"asset", "write"}, Ev("TE").new \in {"fin", "na"}
          PROVE  Queues("TE", <<t>>, "ip")
      <4>1. Queued("TE", <<t>>, "ip")
        BY <1>0, <1>2, <3>1 DEF FinInv
      <4> QED BY <1>0, <2>2, <4>1 DEF StepEffect, Waits
    <3>2. CASE run'["TE"] = run["TE"]
      BY <2>2, <3>1, <3>2 DEF Pc, Ev
    <3>3. CASE Take("TE")
      BY <1>0, <2>2, <3>3 DEF Take, Idle
    <3>4. CASE TeRead
      <4>1. \/ Done("TE") \/ Raise("TE") \/ Goto("TE", "tasks")
            \/ Ev("TE").new \notin {"fin", "na"} /\ Goto("TE", "asset")
        BY <3>4 DEF TeRead
      <4> QED BY <1>0, <2>2, <4>1, Moves
    <3>5. CASE TeTasks
      BY <1>0, <1>2, <2>0, <2>2, <3>5, Moves DEF TeTasks
    <3>6. CASE TeAsset
      <4>1. Goto("TE", "write") /\ Pc("TE") = "asset"
        BY <1>0, <2>2, <3>6, Moves DEF TeAsset
      <4> QED BY <1>0, <2>2, <3>1, <4>1, Moves
    <3>7. CASE TeWrite
      BY <1>0, <2>2, <3>7, Moves DEF TeWrite
    <3> QED BY <3>2, <3>3, <3>4, <3>5, <3>6, <3>7, RunSteps
  <2> QED BY <2>1, <2>2
<1> QED BY <1>1, <1>2

\* A task that is worked on under a hold is still to be held, or takes it off.
LEMMA HoldStays ==
    ASSUME TypeOK, HeardInv, HoldInv, [Next]_vars
    PROVE  HoldInv'
<1> SUFFICES ASSUME {"TE", "ET"} \subseteq active', asset' = "hld",
                    NEW t \in Task, task'[t] = "ip"
             PROVE  TeOwes(t)' \/ EtOwes(t)'
  BY DEF HoldInv
<1>0. /\ "ET" \in Plugins /\ DOMAIN run = Plugins /\ run["ET"] \in RunType
      /\ StepEffect /\ {"TE", "ET"} \subseteq active
  BY StepEffects DEF TypeOK, RunType, Plugins, StepEffect
<1>1. CASE asset' # asset
  <2>1. Queues("ET", <<Asset>>, "hld")
    BY <1>0, <1>1 DEF StepEffect, AssetNews
  <2> QED BY <2>1 DEF EtOwes, Queued, Queues
<1>2. CASE task'[t] # task[t]
  <2>1. Queues("TE", <<t>>, "ip")
    BY <1>0, <1>2 DEF StepEffect, TaskNews, None
  <2> QED BY <2>1 DEF TeOwes, Queued, Queues
<1>3. CASE task[t] = "ip" /\ TeOwes(t)
  <2>1. CASE TeWrite /\ Ev("TE").new = "ip"
    BY <2>1 DEF TeWrite
  <2> QED BY <1>3, <2>1, TeOwesStays
<1>4. CASE Queued("ET", <<Asset>>, "hld")
  <2>1. \/ Queues("ET", <<Asset>>, "hld")
        \/ run'["ET"].pc = "begin" /\ run'["ET"].of = <<Asset>> /\ run'["ET"].new = "hld"
    BY <1>0, <1>4 DEF StepEffect, Waits
  <2>2. CASE Queues("ET", <<Asset>>, "hld")
    BY <2>2 DEF EtOwes, Queued, Queues
  <2>3. CASE run'["ET"].pc = "begin" /\ run'["ET"].of = <<Asset>> /\ run'["ET"].new = "hld"
    BY <2>3 DEF EtOwes, Reads, Pc, Ev
  <2> QED BY <2>1, <2>2, <2>3
<1>5. CASE run'["ET"] = run["ET"] /\ EtOwes(t)
  <2>1. CASE Queued("ET", <<Asset>>, "hld")
    BY <1>4, <2>1
  <2>2. CASE ~Queued("ET", <<Asset>>, "hld")
    BY <1>5, <2>2 DEF EtOwes, Reads, Pc, Ev
  <2> QED BY <2>1, <2>2
<1>6. CASE Pc("ET") = "begin" /\ Ev("ET").new = "hld" /\ asset = "hld" /\ EtRead
  <2>1. run' = [run EXCEPT !["ET"].pc = "tasks", !["ET"].describe = ~described]
    BY <1>6 DEF EtRead
  <2>2. run'["ET"].pc = "tasks"
    BY <1>0, <2>1 DEF RunType
  <2> QED BY <2>2 DEF EtOwes, Pc
<1>7. CASE EtTasks /\ task[t] = "ip"
  <2> DEFINE found == {u \in Live : task[u] \notin {"fin", "na", "hld"}}
  <2>1. run' = [run EXCEPT !["ET"].pc = "write", !["ET"].found = found]
    BY <1>7 DEF EtTasks
  <2>2. t \in found
    BY <1>7 DEF Live, None
  <2> HIDE DEF found
  <2>3. run'["ET"].pc = "write" /\ run'["ET"].found = found
    BY <1>0, <2>1 DEF RunType
  <2> QED BY <2>2, <2>3 DEF EtOwes, Pc, Ev
<1>8. CASE EtWrite /\ t \in Ev("ET").found
  BY <1>0, <1>8, Moves DEF EtWrite
<1>9. CASE task[t] = "ip" /\ asset = "hld" /\ EtOwes(t)
  <2>1. \/ run'["ET"] = run["ET"] \/ Take("ET") \/ EtRead \/ EtTasks \/ EtWrite
    BY RunSteps
  <2>2. CASE Queued("ET", <<Asset>>, "hld")
    BY <1>4, <2>2
  <2>3. CASE Reads("ET", <<Asset>>) /\ Ev("ET").new = "hld"
    BY <1>0, <1>5, <1>6, <1>9, <2>1, <2>3, Moves DEF Reads, EtTasks, EtWrite
  <2>4. CASE Pc("ET") = "tasks"
    BY <1>0, <1>5, <1>7, <1>9, <2>1, <2>4, Moves DEF EtRead, EtWrite
  <2>5. CASE Pc("ET") = "write" /\ t \in Ev("ET").found
    BY <1>0, <1>5, <1>8, <1>9, <2>1, <2>5, Moves DEF EtRead, EtTasks
  <2> QED BY <1>9, <2>2, <2>3, <2>4, <2>5 DEF EtOwes
<1> QED BY <1>0, <1>1, <1>2, <1>3, <1>9 DEF HoldInv

-----------------------------------------------------------------------------
(* The theorems *)

\* Whenever two statuses disagree, an active plugin still has the later change
\* waiting, in hand, or is about to write what follows from it: this holds in the
\* beginning and after every step of people and plugins, in whatever order they come
\* (task_status_update_version_status.py:92, version_status_update_task_status.py:127,
\* task_status_update_entity_status.py:108, entity_status_update_task_status.py:231).
THEOREM SyncInvHolds == Spec => []SyncInv
<1>1. Init => SyncInv
  <2> SUFFICES ASSUME Init PROVE SyncInv
    OBVIOUS
  <2>1. /\ \A p \in Plugins : inbox[p] = <<>> /\ run[p] = Idle
        /\ asset = "ip"
    BY DEF Init
  <2>2. TypeOK
    <3>1. Idle \in RunType
      BY DEF Idle, RunType
    <3>2. run \in [Plugins -> RunType]
      BY <3>1 DEF Init
    <3>3. inbox \in [Plugins -> Seq(Event)]
      BY DEF Init
    <3>4. bounds \in [edits : 0 .. MaxEdits, deletes : 0 .. MaxDeletes]
      BY StatusSyncAssumption DEF Init
    <3>5. active \subseteq Plugins
      BY DEF Init, Plugins
    <3> QED BY <3>2, <3>3, <3>4, <3>5 DEF Init, TypeOK, RunType, TaskStatus, VersionStatus
  <2>3. HeardInv
    BY <2>1 DEF HeardInv, Pc, Idle, Plugins
  <2>4. FinInv /\ HoldInv
    BY <2>1 DEF FinInv, HoldInv, Pc, Idle, Plugins
  <2>5. DateInv
    BY DEF Init, DateInv
  <2>6. StepInv
    BY DEF Init, StepInv
  <2> QED BY <2>2, <2>3, <2>4, <2>5, <2>6 DEF SyncInv
<1>2. SyncInv /\ [Next]_vars => SyncInv'
  BY Types, HeardStays, StepStays, DateStays, FinStays, HoldStays DEF SyncInv
<1> QED BY <1>1, <1>2, PTL DEF Spec

\* A plugin with nothing left to do owes nothing.
LEMMA QuietOwesNothing ==
    ASSUME NEW p \in Plugins, Quiet(p)
    PROVE  p \in active /\ Pc(p) = "idle" /\ \A of, new : ~Queued(p, of, new)
BY DEF Quiet, Queued

\* When both plugins have nothing left to do, a task and its latest version agree by
\* one mapping or the other, for any mappings and any number of tasks and versions
\* (task_status_update_version_status.py:92).
THEOREM VersionsStayInStep == Spec => []VersionInStep
<1>1. SyncInv => VersionInStep
  <2> SUFFICES ASSUME SyncInv, Quiet("TV"), Quiet("VT"), NEW t \in Live, VersionsOf[t] > 0
               PROVE  InStep(t)
    BY DEF VersionInStep, InStep, Latest
  <2>1. ~TvOwes(t) /\ ~VtOwes(Latest(t)) /\ {"TV", "VT"} \subseteq active
    BY QuietOwesNothing DEF TvOwes, VtOwes, Reads, Writes, Plugins
  <2> QED BY <2>1 DEF SyncInv, StepInv
<1> QED BY <1>1, SyncInvHolds, PTL

\* When the plugin has nothing left to do, an asset that it has finished has no task in
\* progress, though the tasks are read before the asset is written
\* (task_status_update_entity_status.py:108).
THEOREM FinishedAssetIsIdle == Spec => []NoFinWhileInProgress
<1>1. SyncInv => NoFinWhileInProgress
  <2> SUFFICES ASSUME SyncInv, Quiet("TE"), asset = "fin", ~byHand,
                      NEW t \in Task, task[t] = "ip"
               PROVE  FALSE
    BY DEF NoFinWhileInProgress
  <2>1. ~TeOwes(t) /\ "TE" \in active
    BY QuietOwesNothing DEF TeOwes, Reads, Plugins
  <2> QED BY <2>1 DEF SyncInv, FinInv
<1> QED BY <1>1, SyncInvHolds, PTL

\* When both plugins have nothing left to do, nobody works on an asset on hold
\* (entity_status_update_task_status.py:231).
THEOREM HeldAssetIsLeftAlone == Spec => []NoWorkOnHeldAsset
<1>1. SyncInv => NoWorkOnHeldAsset
  <2> SUFFICES ASSUME SyncInv, Quiet("TE"), Quiet("ET"), asset = "hld",
                      NEW t \in Task, task[t] = "ip"
               PROVE  FALSE
    BY DEF NoWorkOnHeldAsset
  <2>1. ~TeOwes(t) /\ ~EtOwes(t) /\ {"TE", "ET"} \subseteq active
    BY QuietOwesNothing DEF TeOwes, EtOwes, Reads, Plugins
  <2> QED BY <2>1 DEF SyncInv, HoldInv
<1> QED BY <1>1, SyncInvHolds, PTL

\* When the plugin has nothing left to do, every approved version has the date of an
\* approval, whoever approved it (version_status_update_task_status.py:127).
THEOREM ApprovalsAreDated == Spec => []ApprovalDated
<1>1. SyncInv => ApprovalDated
  <2> SUFFICES ASSUME SyncInv, Quiet("VT"), NEW v \in Version, version[v] = "apr"
               PROVE  v \in dated
    BY DEF ApprovalDated
  <2>1. /\ ~Queued("VT", v, "apr") /\ ~Reads("VT", v) /\ ~Writes("VT", v)
        /\ "VT" \in active
    BY QuietOwesNothing DEF Reads, Writes, Plugins
  <2> QED BY <2>1 DEF SyncInv, DateInv
<1> QED BY <1>1, SyncInvHolds, PTL

=============================================================================
