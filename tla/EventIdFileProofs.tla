--------------------------- MODULE EventIdFileProofs ---------------------------
(***************************************************************************)
(* Theorems about EventIdFile for every value of its constants: the type   *)
(* invariant, that no event is skipped, that every file can be loaded, and *)
(* that what a stop saves is what a restart finds.                         *)
(***************************************************************************)
EXTENDS EventIdFile, WellFoundedInduction, TLAPS

USE DEF vars, processVars, files, history, outside

-----------------------------------------------------------------------------
(* Least and greatest ids *)

\* A non-empty set of numbers has a least one ...
LEMMA Smallest ==
    ASSUME NEW S \in SUBSET Nat, S # {}
    PROVE  \E x \in S : \A y \in S : x <= y
<1> DEFINE R == {ss \in Nat \X Nat : ss[1] < ss[2]}
<1>1. R = OpToRel(<, Nat)
  BY DEF OpToRel
<1>2. IsWellFoundedOn(R, Nat)
  BY <1>1, NatLessThanWellFounded
<1> HIDE DEF R
<1>3. PICK x \in S : \A y \in S : ~ (<<y, x>> \in R)
  BY <1>2, WFMin
<1>4. \A y \in S : x <= y
  <2> TAKE y \in S
  <2>1. x \in Nat /\ y \in Nat
    OBVIOUS
  <2>2. ~ (y < x)
    <3> SUFFICES ASSUME y < x PROVE <<y, x>> \in R
      BY <1>3
    <3> QED BY <2>1 DEF R
  <2> QED BY <2>1, <2>2
<1> QED BY <1>4

\* ... and, when it is bounded, a greatest one.
LEMMA Largest ==
    ASSUME NEW N \in Nat, NEW S \in SUBSET (0 .. N), S # {}
    PROVE  \E x \in S : \A y \in S : y <= x
<1> DEFINE T == {n \in Nat : \E x \in S : n = N - x}
<1>1. T # {} /\ T \in SUBSET Nat
  <2>1. PICK x \in S : TRUE
    OBVIOUS
  <2>2. N - x \in T
    OBVIOUS
  <2> QED BY <2>2
<1>2. PICK n \in T : \A m \in T : n <= m
  BY <1>1, Smallest
<1>3. PICK x \in S : n = N - x
  OBVIOUS
<1>4. \A y \in S : y <= x
  <2> TAKE y \in S
  <2>1. N - y \in T
    OBVIOUS
  <2>2. n <= N - y
    BY <1>2, <2>1
  <2> HIDE DEF T
  <2> QED BY <1>3, <2>2
<1> QED BY <1>4

\* The event to fetch follows the least id that a plugin has.
LEMMA NextEventIsNext ==
    ASSUME TypeOK, HasCursor
    PROVE  /\ NextEvent \in Nat \ {0}
           /\ \A p \in Plugin : sent[p] # NoId => NextEvent <= sent[p] + 1
<1> DEFINE S == {sent[p] : p \in Plugin} \ {NoId}
<1>1. S \in SUBSET EventId /\ S # {}
  <2>1. sent \in [Plugin -> EventId \cup {NoId}]
    BY DEF TypeOK, Ids
  <2>2. S \in SUBSET EventId
    BY <2>1
  <2>3. S # {}
    BY DEF HasCursor
  <2> QED BY <2>2, <2>3
<1>2. S \in SUBSET Nat
  BY <1>1 DEF EventId
<1> DEFINE m == CHOOSE e \in S : \A f \in S : e <= f
<1>3. NextEvent = 1 + m
  BY DEF NextEvent
<1>4. \A p \in Plugin : sent[p] # NoId => sent[p] \in S
  OBVIOUS
<1> HIDE DEF S
<1>5. \E x \in S : \A y \in S : x <= y
  BY <1>1, <1>2, Smallest
<1>6. m \in S /\ \A y \in S : m <= y
  BY <1>5
<1> HIDE DEF m
<1>7. m \in Nat /\ \A p \in Plugin : sent[p] # NoId => m <= sent[p]
  BY <1>2, <1>4, <1>6
<1>8. \A p \in Plugin : sent[p] \in Nat
  BY DEF TypeOK, Ids, EventId, NoId
<1> QED BY <1>3, <1>7, <1>8

-----------------------------------------------------------------------------
(* Frame lemmas: which steps change which part of the state *)

\* The steps that change the file and its temporary.
LEMMA FilesFrame ==
    [Next]_vars =>
        \/ UNCHANGED <<file, tmp>>
        \/ CloseTmp \/ Sigint \/ Abort \/ WriteTmp \/ RenameTmp \/ StopWrite
        \/ StopClose \/ StopRename \/ Damage \/ Rebuild
  BY DEF Next, MainStep, Start, LoadScriptIds, LoadState, LoadInt, LoadGarbled,
         NoFile, Seed, LoopTop, Dispatch, DispatchNothing, Exit, ReadCursor,
         StoreCursor, Drained, Sigterm, Kill, WriteFails, StopWriteFails,
         NewEvent, OutageBegins, OutageEnds, SaveQueue, Process

\* The steps that change the cursors and what a collection holds.
LEMMA IdsFrame ==
    [Next]_vars =>
        \/ UNCHANGED <<cursor, sent, data>>
        \/ LoadState \/ LoadInt \/ LoadGarbled \/ Seed \/ Dispatch
        \/ (\E p \in Plugin : Process(p)) \/ Exit \/ Kill \/ StoreCursor
        \/ Drained
  BY DEF Next, MainStep, Start, LoadScriptIds, NoFile, LoopTop,
         DispatchNothing, ReadCursor, WriteTmp, CloseTmp, RenameTmp, StopWrite,
         StopClose, StopRename, Sigterm, Sigint, Abort, WriteFails,
         StopWriteFails, NewEvent, OutageBegins, OutageEnds, Damage, SaveQueue,
         Rebuild

\* The steps that change the main thread.
LEMMA MainFrame ==
    [Next]_vars =>
        \/ UNCHANGED <<main>>
        \/ Start \/ LoadScriptIds \/ LoadState \/ LoadInt \/ LoadGarbled
        \/ NoFile \/ Seed \/ LoopTop \/ Dispatch \/ DispatchNothing \/ Exit
        \/ ReadCursor \/ StoreCursor \/ WriteTmp \/ CloseTmp \/ RenameTmp
        \/ WriteFails \/ Sigint \/ Abort \/ StopWrite \/ StopRename \/ Kill
  BY DEF Next, MainStep, Drained, StopClose, Sigterm, StopWriteFails, NewEvent,
         OutageBegins, OutageEnds, Damage, SaveQueue, Rebuild, Process

\* The steps that change a stop on top of it.
LEMMA StopFrame ==
    [Next]_vars =>
        \/ UNCHANGED <<continuing, stop>>
        \/ LoadGarbled \/ Exit \/ Kill \/ Sigterm \/ Sigint \/ Abort
        \/ Drained \/ StopWrite \/ StopClose \/ StopRename \/ StopWriteFails
  BY DEF Next, MainStep, Start, LoadScriptIds, LoadState, LoadInt, NoFile,
         Seed, LoopTop, Dispatch, DispatchNothing, ReadCursor, StoreCursor,
         WriteTmp, CloseTmp, RenameTmp, WriteFails, NewEvent, OutageBegins,
         OutageEnds, Damage, SaveQueue, Rebuild, Process

\* The steps that change the histories.
LEMMA HistoryFrame ==
    [Next]_vars =>
        \/ UNCHANGED <<handled, waived>>
        \/ Seed \/ (\E p \in Plugin : Process(p)) \/ Rebuild
  BY DEF Next, MainStep, Start, LoadScriptIds, LoadState, LoadInt, LoadGarbled,
         NoFile, LoopTop, Dispatch, DispatchNothing, Exit, ReadCursor,
         StoreCursor, WriteTmp, CloseTmp, RenameTmp, Drained, StopWrite,
         StopClose, StopRename, Sigterm, Sigint, Abort, Kill, WriteFails,
         StopWriteFails, NewEvent, OutageBegins, OutageEnds, Damage, SaveQueue

\* The steps that change what excuses a failed save.
LEMMA ExcuseFrame ==
    [Next]_vars =>
        \/ UNCHANGED <<excuse>>
        \/ Start \/ WriteFails \/ StopWriteFails \/ Sigterm \/ Sigint \/ Abort
  BY DEF Next, MainStep, LoadScriptIds, LoadState, LoadInt, LoadGarbled,
         NoFile, Seed, LoopTop, Dispatch, DispatchNothing, Exit, ReadCursor,
         StoreCursor, WriteTmp, CloseTmp, RenameTmp, Drained, StopWrite,
         StopClose, StopRename, Kill, NewEvent, OutageBegins, OutageEnds,
         Damage, SaveQueue, Rebuild, Process

\* The steps that change what is outside the process.
LEMMA OutsideFrame ==
    [Next]_vars =>
        \/ UNCHANGED <<outage, latest, oldest>>
        \/ NewEvent \/ OutageBegins \/ OutageEnds \/ SaveQueue
  BY DEF Next, MainStep, Start, LoadScriptIds, LoadState, LoadInt, LoadGarbled,
         NoFile, Seed, LoopTop, Dispatch, DispatchNothing, Exit, ReadCursor,
         StoreCursor, WriteTmp, CloseTmp, RenameTmp, Drained, StopWrite,
         StopClose, StopRename, Sigterm, Sigint, Abort, Kill, WriteFails,
         StopWriteFails, Damage, Rebuild, Process

\* The steps that change the bounds.
LEMMA BudgetFrame ==
    [Next]_vars =>
        \/ UNCHANGED <<budget>>
        \/ Sigterm \/ Sigint \/ Abort \/ Kill \/ WriteFails \/ StopWriteFails
        \/ OutageBegins \/ Damage
  BY DEF Next, MainStep, Start, LoadScriptIds, LoadState, LoadInt, LoadGarbled,
         NoFile, Seed, LoopTop, Dispatch, DispatchNothing, Exit, ReadCursor,
         StoreCursor, WriteTmp, CloseTmp, RenameTmp, Drained, StopWrite,
         StopClose, StopRename, NewEvent, OutageEnds, SaveQueue, Rebuild,
         Process

-----------------------------------------------------------------------------
(* The type invariant *)

\* What a file holds has a kind and ids.
LEMMA ContentsType ==
    ASSUME NEW c \in Contents
    PROVE  /\ c = [kind |-> c.kind, ids |-> c.ids]
           /\ c.kind \in {"state", "int", "missing", "empty", "garbled"}
           /\ c.ids \in Ids
           /\ c.kind \notin {"state", "int"} => c.ids = NoIds
           /\ c.kind = "int" => \A p \in Plugin : c.ids[p] # NoId
           /\ \A p, q \in Plugin : c.kind # "state" => c.ids[p] = c.ids[q]
  BY EventIdFileAssumption DEF Contents, State, Legacy, Other, Ids, NoIds, NoId, EventId

\* A state file is a content.
LEMMA StateType == \A ids \in Ids : State(ids) \in Contents
  BY DEF Contents

\* So are no file, an empty and a garbled one.
LEMMA OtherType == \A k \in {"missing", "empty", "garbled"} : Other(k) \in Contents
  BY DEF Contents

\* No id at all is a map of ids.
LEMMA NoIdsType == NoIds \in Ids
  BY DEF NoIds, Ids

\* Mixed contents have ids of one or the other.
LEMMA OverlayType ==
    ASSUME NEW ids \in Ids, NEW under \in Contents, NEW c \in Overlay(ids, under)
    PROVE  /\ c \in Contents
           /\ \/ c = Other("garbled")
              \/ c.kind = "state" /\ c.ids = ids
              \/ /\ c.kind = "state" /\ under.kind = "state"
                 /\ \A p \in Plugin : c.ids[p] \in {ids[p], under.ids[p]}
<1>1. under.ids \in Ids
  BY ContentsType
<1>2. CASE c = State(ids)
  BY <1>2, StateType DEF State
<1>3. CASE c = Other("garbled")
  BY <1>3, OtherType
<1>4. ASSUME under.kind = "state", NEW S \in SUBSET Plugin,
             c = State([p \in Plugin |-> IF p \in S THEN ids[p] ELSE under.ids[p]])
      PROVE  /\ c \in Contents
             /\ c.kind = "state"
             /\ \A p \in Plugin : c.ids[p] \in {ids[p], under.ids[p]}
  <2> DEFINE m == [p \in Plugin |-> IF p \in S THEN ids[p] ELSE under.ids[p]]
  <2>1. m \in Ids
    BY <1>1 DEF Ids
  <2>2. \A p \in Plugin : m[p] \in {ids[p], under.ids[p]}
    OBVIOUS
  <2> HIDE DEF m
  <2>3. c = State(m)
    BY <1>4 DEF m
  <2> QED BY <1>4, <2>1, <2>2, <2>3, StateType DEF State
<1> QED BY <1>2, <1>3, <1>4 DEF Overlay

\* Flush writes the temporary file or the file.
LEMMA FlushType ==
    ASSUME TypeOK, Flush
    PROVE  file' \in Contents /\ tmp' \in Contents
  BY OverlayType, StateType DEF TypeOK, Flush

\* The initial states are well typed.
LEMMA TypeInit == Init => TypeOK
<1> SUFFICES ASSUME Init PROVE TypeOK
  OBVIOUS
<1>1. file \in Contents /\ tmp \in Contents
  BY EventIdFileAssumption, OtherType DEF Init, Contents, EventId
<1>2. NoIds \in Ids /\ latest \in EventId
  BY NoIdsType, EventIdFileAssumption DEF Init, EventId
<1>3. /\ waived \in [Plugin -> SUBSET EventId] /\ handled \in [Plugin -> SUBSET EventId]
      /\ {cursor, sent, data} \subseteq Ids /\ oldest = NoId
      /\ {outage, continuing} \subseteq BOOLEAN
  BY <1>2, EventIdFileAssumption DEF Init, EventId
<1>4. main = main0 /\ stop = stop0 /\ excuse = excuse0
  BY DEF Init
<1>5. budget \in [signals : Nat, faults : Nat, damage : 0 .. MaxDamage]
  BY EventIdFileAssumption DEF Init
<1> QED
  BY <1>1, <1>2, <1>3, <1>4, <1>5 DEF TypeOK, main0, stop0, excuse0, MainSteps


\* The id that a rebuilt file gives every plugin: the one before the oldest that is
\* queued, or the latest that was handled.
Seen == UNION {handled[p] : p \in Plugin}
ResumeId ==
    IF oldest # NoId THEN ResumeBeforeQueued
    ELSE CHOOSE e \in Seen : \A f \in Seen : f <= e

\* The id a rebuild resumes from is an id.
LEMMA ResumeType ==
    ASSUME TypeOK, oldest # NoId \/ Seen # {}
    PROVE  ResumeId \in EventId \cup {NoId}
<1>1. CASE oldest # NoId
  BY <1>1, EventIdFileAssumption DEF ResumeId, ResumeBeforeQueued, TypeOK, EventId, NoId
<1>2. CASE oldest = NoId
  <2>1. Seen # {}
    BY <1>2
  <2>2. Seen \in SUBSET EventId
    BY DEF TypeOK, Seen
  <2>3. Seen \in SUBSET (0 .. MaxId)
    BY <2>2 DEF EventId
  <2>4. \E e \in Seen : \A f \in Seen : f <= e
    BY <2>1, <2>3, Largest, EventIdFileAssumption
  <2> QED BY <1>2, <2>2, <2>4 DEF ResumeId
<1> QED BY <1>1, <1>2

\* What a rebuild of the file does to it.
LEMMA RebuildEffect ==
    ASSUME TypeOK, Rebuild
    PROVE  /\ ResumeId \in EventId \cup {NoId}
           /\ file' = State([p \in Plugin |-> ResumeId])
           /\ IF oldest # NoId THEN UNCHANGED waived
              ELSE Waive([p \in Plugin |-> ResumeId])
           /\ oldest # NoId \/ Seen # {}
           /\ UNCHANGED <<tmp, processVars, outside, handled, excuse, budget>>
<1>1. oldest # NoId \/ Seen # {}
  BY DEF Rebuild, Seen
<1> QED BY <1>1, ResumeType DEF Rebuild, ResumeId, Seen

FilesType == file \in Contents /\ tmp \in Contents
\* A step leaves the files well typed.
LEMMA FilesTyped == TypeOK /\ [Next]_vars => FilesType'
<1> SUFFICES ASSUME TypeOK, [Next]_vars PROVE FilesType'
  OBVIOUS
<1> USE DEF FilesType
<1>1. FilesType
  BY DEF TypeOK
<1>2. CASE CloseTmp
  BY <1>2, FlushType DEF CloseTmp
<1>3. CASE Sigint
  BY <1>1, <1>3, FlushType DEF Sigint
<1>4. CASE Abort
  BY <1>1, <1>4, FlushType DEF Abort
<1>5. CASE WriteTmp \/ StopWrite
  BY <1>1, <1>5, OtherType DEF WriteTmp, StopWrite
<1>6. CASE RenameTmp \/ StopRename
  BY <1>1, <1>6, OtherType DEF RenameTmp, StopRename
<1>7. CASE StopClose
  BY <1>1, <1>7, StateType DEF StopClose, TypeOK
<1>8. CASE Damage
  BY <1>1, <1>8, OtherType DEF Damage
<1>9. CASE Rebuild
  BY <1>1, <1>9, RebuildEffect, StateType DEF Ids
<1> QED
  BY <1>1, <1>2, <1>3, <1>4, <1>5, <1>6, <1>7, <1>8, <1>9, FilesFrame

\* The oldest id that is pending, if there is one.
LEMMA SavedOldest ==
    ASSUME TypeOK, SaveQueue
    PROVE  /\ oldest' \in EventId \cup {NoId}
           /\ oldest' # NoId =>
                \E p \in Plugin : Pending(p) /\ oldest' = sent[p]
<1> DEFINE waiting == {sent[p] : p \in {q \in Plugin : Pending(q)}}
<1>1. oldest' = IF waiting = {} THEN NoId
                ELSE CHOOSE e \in waiting : \A f \in waiting : e <= f
  BY DEF SaveQueue
<1>2. \A e \in waiting : e \in EventId /\ \E p \in Plugin : Pending(p) /\ e = sent[p]
  BY DEF TypeOK, Ids, Pending, EventId, NoId
<1> HIDE DEF waiting
<1>3. waiting \in SUBSET Nat
  BY <1>2 DEF EventId
<1>4. CASE waiting # {}
  <2>1. \E e \in waiting : \A f \in waiting : e <= f
    BY <1>3, <1>4, Smallest
  <2>2. oldest' \in waiting
    BY <1>1, <1>4, <2>1
  <2> QED BY <1>2, <2>2
<1> QED BY <1>1, <1>4

IdsType == cursor \in Ids /\ sent \in Ids /\ data \in Ids
\* A step leaves the ids well typed.
LEMMA IdsTyped == TypeOK /\ [Next]_vars => IdsType'
<1> SUFFICES ASSUME TypeOK, [Next]_vars PROVE IdsType'
  OBVIOUS
<1> USE DEF IdsType
<1>1. IdsType
  BY DEF TypeOK
<1>2. ASSUME NEW ids \in Ids, Adopt(ids) PROVE cursor' \in Ids /\ sent' \in Ids
  BY <1>1, <1>2 DEF Adopt, Ids
<1>3. CASE LoadState \/ LoadInt
  <2>1. file.ids \in Ids
    BY ContentsType DEF TypeOK
  <2> QED BY <1>2, <1>3, <2>1 DEF LoadState, LoadInt
<1>4. CASE Seed
  <2>1. [p \in Plugin |-> LastEventId] \in Ids
    BY DEF LastEventId, TypeOK, Ids
  <2> QED BY <1>2, <1>4, <2>1 DEF Seed
<1>5. CASE LoadGarbled \/ Exit \/ Kill
  BY <1>1, <1>5, NoIdsType DEF LoadGarbled, Exit, Kill, Lost
<1>6. CASE Dispatch
  <2>1. NextEvent \in EventId
    BY <1>6, NextEventIsNext, EventIdFileAssumption DEF Dispatch, TypeOK, EventId
  <2> QED BY <1>1, <1>6, <2>1 DEF Dispatch, Ids
<1>7. CASE \E p \in Plugin : Process(p)
  BY <1>1, <1>7 DEF Process, Ids
<1>8. CASE StoreCursor
  BY <1>1, <1>8 DEF StoreCursor, TypeOK, Ids
<1>9. CASE Drained
  BY <1>1, <1>9 DEF Drained
<1> QED
  BY <1>1, <1>3, <1>4, <1>5, <1>6, <1>7, <1>8, <1>9, IdsFrame

OutsideType ==
    /\ latest \in EventId /\ outage \in BOOLEAN /\ oldest \in EventId \cup {NoId}
\* A step leaves what is outside well typed.
LEMMA OutsideTyped == TypeOK /\ [Next]_vars => OutsideType'
<1> SUFFICES ASSUME TypeOK, [Next]_vars PROVE OutsideType'
  OBVIOUS
<1> USE DEF OutsideType
<1>1. OutsideType
  BY DEF TypeOK
<1>2. CASE NewEvent \/ OutageBegins \/ OutageEnds
  <2>1. latest' \in EventId
    BY <1>1, <1>2, EventIdFileAssumption
    DEF NewEvent, OutageBegins, OutageEnds, EventId
  <2> QED BY <1>1, <1>2, <2>1 DEF NewEvent, OutageBegins, OutageEnds
<1>3. CASE SaveQueue
  BY <1>1, <1>3, SavedOldest DEF SaveQueue
<1> QED
  BY <1>1, <1>2, <1>3, OutsideFrame

HistoryType == handled \in [Plugin -> SUBSET EventId] /\ waived \in [Plugin -> SUBSET EventId]
\* A step leaves the histories well typed.
LEMMA HistoryTyped == TypeOK /\ [Next]_vars => HistoryType'
<1> SUFFICES ASSUME TypeOK, [Next]_vars PROVE HistoryType'
  OBVIOUS
<1> USE DEF HistoryType
<1>1. HistoryType
  BY DEF TypeOK
<1>2. ASSUME NEW m \in Ids, Waive(m) PROVE waived' \in [Plugin -> SUBSET EventId]
  <2>1. \A p \in Plugin : (1 .. m[p]) \ handled[p] \subseteq EventId
    BY EventIdFileAssumption DEF Ids, EventId, NoId
  <2>2. waived' = [p \in Plugin |-> waived[p] \cup ((1 .. m[p]) \ handled[p])]
    BY <1>2 DEF Waive
  <2> QED BY <1>1, <2>1, <2>2
<1>3. CASE Seed
  <2>1. [p \in Plugin |-> IF Takes(p) THEN latest ELSE NoId] \in Ids
    BY DEF TypeOK, Ids
  <2> QED BY <1>1, <1>2, <1>3, <2>1 DEF Seed
<1>4. CASE Rebuild
  <2>1. [p \in Plugin |-> ResumeId] \in Ids
    BY <1>4, RebuildEffect DEF Ids
  <2> QED BY <1>1, <1>2, <1>4, <2>1, RebuildEffect
<1>5. ASSUME NEW p \in Plugin, Process(p) PROVE HistoryType'
  <2>1. sent[p] \in EventId
    BY <1>5 DEF Process, Pending, TypeOK, Ids, EventId, NoId
  <2>2. {sent[p]} \subseteq EventId /\ 1 .. sent[p] - 1 \subseteq EventId
    BY <2>1, EventIdFileAssumption DEF EventId
  <2>3. handled' = [handled EXCEPT ![p] = @ \cup {sent[p]}]
    BY <1>5 DEF Process
  <2>4. \/ waived' = waived
        \/ waived' = [waived EXCEPT ![p] = @ \cup ((1 .. sent[p] - 1) \ handled[p])]
    BY <1>5 DEF Process
  <2> QED BY <1>1, <2>2, <2>3, <2>4
<1> QED
  BY <1>1, <1>3, <1>4, <1>5, HistoryFrame


ExcuseType ==
    /\ excuse \in [torn : BOOLEAN, failed : BOOLEAN, aborted : BOOLEAN, spoilt : BOOLEAN]
    /\ budget \in [signals : Nat, faults : Nat, damage : 0 .. MaxDamage]
\* A step leaves the excuses and the bounds well typed.
LEMMA ExcuseTyped == TypeOK /\ [Next]_vars => ExcuseType'
<1> SUFFICES ASSUME TypeOK, [Next]_vars PROVE ExcuseType'
  OBVIOUS
<1>1. ExcuseType
  BY DEF TypeOK, ExcuseType
<1>2. ASSUME NEW k \in {"signals", "faults", "damage"}, Spend(k)
      PROVE  budget' \in [signals : Nat, faults : Nat, damage : 0 .. MaxDamage]
  <2>1. budget[k] - 1 \in Nat /\ (k = "damage" => budget[k] - 1 \in 0 .. MaxDamage)
    BY <1>1, <1>2, EventIdFileAssumption DEF Spend, ExcuseType
  <2> QED BY <1>1, <1>2, <2>1 DEF Spend, ExcuseType
<1>3. budget' \in [signals : Nat, faults : Nat, damage : 0 .. MaxDamage]
  BY <1>1, <1>2, BudgetFrame
  DEF ExcuseType, Sigterm, Sigint, Abort, Kill, WriteFails, StopWriteFails,
      OutageBegins, Damage
<1>4. excuse' \in [torn : BOOLEAN, failed : BOOLEAN, aborted : BOOLEAN, spoilt : BOOLEAN]
  BY <1>1, ExcuseFrame
  DEF ExcuseType, Start, WriteFails, StopWriteFails, Sigterm, Sigint, Abort, StopBegins
<1> QED BY <1>3, <1>4 DEF ExcuseType

StopType ==
    /\ continuing \in BOOLEAN
    /\ stop \in [pc : {"off", "drain", "write", "close", "rename"}, buf : Ids,
                 saves : {0, 1}]
\* A step leaves a stop well typed.
LEMMA StopTyped == TypeOK /\ [Next]_vars => StopType'
<1> SUFFICES ASSUME TypeOK, [Next]_vars PROVE StopType'
  OBVIOUS
<1> DEFINE Record == [pc : {"off", "drain", "write", "close", "rename"}, buf : Ids,
                      saves : {0, 1}]
<1>1. /\ StopType /\ cursor \in Ids /\ NoIds \in Ids
      /\ stop \in Record /\ continuing \in BOOLEAN
  BY NoIdsType DEF TypeOK, StopType
<1>6. stop0 \in Record
  BY <1>1 DEF stop0
<1>2. CASE LoadGarbled \/ Exit \/ Kill \/ Abort
  <2>1. stop' \in {stop, stop0} /\ continuing' \in {continuing, TRUE}
    BY <1>2 DEF LoadGarbled, Exit, Kill, Abort, Lost
  <2>2. stop' \in Record /\ continuing' \in BOOLEAN
    BY <1>1, <1>6, <2>1
  <2> QED BY <2>2 DEF StopType
<1>3. CASE Sigterm \/ Sigint
  BY <1>1, <1>3 DEF StopType, Sigterm, Sigint, StopBegins
<1>4. CASE Drained \/ StopWrite \/ StopClose
  BY <1>1, <1>4 DEF StopType, Drained, StopWrite, StopClose
<1>5. CASE StopRename \/ StopWriteFails
  <2>1. stop' = AfterStopSave /\ continuing' = continuing
    BY <1>5 DEF StopRename, StopWriteFails
  <2>2. [stop EXCEPT !.pc = "write", !.saves = 1] \in Record
    BY <1>1
  <2>3. stop' \in Record
    BY <1>1, <1>6, <2>1, <2>2 DEF AfterStopSave
  <2> QED BY <1>1, <2>1, <2>3 DEF StopType
<1> QED BY <1>1, <1>2, <1>3, <1>4, <1>5, StopFrame DEF StopType

MainRecord ==
    [pc : MainSteps, todo : SUBSET Plugin, now : SUBSET Plugin,
     at : EventId \cup {NoId}, buf : Ids,
     inode : {"none", "tmp", "shared", "file", "orphan"},
     next : {"loop", "readFile", "save"}]
\* A step leaves the main thread well typed.
LEMMA MainTyped == TypeOK /\ [Next]_vars /\ StepInv => main' \in MainRecord
<1> SUFFICES ASSUME TypeOK, [Next]_vars, StepInv PROVE main' \in MainRecord
  OBVIOUS
<1> USE DEF MainRecord, MainSteps
<1>1. main \in MainRecord /\ cursor \in Ids /\ data \in Ids /\ NoIds \in Ids
  BY NoIdsType DEF TypeOK
<1>2. main0 \in MainRecord
  BY <1>1 DEF main0
<1>3. ASSUME NEW step \in MainSteps, Goto(step) PROVE main' \in MainRecord
  BY <1>1, <1>3 DEF Goto
<1>4. CASE Start \/ LoadScriptIds \/ LoadState \/ LoadInt \/ LoopTop
  BY <1>3, <1>4 DEF Start, LoadScriptIds, LoadState, LoadInt, LoopTop
<1>5. CASE LoadGarbled \/ Exit \/ Kill
  BY <1>2, <1>3, <1>5 DEF LoadGarbled, Exit, Kill, Lost
<1>6. CASE NoFile \/ Seed \/ Dispatch \/ DispatchNothing
  BY <1>1, <1>6, ZenonT(60) DEF NoFile, Seed, Dispatch, DispatchNothing, BeginSave
<1>7. CASE ReadCursor
  <2>1. ASSUME NEW p \in main.todo PROVE cursor[p] \in EventId \cup {NoId}
    BY <1>1, <2>1 DEF Ids
  <2>2. CASE Goto("write")
    BY <1>3, <2>2
  <2>3. ASSUME NEW p \in main.todo,
               main' = [main EXCEPT !.pc = "store", !.todo = @ \ {p}, !.now = {p},
                               !.at = cursor[p]]
        PROVE  main' \in MainRecord
    <3>1. p \in Plugin /\ cursor[p] \in EventId \cup {NoId}
      BY <1>1, <2>1
    <3> QED BY <1>1, <2>3, <3>1
  <2> QED BY <1>7, <2>2, <2>3 DEF ReadCursor
<1>8. CASE StoreCursor \/ WriteTmp \/ Sigint \/ Abort
  BY <1>1, <1>8, ZenonT(60) DEF StoreCursor, WriteTmp, Sigint, Abort, NoId
<1>9. CASE CloseTmp
  BY <1>3, <1>9 DEF CloseTmp
<1>10. CASE RenameTmp \/ WriteFails
  <2>1. main.next \in MainSteps
    BY <1>1, <1>10 DEF RenameTmp, WriteFails, At, StepInv, SaveSteps
  <2> QED BY <1>1, <1>10, <2>1 DEF RenameTmp, WriteFails, AfterSave
<1>11. CASE StopWrite \/ StopRename
  BY <1>1, <1>11 DEF StopWrite, StopRename
<1> QED
  BY <1>1, <1>4, <1>5, <1>6, <1>7, <1>8, <1>9, <1>10, <1>11, MainFrame

\* Every step keeps the type invariant.
LEMMA TypeStep == TypeOK /\ StepInv /\ [Next]_vars => TypeOK'
  BY FilesTyped, IdsTyped, OutsideTyped, HistoryTyped, ExcuseTyped, StopTyped, MainTyped
  DEF TypeOK, FilesType, IdsType, OutsideType, HistoryType, ExcuseType, StopType,
      MainRecord

-----------------------------------------------------------------------------
(* What the steps do to the fields of main and stop *)

\* After a save the main thread goes on where it was to.
LEMMA NextType == TypeOK => main.next \in {"loop", "readFile", "save"}
  BY DEF TypeOK

\* The main thread after a step that only moves it on.
LEMMA GotoEffect ==
    ASSUME TypeOK, NEW step, Goto(step)
    PROVE  /\ main'.pc = step /\ main'.todo = main.todo /\ main'.now = main.now
           /\ main'.at = main.at /\ main'.buf = main.buf
           /\ main'.inode = main.inode /\ main'.next = main.next
  BY DEF TypeOK, Goto

\* The main thread after it found no file.
LEMMA NoFileEffect ==
    ASSUME TypeOK, NoFile
    PROVE  /\ main'.pc = "ask" /\ main'.todo = main.todo /\ main'.now = main.now
           /\ main'.at = main.at /\ main'.buf = main.buf
           /\ main'.inode = main.inode
           /\ main'.next = IF file.kind = "missing" THEN "save" ELSE "loop"
  BY DEF TypeOK, NoFile

\* The main thread after the first ids were taken from the server.
LEMMA SeedEffect ==
    ASSUME TypeOK, Seed
    PROVE  /\ main'.pc = IF main.next = "save" THEN "read" ELSE "loop"
           /\ main'.todo = IF main.next = "save" THEN Plugin ELSE main.todo
           /\ main'.now = main.now /\ main'.at = main.at /\ main'.buf = main.buf
           /\ main'.inode = main.inode
           /\ main'.next = IF main.next = "save" THEN "loop" ELSE main.next
  BY DEF TypeOK, Seed

\* The main thread at the start of a save.
LEMMA BeginSaveEffect ==
    ASSUME TypeOK, BeginSave
    PROVE  /\ main'.pc = "read" /\ main'.todo = Plugin /\ main'.now = main.now
           /\ main'.at = main.at /\ main'.buf = main.buf
           /\ main'.inode = main.inode /\ main'.next = "readFile"
  BY DEF TypeOK, BeginSave

\* The main thread after it read a cursor to collect.
LEMMA ReadCursorEffect ==
    ASSUME TypeOK, ReadCursor
    PROVE  /\ main.pc = "read" /\ stop.pc = "off"
           /\ main'.buf = main.buf /\ main'.inode = main.inode /\ main'.next = main.next
           /\ \/ main'.pc = "write" /\ main'.now = main.now /\ main'.at = main.at
              \/ \E p \in Plugin : /\ main'.pc = "store" /\ main'.now = {p}
                                   /\ main'.at = cursor[p]
<1>1. CASE Goto("write")
  BY <1>1, GotoEffect DEF ReadCursor, At
<1>2. ASSUME NEW p \in main.todo,
             main' = [main EXCEPT !.pc = "store", !.todo = @ \ {p}, !.now = {p},
                             !.at = cursor[p]]
      PROVE  /\ p \in Plugin /\ main'.pc = "store" /\ main'.now = {p}
             /\ main'.at = cursor[p] /\ main'.buf = main.buf
             /\ main'.inode = main.inode /\ main'.next = main.next
  BY <1>2 DEF TypeOK
<1> QED BY <1>1, <1>2 DEF ReadCursor, At

\* The main thread after it collected a cursor.
LEMMA StoreCursorEffect ==
    ASSUME TypeOK, StoreCursor
    PROVE  /\ main'.pc = "read" /\ main'.todo = main.todo /\ main'.now = {}
           /\ main'.at = NoId /\ main'.buf = main.buf
           /\ main'.inode = main.inode /\ main'.next = main.next
  BY DEF TypeOK, StoreCursor

\* The main thread after it opened the temporary and wrote into its buffer.
LEMMA WriteTmpEffect ==
    ASSUME TypeOK, WriteTmp
    PROVE  /\ main'.pc = "close" /\ main'.todo = main.todo
           /\ main'.now = main.now /\ main'.at = main.at /\ main'.buf = data
           /\ main'.inode = "tmp" /\ main'.next = main.next
  BY DEF TypeOK, WriteTmp

\* The main thread after a save.
LEMMA AfterSaveEffect ==
    ASSUME TypeOK, main' = AfterSave
    PROVE  /\ main'.pc = main.next /\ main'.todo = main.todo
           /\ main'.now = main.now /\ main'.at = main.at /\ main'.buf = NoIds
           /\ main'.inode = "none" /\ main'.next = main.next
  BY DEF TypeOK, AfterSave

\* The main thread after an exception went through it.
LEMMA UnwindEffect ==
    ASSUME TypeOK, Sigint \/ Abort
    PROVE  /\ main'.pc = "exit" /\ main'.todo = main.todo
           /\ main'.now = main.now /\ main'.at = main.at /\ main'.buf = NoIds
           /\ main'.inode = "none" /\ main'.next = main.next
  BY ZenonT(60) DEF TypeOK, Sigint, Abort

\* A stop after it wrote the temporary.
LEMMA StopWriteEffect ==
    ASSUME TypeOK, StopWrite
    PROVE  /\ main'.pc = main.pc /\ main'.todo = main.todo
           /\ main'.now = main.now /\ main'.at = main.at /\ main'.buf = main.buf
           /\ main'.inode = IF main.inode = "tmp" THEN "shared" ELSE main.inode
           /\ main'.next = main.next
  BY DEF TypeOK, StopWrite

\* A stop after it renamed the temporary.
LEMMA StopRenameEffect ==
    ASSUME TypeOK, StopRename
    PROVE  /\ main'.pc = main.pc /\ main'.todo = main.todo
           /\ main'.now = main.now /\ main'.at = main.at /\ main'.buf = main.buf
           /\ main'.inode = IF main.inode = "shared" THEN "file"
                            ELSE IF main.inode = "file" THEN "orphan" ELSE main.inode
           /\ main'.next = main.next
  BY DEF TypeOK, StopRename

\* The process after a load of a file that cannot be read.
LEMMA GarbledEffect ==
    ASSUME TypeOK, LoadGarbled
    PROVE  /\ main.pc = "readFile" /\ stop.pc = "off"
           /\ \/ Lost
              \/ /\ main'.pc = "loop" /\ main'.now = main.now /\ main'.buf = main.buf
                 /\ main'.inode = main.inode /\ main'.next = main.next
                 /\ main'.at = main.at
                 /\ UNCHANGED <<cursor, sent, data, continuing, stop>>
<1>1. Goto("loop") => /\ main'.pc = "loop" /\ main'.now = main.now
                      /\ main'.buf = main.buf /\ main'.inode = main.inode
                      /\ main'.next = main.next /\ main'.at = main.at
  BY GotoEffect
<1> QED BY <1>1 DEF LoadGarbled, At

\* A stop after any of its steps.
LEMMA StopEffect ==
    ASSUME TypeOK
    PROVE  /\ Sigterm \/ Sigint =>
                /\ stop'.pc = "drain" /\ stop'.buf = stop.buf /\ stop'.saves = stop.saves
                /\ ~continuing'
           /\ Drained =>
                /\ stop'.pc = "write" /\ stop'.buf = cursor /\ stop'.saves = stop.saves
           /\ StopWrite =>
                /\ stop'.pc = "close" /\ stop'.buf = stop.buf /\ stop'.saves = stop.saves
           /\ StopClose =>
                /\ stop'.pc = "rename" /\ stop'.buf = stop.buf /\ stop'.saves = stop.saves
           /\ StopRename \/ StopWriteFails =>
                IF stop.saves = 0
                THEN stop'.pc = "write" /\ stop'.buf = stop.buf /\ stop'.saves = 1
                ELSE stop'.pc = "off" /\ stop'.buf = NoIds /\ stop'.saves = 0
           /\ Abort => stop'.pc = "off" /\ stop'.buf = NoIds /\ stop'.saves = 0
<1> DEFINE Record == [pc : {"off", "drain", "write", "close", "rename"}, buf : Ids,
                      saves : {0, 1}]
<1>1. stop \in Record
  BY DEF TypeOK
<1>2. Sigterm \/ Sigint =>
        /\ stop'.pc = "drain" /\ stop'.buf = stop.buf /\ stop'.saves = stop.saves
        /\ ~continuing'
  BY <1>1 DEF Sigterm, Sigint, StopBegins
<1>3. Drained => stop'.pc = "write" /\ stop'.buf = cursor /\ stop'.saves = stop.saves
  BY <1>1 DEF Drained
<1>4. StopWrite =>
        stop'.pc = "close" /\ stop'.buf = stop.buf /\ stop'.saves = stop.saves
  BY <1>1 DEF StopWrite
<1>5. StopClose =>
        stop'.pc = "rename" /\ stop'.buf = stop.buf /\ stop'.saves = stop.saves
  BY <1>1 DEF StopClose
<1>6. ASSUME stop' = AfterStopSave
      PROVE  IF stop.saves = 0
             THEN stop'.pc = "write" /\ stop'.buf = stop.buf /\ stop'.saves = 1
             ELSE stop'.pc = "off" /\ stop'.buf = NoIds /\ stop'.saves = 0
  BY <1>1, <1>6 DEF AfterStopSave, stop0
<1>7. Abort => stop'.pc = "off" /\ stop'.buf = NoIds /\ stop'.saves = 0
  BY DEF Abort, stop0
<1> QED BY <1>2, <1>3, <1>4, <1>5, <1>6, <1>7 DEF StopRename, StopWriteFails

\* What is left when the process is gone.
LEMMA LostEffect ==
    ASSUME Lost
    PROVE  /\ cursor' = NoIds /\ sent' = NoIds /\ data' = NoIds /\ continuing' = TRUE
           /\ main'.pc = "down" /\ main'.now = {} /\ main'.inode = "none"
           /\ main'.buf = NoIds /\ main'.next = "loop"
           /\ stop'.pc = "off" /\ stop'.buf = NoIds /\ stop'.saves = 0
  BY DEF Lost, main0, stop0


-----------------------------------------------------------------------------
(* Steps: where the main thread and a stop are *)

\* Every step keeps the main thread and a stop where they may be.
LEMMA StepStep == TypeOK /\ StepInv /\ [Next]_vars => StepInv'
<1> SUFFICES ASSUME TypeOK, StepInv, [Next]_vars PROVE StepInv'
  OBVIOUS
<1> DEFINE Shape(m) ==
      /\ m.inode # "none" <=> m.pc \in {"close", "rename"}
      /\ m.now # {} => m.pc \in {"store", "exit"}
      /\ m.pc = "ask" => m.next # "readFile"
      /\ m.pc \in SaveSteps => m.next # "save"
<1>1. Shape(main')
  <2> USE DEF SaveSteps
  <2>0. Shape(main)
    BY DEF StepInv
  <2>1. CASE Start \/ LoadScriptIds \/ LoadState \/ LoadInt \/ LoopTop
    BY <2>0, <2>1, GotoEffect DEF Start, LoadScriptIds, LoadState, LoadInt, LoopTop, At
  <2>2. CASE LoadGarbled
    BY <2>0, <2>2, GarbledEffect, LostEffect
  <2>3. CASE Exit \/ Kill
    BY <2>0, <2>3, LostEffect DEF Exit, Kill
  <2>4. CASE NoFile
    BY <2>0, <2>4, NoFileEffect DEF NoFile, At
  <2>5. CASE Seed
    BY <2>0, <2>5, SeedEffect DEF Seed, At
  <2>6. CASE Dispatch \/ DispatchNothing
    BY <2>0, <2>6, BeginSaveEffect DEF Dispatch, DispatchNothing, At
  <2>7. CASE ReadCursor
    BY <2>0, <2>7, ReadCursorEffect
  <2>8. CASE StoreCursor
    BY <2>0, <2>8, StoreCursorEffect DEF StoreCursor, At
  <2>9. CASE WriteTmp
    BY <2>0, <2>9, WriteTmpEffect DEF WriteTmp, At
  <2>10. CASE CloseTmp
    BY <2>0, <2>10, GotoEffect DEF CloseTmp, At
  <2>11. CASE RenameTmp \/ WriteFails
    BY <2>0, <2>11, AfterSaveEffect, NextType DEF RenameTmp, WriteFails, At
  <2>12. CASE Sigint \/ Abort
    BY <2>0, <2>12, UnwindEffect
  <2>13. CASE StopWrite \/ StopRename
    BY <2>0, <2>13, StopWriteEffect, StopRenameEffect
  <2> HIDE DEF Shape
  <2> QED
    BY <2>0, <2>1, <2>2, <2>3, <2>4, <2>5, <2>6, <2>7, <2>8, <2>9, <2>10, <2>11, <2>12,
        <2>13, MainFrame
<1>2. /\ stop'.pc # "off" => ~continuing'
      /\ stop'.pc \in {"off", "drain"} => stop'.saves = 0
  <2>0. /\ stop.pc # "off" => ~continuing
        /\ stop.pc \in {"off", "drain"} => stop.saves = 0
    BY DEF StepInv
  <2>1. CASE LoadGarbled \/ Exit \/ Kill
    BY <2>0, <2>1, GarbledEffect, LostEffect DEF Exit, Kill
  <2>2. CASE Sigterm \/ Sigint \/ Abort
    BY <2>0, <2>2, StopEffect DEF Sigterm, Sigint, Abort, CanSignal
  <2>3. CASE Drained \/ StopWrite \/ StopClose \/ StopRename \/ StopWriteFails
    BY <2>0, <2>3, StopEffect DEF Drained, StopWrite, StopClose, StopRename,
        StopWriteFails
  <2> QED BY <2>0, <2>1, <2>2, <2>3, StopFrame
<1>3. /\ ~continuing' => main'.pc # "down"
      /\ main'.pc \in {"down", "scripts"} => cursor' = NoIds /\ sent' = NoIds
  <2>1. CASE LoadGarbled \/ Exit \/ Kill
    BY <2>1, GarbledEffect, LostEffect DEF Exit, Kill, StepInv
  <2>2. CASE ~(LoadGarbled \/ Exit \/ Kill)
    <3>1. main'.pc \in {"down", "scripts"} =>
            /\ main.pc \in {"down", "scripts"}
            /\ main'.pc = "down" => main.pc = "down"
      <4> USE DEF StepInv, SaveSteps
      <4>1. CASE Start \/ LoadScriptIds \/ LoadState \/ LoadInt \/ LoopTop
        BY <4>1, GotoEffect DEF Start, LoadScriptIds, LoadState, LoadInt, LoopTop, At
      <4>2. CASE NoFile
        BY <4>2, NoFileEffect DEF NoFile, At
      <4>3. CASE Seed
        BY <4>3, SeedEffect DEF Seed, At
      <4>4. CASE Dispatch \/ DispatchNothing
        BY <4>4, BeginSaveEffect DEF Dispatch, DispatchNothing, At
      <4>5. CASE ReadCursor
        BY <4>5, ReadCursorEffect
      <4>6. CASE StoreCursor
        BY <4>6, StoreCursorEffect DEF StoreCursor, At
      <4>7. CASE WriteTmp
        BY <4>7, WriteTmpEffect DEF WriteTmp, At
      <4>8. CASE CloseTmp
        BY <4>8, GotoEffect DEF CloseTmp, At
      <4>9. CASE RenameTmp \/ WriteFails
        BY <4>9, AfterSaveEffect, NextType DEF RenameTmp, WriteFails, At
      <4>10. CASE Sigint \/ Abort
        BY <4>10, UnwindEffect
      <4>11. CASE StopWrite \/ StopRename
        BY <4>11, StopWriteEffect, StopRenameEffect
      <4> QED
        BY <2>2, <4>1, <4>2, <4>3, <4>4, <4>5, <4>6, <4>7, <4>8, <4>9, <4>10, <4>11,
            MainFrame
    <3>2. main.pc \in {"down", "scripts"} => UNCHANGED <<cursor, sent>>
      <4> SUFFICES ASSUME main.pc \in {"down", "scripts"} PROVE UNCHANGED <<cursor, sent>>
        OBVIOUS
      <4>1. \A p \in Plugin : ~Pending(p)
        BY DEF StepInv, NoIds, NoId, Pending
      <4>2. ~(LoadState \/ LoadInt \/ Seed \/ Dispatch \/ \E p \in Plugin : Process(p))
        BY <4>1 DEF LoadState, LoadInt, Seed, Dispatch, Process, At
      <4>3. CASE Drained \/ StoreCursor
        BY <4>3 DEF Drained, StoreCursor
      <4> QED BY <2>2, <4>2, <4>3, IdsFrame
    <3>3. main.pc = "down" => UNCHANGED continuing
      BY <2>2, StopFrame
      DEF Sigterm, Sigint, CanSignal, Abort, Drained, StopWrite, StopClose, StopRename,
          StopWriteFails
    <3> QED BY <3>1, <3>2, <3>3 DEF StepInv
  <2> QED BY <2>1, <2>2
<1>4. stop'.pc = "rename" => tmp' = State(stop'.buf)
  <2>1. CASE StopClose
    BY <2>1, StopEffect DEF StopClose
  <2>2. CASE stop'.pc = "rename" /\ ~StopClose
    <3>1. ~((LoadGarbled /\ Lost) \/ Exit \/ Kill \/ Sigterm \/ Sigint \/ Abort
            \/ Drained \/ StopWrite \/ StopRename \/ StopWriteFails)
      BY <2>2, StopEffect, LostEffect DEF Exit, Kill
    <3>2. stop' = stop
      BY <2>2, <3>1, StopFrame DEF LoadGarbled
    <3>3. ~(CloseTmp \/ WriteTmp \/ RenameTmp)
      BY <2>2, <3>2 DEF CloseTmp, WriteTmp, RenameTmp, At
    <3>4. tmp' = tmp
      BY <2>2, <3>1, <3>3, FilesFrame DEF Damage, Rebuild
    <3> QED BY <2>2, <3>2, <3>4 DEF StepInv
  <2> QED BY <2>1, <2>2
<1>5. main'.pc = "exit" => ~continuing'
  <2>1. CASE LoopTop
    BY <2>1, GotoEffect DEF LoopTop, At
  <2>2. CASE Sigint
    BY <2>2, StopEffect
  <2>3. CASE Abort
    BY <2>3 DEF Abort, StepInv
  <2>4. CASE LoadGarbled \/ Exit \/ Kill
    BY <2>4, GarbledEffect, LostEffect DEF Exit, Kill
  <2>5. CASE ~(LoopTop \/ Sigint \/ Abort \/ LoadGarbled \/ Exit \/ Kill)
    <3>1. main'.pc = "exit" => main.pc = "exit"
      <4> USE DEF StepInv, SaveSteps
      <4>1. CASE Start \/ LoadScriptIds \/ LoadState \/ LoadInt \/ CloseTmp
        BY <4>1, GotoEffect DEF Start, LoadScriptIds, LoadState, LoadInt, CloseTmp
      <4>2. CASE NoFile \/ Seed \/ Dispatch \/ DispatchNothing
        BY <4>2, NoFileEffect, SeedEffect, BeginSaveEffect DEF Dispatch, DispatchNothing
      <4>3. CASE ReadCursor \/ StoreCursor \/ WriteTmp
        BY <4>3, ReadCursorEffect, StoreCursorEffect, WriteTmpEffect
      <4>4. CASE RenameTmp \/ WriteFails
        BY <4>4, AfterSaveEffect, NextType DEF RenameTmp, WriteFails
      <4>5. CASE StopWrite \/ StopRename
        BY <4>5, StopWriteEffect, StopRenameEffect
      <4> QED BY <2>5, <4>1, <4>2, <4>3, <4>4, <4>5, MainFrame
    <3>2. continuing' => continuing
      BY <2>5, StopFrame, StopEffect
      DEF Sigterm, Drained, StopWrite, StopClose, StopRename, StopWriteFails
    <3> QED BY <3>1, <3>2 DEF StepInv
  <2> QED BY <2>1, <2>2, <2>3, <2>4, <2>5
<1> QED BY <1>1, <1>2, <1>3, <1>4, <1>5 DEF StepInv


\* What the main thread holds between the reading of a cursor and its storing, and
\* between the opening of a file and its closing, was read or opened by one step.
LEMMA HoldsFrame ==
    ASSUME TypeOK, StepInv, [Next]_vars
    PROVE  /\ \/ main'.now = {}
              \/ main'.now = main.now /\ main'.at = main.at
              \/ ReadCursor /\ \E p \in Plugin : main'.now = {p} /\ main'.at = cursor[p]
           /\ \/ main'.inode = "none"
              \/ main'.buf = main.buf /\ main.inode # "none"
              \/ WriteTmp /\ main'.buf = data /\ main'.inode = "tmp"
<1>0. main.inode # "none" <=> main.pc \in {"close", "rename"}
  BY DEF StepInv
<1> DEFINE Now == \/ main'.now = {}
                  \/ main'.now = main.now /\ main'.at = main.at
                  \/ /\ ReadCursor
                     /\ \E p \in Plugin : main'.now = {p} /\ main'.at = cursor[p]
           Buf == \/ main'.inode = "none"
                  \/ main'.buf = main.buf /\ main.inode # "none"
                  \/ WriteTmp /\ main'.buf = data /\ main'.inode = "tmp"
<1>1. Now /\ Buf
  <2>1. CASE Start \/ LoadScriptIds \/ LoadState \/ LoadInt \/ LoopTop
    BY <1>0, <2>1, GotoEffect DEF Start, LoadScriptIds, LoadState, LoadInt, LoopTop, At
  <2>2. CASE LoadGarbled
    BY <1>0, <2>2, GarbledEffect, LostEffect
  <2>3. CASE Exit \/ Kill
    BY <1>0, <2>3, LostEffect DEF Exit, Kill
  <2>4. CASE NoFile
    BY <1>0, <2>4, NoFileEffect DEF NoFile, At
  <2>5. CASE Seed
    BY <1>0, <2>5, SeedEffect DEF Seed, At
  <2>6. CASE Dispatch \/ DispatchNothing
    BY <1>0, <2>6, BeginSaveEffect DEF Dispatch, DispatchNothing, At
  <2>7. CASE ReadCursor
    BY <1>0, <2>7, ReadCursorEffect
  <2>8. CASE StoreCursor
    BY <1>0, <2>8, StoreCursorEffect DEF StoreCursor, At
  <2>9. CASE WriteTmp
    BY <1>0, <2>9, WriteTmpEffect DEF WriteTmp, At
  <2>10. CASE CloseTmp
    BY <1>0, <2>10, GotoEffect DEF CloseTmp, At
  <2>11. CASE RenameTmp \/ WriteFails
    BY <1>0, <2>11, AfterSaveEffect, NextType DEF RenameTmp, WriteFails, At
  <2>12. CASE Sigint \/ Abort
    BY <1>0, <2>12, UnwindEffect
  <2>13. CASE StopWrite \/ StopRename
    BY <1>0, <2>13, StopWriteEffect, StopRenameEffect
  <2> QED BY <2>1, <2>2, <2>3, <2>4, <2>5, <2>6, <2>7, <2>8, <2>9, <2>10, <2>11, <2>12,
         <2>13, MainFrame
<1> QED BY <1>1

-----------------------------------------------------------------------------
(* Ids are everywhere or nowhere *)

\* Plugin.setState takes effect for all plugins or for none of them.
LEMMA AdoptEffect ==
    ASSUME TypeOK, LikeCursor(sent), NEW ids \in Ids, Adopt(ids)
    PROVE  \/ /\ \A p \in Plugin : cursor[p] = NoId /\ sent[p] = NoId
              /\ cursor' = ids /\ sent' = ids
           \/ /\ \A p \in Plugin : cursor[p] # NoId /\ sent[p] # NoId
              /\ cursor' = cursor /\ sent' = sent
<1>1. cursor \in [Plugin -> EventId \cup {NoId}] /\ sent \in [Plugin -> EventId \cup {NoId}]
      /\ ids \in [Plugin -> EventId \cup {NoId}]
  BY DEF TypeOK, Ids
<1>2. CASE \A p \in Plugin : sent[p] = NoId
  <2>1. \A p \in Plugin : Takes(p) /\ cursor[p] = NoId
    BY <1>2 DEF Takes, LikeCursor
  <2>2. cursor' = ids /\ sent' = ids
    BY <1>1, <2>1 DEF Adopt
  <2> QED BY <1>2, <2>1, <2>2
<1>3. CASE \E p \in Plugin : sent[p] # NoId
  <2>1. \A p \in Plugin : cursor[p] # NoId
    BY <1>3 DEF LikeCursor
  <2>2. \A p \in Plugin : sent[p] # NoId /\ ~Takes(p)
    BY <2>1 DEF Takes, LikeCursor
  <2>3. cursor' = cursor /\ sent' = sent
    BY <1>1, <2>2 DEF Adopt
  <2> QED BY <2>1, <2>2, <2>3
<1> QED BY <1>2, <1>3

\* The steps that load a state, and what they leave of the rest.
LEMMA LoadEffect ==
    ASSUME TypeOK, StepInv, LoadState \/ LoadInt \/ Seed
    PROVE  /\ main.pc \in {"readFile", "ask"} /\ stop.pc = "off"
           /\ main'.now = {} /\ main'.inode = "none"
           /\ main'.pc \in {"loop", "read"}
           /\ UNCHANGED <<files, continuing, stop>>
<1>1. CASE LoadState \/ LoadInt
  BY <1>1, GotoEffect DEF LoadState, LoadInt, At, StepInv
<1>2. CASE Seed
  BY <1>2, SeedEffect DEF Seed, At, StepInv
<1> QED BY <1>1, <1>2

\* After a load, the cursors and what was dispatched are what was loaded, or they
\* had ids before and still are what they were.
LEMMA LoadedIds ==
    ASSUME TypeOK, StartInv, LoadState \/ LoadInt \/ Seed
    PROVE  \E ids \in Ids :
              /\ \/ /\ \A p \in Plugin : cursor[p] = NoId /\ sent[p] = NoId
                    /\ cursor' = ids /\ sent' = ids
                 \/ /\ \A p \in Plugin : cursor[p] # NoId /\ sent[p] # NoId
                    /\ cursor' = cursor /\ sent' = sent
              /\ \/ LoadState /\ ids = file.ids /\ data' = file.ids
                 \/ LoadInt /\ ids = file.ids /\ data' = cursor'
                 \/ /\ Seed /\ ids = [p \in Plugin |-> latest] /\ data' = cursor'
                    /\ \A p \in Plugin : ids[p] # NoId
<1>1. LikeCursor(sent)
  BY DEF StartInv
<1>2. CASE LoadState \/ LoadInt
  <2>1. file.ids \in Ids
    BY ContentsType DEF TypeOK
  <2>2. Adopt(file.ids)
    BY <1>2 DEF LoadState, LoadInt
  <2>3. \/ LoadState /\ data' = file.ids
        \/ LoadInt /\ data' = cursor'
    BY <1>2 DEF LoadState, LoadInt
  <2> QED BY <1>1, <2>1, <2>2, <2>3, AdoptEffect
<1>3. CASE Seed
  <2> DEFINE ids == [p \in Plugin |-> latest]
  <2>1. ids \in Ids
    BY DEF TypeOK, Ids
  <2>2. Adopt(ids) /\ data' = cursor'
    BY <1>3 DEF Seed, LastEventId
  <2>3. \A p \in Plugin : ids[p] # NoId
    BY EventIdFileAssumption DEF TypeOK, EventId, NoId
  <2> HIDE DEF ids
  <2>4. \/ /\ \A p \in Plugin : cursor[p] = NoId /\ sent[p] = NoId
           /\ cursor' = ids /\ sent' = ids
        \/ /\ \A p \in Plugin : cursor[p] # NoId /\ sent[p] # NoId
           /\ cursor' = cursor /\ sent' = sent
    BY <1>1, <2>1, <2>2, AdoptEffect
  <2> QED BY <1>3, <2>1, <2>2, <2>3, <2>4 DEF ids
<1> QED BY <1>2, <1>3

\* Cursors get their first ids from a load, and lose them with the process.
LEMMA IdsLike ==
    ASSUME TypeOK, StepInv, StartInv, RereadInv, [Next]_vars
    PROVE  /\ LikeCursor(cursor)' /\ LikeCursor(sent)' /\ LikeCursor(data)'
           /\ \/ \A p \in Plugin : cursor'[p] = NoId <=> cursor[p] = NoId
              \/ LoadState \/ LoadInt \/ Seed \/ Lost
<1>0. LikeCursor(cursor) /\ LikeCursor(sent) /\ LikeCursor(data)
  BY DEF StartInv
<1> USE DEF LikeCursor
<1>1. CASE UNCHANGED <<cursor, sent, data>>
  BY <1>0, <1>1
<1>2. CASE Lost
  BY <1>2, LostEffect DEF NoIds
<1>3. CASE LoadState \/ LoadInt \/ Seed
  <2>1. PICK ids \in Ids :
              /\ \/ /\ \A p \in Plugin : cursor[p] = NoId /\ sent[p] = NoId
                    /\ cursor' = ids /\ sent' = ids
                 \/ /\ \A p \in Plugin : cursor[p] # NoId /\ sent[p] # NoId
                    /\ cursor' = cursor /\ sent' = sent
              /\ \/ LoadState /\ ids = file.ids /\ data' = file.ids
                 \/ LoadInt /\ ids = file.ids /\ data' = cursor'
                 \/ /\ Seed /\ ids = [p \in Plugin |-> latest] /\ data' = cursor'
                    /\ \A p \in Plugin : ids[p] # NoId
    BY <1>3, LoadedIds
  <2>2. LoadState \/ LoadInt => \A p, q \in Plugin : file.ids[p] = NoId <=> file.ids[q] = NoId
    BY DEF StartInv, Uniform
  <2>3. \A p, q \in Plugin : ids[p] = NoId <=> ids[q] = NoId
    BY <2>1, <2>2
  <2>4. LoadState /\ (\E p \in Plugin : cursor[p] # NoId) =>
            \A p \in Plugin : file.ids[p] # NoId
    <3> SUFFICES ASSUME LoadState, NEW q \in Plugin, cursor[q] # NoId
                 PROVE  \A p \in Plugin : file.ids[p] # NoId
      OBVIOUS
    <3>1. main.pc = "readFile" /\ file.kind = "state" /\ cursor # NoIds
      BY DEF LoadState, At, NoIds
    <3> QED BY <3>1 DEF RereadInv
  <2> QED BY <1>0, <1>3, <2>1, <2>3, <2>4
<1>4. CASE Dispatch
  <2>1. \A p \in Plugin : cursor[p] # NoId /\ sent[p] # NoId
    BY <1>0, <1>4 DEF Dispatch, HasCursor
  <2>2. /\ \A p \in Plugin : sent'[p] # NoId
        /\ UNCHANGED <<cursor, data>>
    BY <1>4, NextEventIsNext DEF Dispatch, NoId
  <2> QED BY <1>0, <2>1, <2>2
<1>5. ASSUME NEW p \in Plugin, Process(p)
      PROVE  /\ LikeCursor(cursor)' /\ LikeCursor(sent)' /\ LikeCursor(data)'
             /\ \A q \in Plugin : cursor'[q] = NoId <=> cursor[q] = NoId
  <2>1. sent[p] # NoId
    BY <1>5 DEF Process, Pending, TypeOK, Ids, EventId, NoId
  <2>2. /\ cursor' = [cursor EXCEPT ![p] = sent[p]] /\ UNCHANGED <<sent, data>>
        /\ cursor \in [Plugin -> EventId \cup {NoId}]
    BY <1>5 DEF Process, TypeOK, Ids
  <2>3. \A q \in Plugin : cursor'[q] = NoId <=> cursor[q] = NoId
    BY <1>0, <2>1, <2>2
  <2> QED BY <1>0, <2>2, <2>3
<1>6. CASE StoreCursor
  <2>1. /\ data' = [p \in Plugin |-> IF p \in main.now THEN main.at ELSE data[p]]
        /\ UNCHANGED <<cursor, sent>>
    BY <1>6 DEF StoreCursor
  <2>2. \A p \in main.now, q \in Plugin : main.at = NoId <=> cursor[q] = NoId
    BY DEF StartInv
  <2> QED BY <1>0, <2>1, <2>2
<1>7. CASE Drained
  BY <1>0, <1>7 DEF Drained
<1> HIDE DEF LikeCursor
<1> QED
  BY <1>1, <1>2, <1>3, <1>4, <1>5, <1>6, <1>7, IdsFrame DEF LoadGarbled, Exit, Kill


\* What is flushed to a file has ids if and only if the cursors have.
LEMMA FlushLike ==
    ASSUME TypeOK, StepInv, StartInv, main.pc = "close", Flush
    PROVE  /\ \/ file' = file
              \/ main.inode = "file" /\ file'.kind # "state" /\ file'.ids = NoIds
              \/ main.inode = "file" /\ LikeCursor(file'.ids)
           /\ \/ tmp' = tmp
              \/ main.inode \in {"tmp", "shared"} /\ tmp'.kind # "state" /\ tmp'.ids = NoIds
              \/ main.inode \in {"tmp", "shared"} /\ LikeCursor(tmp'.ids)
           /\ main.inode = "tmp" => tmp'.kind = "state" /\ LikeCursor(tmp'.ids)
<1>1. LikeCursor(main.buf) /\ main.buf \in Ids /\ file \in Contents /\ tmp \in Contents
  BY DEF StepInv, StartInv, TypeOK
<1>2. CASE main.inode = "tmp"
  BY <1>1, <1>2 DEF Flush, State
<1>3. ASSUME NEW under \in Contents, under.kind # "state" \/ LikeCursor(under.ids),
             NEW c \in Overlay(main.buf, under)
      PROVE  \/ c.kind # "state" /\ c.ids = NoIds
             \/ LikeCursor(c.ids)
  <2>1. CASE c = Other("garbled")
    BY <2>1 DEF Other
  <2>2. CASE c.kind = "state" /\ c.ids = main.buf
    BY <1>1, <2>2
  <2>3. CASE /\ under.kind = "state"
             /\ \A p \in Plugin : c.ids[p] \in {main.buf[p], under.ids[p]}
    BY <1>1, <1>3, <2>3 DEF LikeCursor
  <2> QED BY <1>1, <1>3, <2>1, <2>2, <2>3, OverlayType
<1>4. CASE main.inode = "shared"
  <2>1. tmp.kind # "state" \/ LikeCursor(tmp.ids)
    BY <1>4 DEF StartInv
  <2>2. tmp' \in Overlay(main.buf, tmp) /\ file' = file
    BY <1>4 DEF Flush
  <2> QED BY <1>1, <1>3, <1>4, <2>1, <2>2
<1>5. CASE main.inode = "file"
  <2>1. file.kind # "state" \/ LikeCursor(file.ids)
    BY <1>5 DEF StartInv
  <2>2. file' \in Overlay(main.buf, file) /\ tmp' = tmp
    BY <1>5 DEF Flush
  <2> QED BY <1>1, <1>3, <1>5, <2>1, <2>2
<1>6. CASE main.inode \notin {"tmp", "shared", "file"}
  BY <1>6 DEF Flush
<1> QED BY <1>2, <1>4, <1>5, <1>6

\* The temporary file is shared, has lost its name or is about to be renamed ...
TmpIsNext == \/ main.inode \in {"shared", "file", "orphan"}
             \/ main.pc = "rename" \/ stop.pc = "rename"
\* What the main thread left open becomes the file only by the rename of a stop.
LEMMA TmpFrame ==
    ASSUME TypeOK, StepInv, [Next]_vars
    PROVE  /\ TmpIsNext' => \/ TmpIsNext \/ StopWrite \/ StopRename \/ CloseTmp \/ StopClose
           /\ main'.inode = "file" => main.inode = "file" \/ StopRename
<1> DEFINE Inode == main'.inode \in {"shared", "file", "orphan"} =>
                        /\ main.inode \in {"shared", "file", "orphan"} \/ StopWrite \/ StopRename
                        /\ main'.inode = "file" => main.inode = "file" \/ StopRename
           Pc == main'.pc = "rename" => main.pc = "rename" \/ CloseTmp
           Stop == stop'.pc = "rename" => stop.pc = "rename" \/ StopClose
<1>0. main.pc \in SaveSteps => main.next # "save"
  BY DEF StepInv
<1>1. Inode /\ Pc
  <2>1. CASE Start \/ LoadScriptIds \/ LoadState \/ LoadInt \/ LoopTop
    BY <1>0, <2>1, GotoEffect DEF Start, LoadScriptIds, LoadState, LoadInt, LoopTop, At
  <2>2. CASE LoadGarbled
    BY <1>0, <2>2, GarbledEffect, LostEffect
  <2>3. CASE Exit \/ Kill
    BY <1>0, <2>3, LostEffect DEF Exit, Kill
  <2>4. CASE NoFile
    BY <1>0, <2>4, NoFileEffect DEF NoFile, At
  <2>5. CASE Seed
    BY <1>0, <2>5, SeedEffect DEF Seed, At
  <2>6. CASE Dispatch \/ DispatchNothing
    BY <1>0, <2>6, BeginSaveEffect DEF Dispatch, DispatchNothing, At
  <2>7. CASE ReadCursor
    BY <1>0, <2>7, ReadCursorEffect
  <2>8. CASE StoreCursor
    BY <1>0, <2>8, StoreCursorEffect DEF StoreCursor, At
  <2>9. CASE WriteTmp
    BY <1>0, <2>9, WriteTmpEffect DEF WriteTmp, At
  <2>10. CASE CloseTmp
    BY <1>0, <2>10, GotoEffect DEF CloseTmp, At
  <2>11. CASE RenameTmp \/ WriteFails
    BY <1>0, <2>11, AfterSaveEffect, NextType DEF RenameTmp, WriteFails, At
  <2>12. CASE Sigint \/ Abort
    BY <1>0, <2>12, UnwindEffect
  <2>13. CASE StopWrite \/ StopRename
    BY <1>0, <2>13, StopWriteEffect, StopRenameEffect
  <2> HIDE DEF Inode, Pc
  <2>20. CASE UNCHANGED main
    BY <2>20 DEF Inode, Pc
  <2> QED BY <2>20, <2>1, <2>2, <2>3, <2>4, <2>5, <2>6, <2>7, <2>8, <2>9, <2>10, <2>11,
         <2>12, <2>13, MainFrame
<1>2. Stop
  <2>1. CASE LoadGarbled \/ Exit \/ Kill
    BY <2>1, GarbledEffect, LostEffect DEF Exit, Kill
  <2>2. CASE Sigterm \/ Sigint \/ Abort \/ Drained \/ StopWrite \/ StopRename \/ StopWriteFails
    BY <2>2, StopEffect
  <2> QED BY <2>1, <2>2, StopFrame
<1> QED BY <1>1, <1>2 DEF TmpIsNext

\* Ids that appear nowhere new are still nowhere.
LEMMA NoIdsIff ==
    ASSUME cursor \in Ids, cursor' \in Ids,
           \A p \in Plugin : cursor'[p] = NoId <=> cursor[p] = NoId
    PROVE  cursor = NoIds => cursor' = NoIds
  BY DEF Ids, NoIds

\* Every step keeps "ids everywhere or nowhere".
LEMMA StartStep == TypeOK /\ StepInv /\ StartInv /\ RereadInv /\ [Next]_vars => StartInv'
<1> SUFFICES ASSUME TypeOK, StepInv, StartInv, RereadInv, [Next]_vars PROVE StartInv'
  OBVIOUS
<1>1. LikeCursor(cursor)' /\ LikeCursor(sent)' /\ LikeCursor(data)'
  BY IdsLike
<1> DEFINE Rest ==
        /\ \A p \in main.now, q \in Plugin : main.at = NoId <=> cursor[q] = NoId
        /\ main.inode # "none" => LikeCursor(main.buf)
        /\ stop.pc \in {"write", "close", "rename"} => LikeCursor(stop.buf)
        /\ TmpIsNext => tmp.kind # "state" \/ LikeCursor(tmp.ids)
        /\ main.inode = "file" => file.kind # "state" \/ LikeCursor(file.ids)
      Like(ids) == \A p, q \in Plugin : ids[p] = NoId <=> cursor'[q] = NoId
      RestNext ==
        /\ \A p \in main'.now, q \in Plugin : main'.at = NoId <=> cursor'[q] = NoId
        /\ main'.inode # "none" => Like(main'.buf)
        /\ stop'.pc \in {"write", "close", "rename"} => Like(stop'.buf)
        /\ TmpIsNext' => tmp'.kind # "state" \/ Like(tmp'.ids)
        /\ main'.inode = "file" => file'.kind # "state" \/ Like(file'.ids)
<1>2. Rest
  BY DEF StartInv, TmpIsNext
<1>3. ASSUME LoadState \/ LoadInt \/ Seed PROVE RestNext
  <2>1. main'.now = {} /\ main'.inode = "none" /\ main'.pc # "rename" /\ stop'.pc = "off"
    BY <1>3, LoadEffect
  <2> QED BY <2>1 DEF TmpIsNext
<1>4. ASSUME Lost PROVE RestNext
  BY <1>4, LostEffect DEF TmpIsNext
<1>5. ASSUME \A p \in Plugin : cursor'[p] = NoId <=> cursor[p] = NoId
      PROVE  RestNext
  <2>0. \A ids : LikeCursor(ids) => Like(ids)
    BY <1>5 DEF LikeCursor
  <2>1. \A p \in main'.now, q \in Plugin : main'.at = NoId <=> cursor'[q] = NoId
    <3>1. CASE main'.now = {}
      BY <3>1
    <3>2. CASE main'.now = main.now /\ main'.at = main.at
      <4>1. main.now \subseteq Plugin
        BY DEF TypeOK
      <4> QED BY <1>2, <1>5, <3>2, <4>1
    <3>3. CASE ReadCursor /\ \E p \in Plugin : main'.now = {p} /\ main'.at = cursor[p]
      <4>1. \A p, q \in Plugin : cursor[p] = NoId <=> cursor'[q] = NoId
        BY <2>0 DEF StartInv
      <4> QED BY <3>3, <4>1
    <3> QED BY <3>1, <3>2, <3>3, HoldsFrame
  <2>2. main'.inode # "none" => Like(main'.buf)
    <3>1. LikeCursor(data)
      BY DEF StartInv
    <3> QED BY <1>2, <2>0, <3>1, HoldsFrame
  <2>3. stop'.pc \in {"write", "close", "rename"} => Like(stop'.buf)
    <3> SUFFICES ASSUME stop'.pc \in {"write", "close", "rename"}
                 PROVE  Like(stop'.buf)
      OBVIOUS
    <3>1. ~(Exit \/ Kill \/ Sigterm \/ Sigint \/ Abort) /\ ~(LoadGarbled /\ Lost)
      BY StopEffect, LostEffect DEF Exit, Kill
    <3>2. CASE UNCHANGED stop
      BY <1>2, <2>0, <3>2
    <3>3. CASE Drained
      <4>1. stop'.buf = cursor /\ LikeCursor(cursor)
        BY <3>3, StopEffect DEF StartInv
      <4> QED BY <2>0, <4>1
    <3>4. CASE StopWrite \/ StopClose \/ StopRename \/ StopWriteFails
      <4>1. stop'.buf = stop.buf /\ stop.pc \in {"write", "close", "rename"}
        BY <3>4, StopEffect DEF StopWrite, StopClose, StopRename, StopWriteFails
      <4> QED BY <1>2, <2>0, <4>1
    <3> QED BY <3>1, <3>2, <3>3, <3>4, StopFrame DEF LoadGarbled
  <2>4. TmpIsNext' => tmp'.kind # "state" \/ LikeCursor(tmp'.ids)
    <3>1. CASE CloseTmp
      <4>1. main.pc = "close" /\ Flush
        BY <3>1 DEF CloseTmp, At
      <4>2. main.inode \in {"none", "tmp", "shared", "file", "orphan"} /\ main.inode # "none"
        BY <4>1 DEF TypeOK, StepInv
      <4>3. main.inode \in {"file", "orphan"} => tmp.kind # "state" \/ LikeCursor(tmp.ids)
        BY <1>2 DEF TmpIsNext
      <4>4. main.inode = "shared" => tmp.kind # "state" \/ LikeCursor(tmp.ids)
        BY <1>2 DEF TmpIsNext
      <4> QED BY <4>1, <4>2, <4>3, <4>4, FlushLike
    <3>2. CASE StopWrite \/ StopRename \/ RenameTmp
      BY <3>2 DEF StopWrite, StopRename, RenameTmp, Other
    <3>3. CASE StopClose
      <4>1. tmp' = State(stop.buf) /\ stop.pc = "close"
        BY <3>3 DEF StopClose
      <4> QED BY <1>2, <4>1 DEF State
    <3>4. CASE Sigint \/ Abort
      BY <3>4, UnwindEffect, StopEffect DEF TmpIsNext
    <3>5. CASE WriteTmp
      BY <3>5, WriteTmpEffect DEF WriteTmp, At, TmpIsNext
    <3>6. CASE UNCHANGED tmp /\ ~(StopWrite \/ StopRename \/ CloseTmp \/ StopClose)
      BY <1>2, <3>6, TmpFrame
    <3> QED
      BY <3>1, <3>2, <3>3, <3>4, <3>5, <3>6, FilesFrame DEF Damage, Rebuild
  <2>5. main'.inode = "file" => file'.kind # "state" \/ LikeCursor(file'.ids)
    <3>1. CASE CloseTmp
      <4>1. main.pc = "close" /\ Flush
        BY <3>1 DEF CloseTmp, At
      <4>2. main'.inode = main.inode
        BY <3>1, GotoEffect DEF CloseTmp
      <4> QED BY <1>2, <4>1, <4>2, FlushLike
    <3>2. CASE StopRename
      <4>1. file' = tmp /\ TmpIsNext
        BY <3>2 DEF StopRename, TmpIsNext
      <4> QED BY <1>2, <4>1
    <3>3. CASE Sigint \/ Abort \/ RenameTmp
      BY <3>3, UnwindEffect, AfterSaveEffect DEF RenameTmp
    <3>4. CASE Damage
      BY <3>4 DEF Damage, Other
    <3>5. CASE Rebuild
      BY <3>5 DEF Rebuild, At, StepInv
    <3>6. CASE UNCHANGED file /\ ~StopRename
      BY <1>2, <3>6, TmpFrame
    <3> QED
      BY <3>1, <3>2, <3>3, <3>4, <3>5, <3>6, FilesFrame DEF WriteTmp, StopWrite,
          StopClose
  <2>6. \A ids : LikeCursor(ids) => Like(ids)
    BY <2>0
  <2> HIDE DEF Like
  <2> QED BY <2>1, <2>2, <2>3, <2>4, <2>5, <2>6
<1>6. RestNext
  BY <1>3, <1>4, <1>5, IdsLike
<1>7. Uniform(file.ids)' /\ Uniform(tmp.ids)'
  <2>0. /\ Uniform(file.ids) /\ Uniform(tmp.ids) /\ Uniform(NoIds)
        /\ \A ids : LikeCursor(ids) => Uniform(ids)
    BY DEF StartInv, Uniform, LikeCursor, NoIds
  <2>1. ASSUME main.pc = "close", Flush PROVE Uniform(file'.ids) /\ Uniform(tmp'.ids)
    BY <2>0, <2>1, FlushLike
  <2>2. CASE CloseTmp \/ Sigint \/ Abort
    BY <2>0, <2>1, <2>2 DEF CloseTmp, Sigint, Abort, At
  <2>3. CASE WriteTmp \/ RenameTmp \/ StopWrite \/ StopRename \/ Damage
    BY <2>0, <2>3 DEF WriteTmp, RenameTmp, StopWrite, StopRename, Damage, Other
  <2>4. CASE StopClose
    BY <1>2, <2>0, <2>4 DEF StopClose, State
  <2>5. CASE Rebuild
    <3>1. file' = State([p \in Plugin |-> ResumeId]) /\ tmp' = tmp
      BY <2>5, RebuildEffect
    <3>2. Uniform([p \in Plugin |-> ResumeId])
      BY DEF Uniform
    <3> QED BY <2>0, <3>1, <3>2 DEF State
  <2>6. Uniform(file'.ids) /\ Uniform(tmp'.ids)
    BY <2>0, <2>2, <2>3, <2>4, <2>5, FilesFrame
  <2> QED BY <2>6 DEF Uniform
<1> QED BY <1>1, <1>6, <1>7 DEF StartInv, TmpIsNext, LikeCursor


\* The steps at which the main thread is going to read the file again.
Rereads == \/ main.pc \in {"fetch", "readFile"}
           \/ main.pc \in SaveSteps /\ main.next = "readFile"
           \/ main.pc \in SaveSteps \cup {"loop"} /\ continuing
\* Events are read again only after a load or a seed.
LEMMA RereadsFrame ==
    ASSUME TypeOK, StepInv, [Next]_vars
    PROVE  /\ Rereads' => \/ Rereads \/ LoadScriptIds \/ LoadState \/ LoadInt
                          \/ Seed /\ continuing
                          \/ LoadGarbled
           /\ main'.pc = "ask" => main.pc = "ask" \/ NoFile
<1> DEFINE Moves == /\ main'.pc \in {"fetch", "readFile"} => Rereads \/ LoadScriptIds
                    /\ main'.pc \in SaveSteps /\ main'.next = "readFile" => Rereads
                    /\ main'.pc \in SaveSteps \cup {"loop"} /\ continuing =>
                          \/ Rereads \/ LoadState \/ LoadInt
                          \/ Seed /\ continuing
                          \/ LoadGarbled
                    /\ main'.pc = "ask" => main.pc = "ask" \/ NoFile
<1>1. /\ main.pc \in SaveSteps => main.next # "save"
      /\ main.pc = "ask" => main.next # "readFile"
  BY DEF StepInv
<1>2. continuing' => continuing \/ Lost
  BY StopFrame, StopEffect
  DEF LoadGarbled, Exit, Kill, Sigterm, Sigint, Abort, Drained, StopWrite, StopClose,
      StopRename, StopWriteFails
<1>3. CASE Lost
  BY <1>3, LostEffect DEF Rereads, SaveSteps
<1> USE DEF Rereads, SaveSteps
<1>4. Moves \/ Lost
  <2>1. CASE NoFile
    BY <1>1, <1>2, <2>1, NoFileEffect DEF NoFile, At
  <2>2. CASE Dispatch \/ DispatchNothing
    BY <1>1, <1>2, <2>2, BeginSaveEffect DEF Dispatch, DispatchNothing, At
  <2>3. CASE ReadCursor
    BY <1>1, <1>2, <2>3, ReadCursorEffect
  <2>4. CASE StoreCursor
    BY <1>1, <1>2, <2>4, StoreCursorEffect DEF StoreCursor, At
  <2>5. CASE WriteTmp
    BY <1>1, <1>2, <2>5, WriteTmpEffect DEF WriteTmp, At
  <2>6. CASE CloseTmp
    BY <1>1, <1>2, <2>6, GotoEffect DEF CloseTmp, At
  <2>7. CASE RenameTmp \/ WriteFails
    BY <1>1, <1>2, <2>7, AfterSaveEffect, NextType DEF RenameTmp, WriteFails, At
  <2>8. CASE Sigint \/ Abort
    BY <1>1, <1>2, <2>8, UnwindEffect
  <2>9. CASE StopWrite \/ StopRename
    BY <1>1, <1>2, <2>9, StopWriteEffect, StopRenameEffect
  <2>20. CASE UNCHANGED main
    BY <2>20
  <2>21. CASE Start \/ LoadScriptIds
    BY <2>21, GotoEffect DEF Start, LoadScriptIds, At
  <2>22. CASE LoadState \/ LoadInt
    BY <2>22, GotoEffect DEF LoadState, LoadInt, At
  <2>23. CASE LoopTop
    BY <2>23, GotoEffect DEF LoopTop, At
  <2>24. CASE LoadGarbled
    BY <2>24, GarbledEffect
  <2>25. CASE Exit \/ Kill
    BY <2>25 DEF Exit, Kill
  <2>26. CASE Seed
    BY <1>1, <2>26, SeedEffect, NextType DEF Seed, At
  <2> HIDE DEF Moves
  <2> QED
    BY <2>20, <2>21, <2>22, <2>23, <2>24, <2>25, <2>26, <2>1, <2>2, <2>3, <2>4, <2>5,
        <2>6, <2>7, <2>8, <2>9, MainFrame
<1> QED BY <1>2, <1>3, <1>4

\* Every step keeps what a process that reads again has read.
LEMMA RereadStep == TypeOK /\ StepInv /\ StartInv /\ RereadInv /\ [Next]_vars => RereadInv'
<1> SUFFICES ASSUME TypeOK, StepInv, StartInv, RereadInv, [Next]_vars PROVE RereadInv'
  OBVIOUS
<1> DEFINE Like(ids) == \A p, q \in Plugin : ids[p] = NoId <=> cursor'[q] = NoId
<1>1. Rereads => file.kind # "state" \/ cursor = NoIds \/ LikeCursor(file.ids)
  BY DEF RereadInv, Rereads
<1>2. Rereads' => file'.kind # "state" \/ cursor' = NoIds \/ Like(file'.ids)
  <2> SUFFICES ASSUME Rereads' PROVE file'.kind # "state" \/ cursor' = NoIds \/ Like(file'.ids)
    OBVIOUS
  <2>1. CASE Lost
    BY <2>1, LostEffect
  <2>2. CASE LoadInt
    BY <2>2 DEF LoadInt
  <2>3. CASE Seed
    <3>1. continuing /\ main.pc = "ask" /\ file' = file
      BY <2>3, SeedEffect, NextType DEF Seed, At, Rereads, StepInv, SaveSteps
    <3> QED BY <3>1 DEF RereadInv
  <2>4. CASE LoadState
    <3>1. /\ main.pc = "readFile" /\ file' = file /\ file.kind = "state" /\ Rereads
      BY <2>4 DEF LoadState, At, Rereads
    <3>2. PICK ids \in Ids :
              /\ \/ /\ \A p \in Plugin : cursor[p] = NoId /\ sent[p] = NoId
                    /\ cursor' = ids /\ sent' = ids
                 \/ /\ \A p \in Plugin : cursor[p] # NoId /\ sent[p] # NoId
                    /\ cursor' = cursor /\ sent' = sent
              /\ ids = file.ids
      BY <2>4, <3>1, LoadedIds DEF LoadInt, Seed, At
    <3>3. CASE cursor' = file.ids
      BY <3>1, <3>3 DEF StartInv, Uniform
    <3>4. CASE (\A p \in Plugin : cursor[p] # NoId) /\ cursor' = cursor
      <4>1. cursor # NoIds
        BY <3>4, EventIdFileAssumption DEF NoIds
      <4> QED BY <1>1, <3>1, <3>4, <4>1 DEF LikeCursor
    <3> QED BY <3>2, <3>3, <3>4
  <2>5. CASE LoadScriptIds
    BY <2>5 DEF LoadScriptIds, At, StepInv
  <2>6. CASE LoadGarbled
    BY <2>1, <2>6 DEF LoadGarbled
  <2>7. CASE Rereads /\ \A p \in Plugin : cursor'[p] = NoId <=> cursor[p] = NoId
    <3>0. /\ \A ids : LikeCursor(ids) => Like(ids)
          /\ cursor = NoIds => cursor' = NoIds
      BY <2>7, NoIdsIff, TypeStep DEF LikeCursor, TypeOK
    <3>1. CASE UNCHANGED file
      BY <1>1, <2>7, <3>0, <3>1
    <3>2. CASE CloseTmp
      <4>1. main.pc = "close" /\ Flush
        BY <3>2 DEF CloseTmp, At
      <4> QED BY <1>1, <2>7, <3>0, <4>1, FlushLike
    <3>3. CASE Sigint \/ Abort
      BY <3>3, UnwindEffect DEF Rereads, SaveSteps
    <3>4. CASE RenameTmp \/ StopRename
      <4>1. tmp.kind # "state" \/ LikeCursor(tmp.ids)
        BY <3>4 DEF RenameTmp, StopRename, At, StartInv
      <4> QED BY <1>1, <2>7, <3>0, <3>4, <4>1 DEF RenameTmp, StopRename
    <3>5. CASE Damage
      BY <3>5 DEF Damage, Other
    <3>6. CASE Rebuild
      BY <2>7, <3>6 DEF Rebuild, At, Rereads, SaveSteps
    <3> HIDE DEF Like
    <3> QED
      BY <3>1, <3>2, <3>3, <3>4, <3>5, <3>6, FilesFrame DEF WriteTmp, StopWrite,
          StopClose
  <2> HIDE DEF Like
  <2> QED BY <2>1, <2>2, <2>3, <2>4, <2>5, <2>6, <2>7, RereadsFrame, IdsLike
<1>3. main'.pc = "ask" /\ continuing' => file'.kind # "state"
  <2> SUFFICES ASSUME main'.pc = "ask", continuing' PROVE file'.kind # "state"
    OBVIOUS
  <2>1. CASE NoFile
    BY <2>1 DEF NoFile
  <2>2. CASE main.pc = "ask"
    <3>1. ~Lost /\ ~CloseTmp /\ ~RenameTmp /\ ~Rebuild /\ ~Sigint /\ ~Abort
      BY <2>2, LostEffect, UnwindEffect DEF CloseTmp, RenameTmp, Rebuild, At
    <3>2. continuing /\ ~StopRename
      BY <3>1, StopFrame
      DEF LoadGarbled, Exit, Kill, Sigterm, StopBegins, Drained, StopWrite, StopClose,
          StopRename, StopWriteFails, StepInv
    <3>3. CASE Damage
      BY <3>3 DEF Damage, Other
    <3> QED
      BY <2>2, <3>1, <3>2, <3>3, FilesFrame DEF RereadInv, WriteTmp, StopWrite,
          StopClose
  <2> QED BY <2>1, <2>2, RereadsFrame
<1> QED BY <1>2, <1>3 DEF RereadInv, Rereads, LikeCursor


-----------------------------------------------------------------------------
(* No event is skipped *)

\* What is handled or given up stays so.
LEMMA KnownGrows ==
    ASSUME TypeOK, [Next]_vars
    PROVE  \A p \in Plugin : Known(p) \subseteq Known(p)'
<1>0. handled \in [Plugin -> SUBSET EventId] /\ waived \in [Plugin -> SUBSET EventId]
  BY DEF TypeOK
<1>1. ASSUME NEW m, Waive(m), UNCHANGED handled
      PROVE  \A p \in Plugin : Known(p) \subseteq Known(p)'
  BY <1>0, <1>1 DEF Waive, Known
<1>2. CASE Seed
  BY <1>1, <1>2 DEF Seed
<1>3. CASE Rebuild
  BY <1>1, <1>3, RebuildEffect DEF Known
<1>4. ASSUME NEW p \in Plugin, Process(p)
      PROVE  \A q \in Plugin : Known(q) \subseteq Known(q)'
  <2>1. handled' = [handled EXCEPT ![p] = @ \cup {sent[p]}]
    BY <1>4 DEF Process
  <2>2. \/ waived' = waived
        \/ waived' = [waived EXCEPT ![p] = @ \cup ((1 .. sent[p] - 1) \ handled[p])]
    BY <1>4 DEF Process
  <2> QED BY <1>0, <2>1, <2>2 DEF Known
<1> QED BY <1>2, <1>3, <1>4, HistoryFrame DEF Known

\* The buffers of the main thread and of a stop are what they were, empty, or the
\* state at the opening of the file.
LEMMA BufferFrame ==
    ASSUME TypeOK, [Next]_vars
    PROVE  main'.buf \in {main.buf, NoIds, data} /\ stop'.buf \in {stop.buf, NoIds, cursor}
<1>1. main'.buf \in {main.buf, NoIds, data}
  <2>1. CASE Start \/ LoadScriptIds \/ LoadState \/ LoadInt \/ LoopTop
    BY <2>1, GotoEffect DEF Start, LoadScriptIds, LoadState, LoadInt, LoopTop, At
  <2>2. CASE LoadGarbled
    BY <2>2, GarbledEffect, LostEffect
  <2>3. CASE Exit \/ Kill
    BY <2>3, LostEffect DEF Exit, Kill
  <2>4. CASE NoFile
    BY <2>4, NoFileEffect DEF NoFile, At
  <2>5. CASE Seed
    BY <2>5, SeedEffect DEF Seed, At
  <2>6. CASE Dispatch \/ DispatchNothing
    BY <2>6, BeginSaveEffect DEF Dispatch, DispatchNothing, At
  <2>7. CASE ReadCursor
    BY <2>7, ReadCursorEffect
  <2>8. CASE StoreCursor
    BY <2>8, StoreCursorEffect DEF StoreCursor, At
  <2>9. CASE WriteTmp
    BY <2>9, WriteTmpEffect DEF WriteTmp, At
  <2>10. CASE CloseTmp
    BY <2>10, GotoEffect DEF CloseTmp, At
  <2>11. CASE RenameTmp \/ WriteFails
    BY <2>11, AfterSaveEffect, NextType DEF RenameTmp, WriteFails, At
  <2>12. CASE Sigint \/ Abort
    BY <2>12, UnwindEffect
  <2>13. CASE StopWrite \/ StopRename
    BY <2>13, StopWriteEffect, StopRenameEffect
  <2> QED BY <2>1, <2>2, <2>3, <2>4, <2>5, <2>6, <2>7, <2>8, <2>9, <2>10, <2>11, <2>12,
         <2>13, MainFrame
<1>2. stop'.buf \in {stop.buf, NoIds, cursor}
  <2>1. CASE LoadGarbled \/ Exit \/ Kill
    BY <2>1, GarbledEffect, LostEffect DEF Exit, Kill
  <2> QED BY <2>1, StopEffect, StopFrame
<1> QED BY <1>1, <1>2

\* Cursors stay covered, and at most one event behind.
LEMMA CursorsStep ==
    ASSUME TypeOK, StartInv, SkipInv, [Next]_vars
    PROVE  /\ \A p \in Plugin : /\ 1 .. cursor'[p] \subseteq Known(p)'
                                /\ 1 .. data'[p] \subseteq Known(p)'
                                /\ cursor'[p] # NoId => sent'[p] <= cursor'[p] + 1
           /\ \A p, q \in Plugin : sent'[p] > cursor'[p] => sent'[q] = sent'[p]
<1> DEFINE Cov(ids) == \A p \in Plugin : 1 .. ids[p] \subseteq Known(p)'
           Close == \A p \in Plugin : cursor'[p] # NoId => sent'[p] <= cursor'[p] + 1
           Same == \A p, q \in Plugin : sent'[p] > cursor'[p] => sent'[q] = sent'[p]
<1>0. /\ cursor \in [Plugin -> Nat] /\ sent \in [Plugin -> Nat] /\ data \in [Plugin -> Nat]
      /\ Cov(NoIds) /\ NoIds \in [Plugin -> Nat]
  BY EventIdFileAssumption DEF TypeOK, Ids, EventId, NoId, NoIds
<1>1. \A ids : Covered(ids) => Cov(ids)
  BY KnownGrows DEF Covered
<1>2. /\ Covered(cursor) /\ Covered(data) /\ Covered(file.ids)
      /\ \A p \in Plugin : cursor[p] # NoId => sent[p] <= cursor[p] + 1
      /\ \A p, q \in Plugin : sent[p] > cursor[p] => sent[q] = sent[p]
  BY DEF SkipInv, Pending
<1> HIDE DEF Cov
<1>3. CASE UNCHANGED <<cursor, sent, data>> \/ Drained
  <2>1. UNCHANGED <<cursor, sent>> /\ data' \in {data, cursor}
    BY <1>3 DEF Drained
  <2> QED BY <1>1, <1>2, <2>1 DEF Cov
<1>4. CASE Lost
  <2>1. cursor' = NoIds /\ sent' = NoIds /\ data' = NoIds
    BY <1>4, LostEffect
  <2> QED BY <1>0, <2>1 DEF Cov, NoIds, NoId
<1>5. CASE LoadState \/ LoadInt \/ Seed
  <2>1. PICK ids \in Ids :
              /\ \/ /\ \A p \in Plugin : cursor[p] = NoId /\ sent[p] = NoId
                    /\ cursor' = ids /\ sent' = ids
                 \/ /\ \A p \in Plugin : cursor[p] # NoId /\ sent[p] # NoId
                    /\ cursor' = cursor /\ sent' = sent
              /\ \/ LoadState /\ ids = file.ids /\ data' = file.ids
                 \/ LoadInt /\ ids = file.ids /\ data' = cursor'
                 \/ /\ Seed /\ ids = [p \in Plugin |-> latest] /\ data' = cursor'
                    /\ \A p \in Plugin : ids[p] # NoId
    BY <1>5, LoadedIds
  <2>2. ids \in [Plugin -> Nat]
    BY EventIdFileAssumption DEF Ids, EventId, NoId
  <2>3. Close /\ Same
    BY <1>0, <1>2, <2>1, <2>2
  <2>4. CASE LoadState \/ LoadInt
    <3>1. ids = file.ids
      BY <2>1, <2>4 DEF Seed, LoadState, LoadInt, At
    <3>2. Cov(file.ids) /\ Cov(cursor)
      BY <1>1, <1>2
    <3>3. cursor' \in {file.ids, cursor} /\ data' \in {file.ids, cursor'}
      BY <2>1, <3>1
    <3> QED BY <2>3, <3>2, <3>3 DEF Cov
  <2>5. CASE Seed
    <3>1. data' = cursor'
      BY <2>5 DEF Seed
    <3>2. Cov(cursor')
      <4>1. CASE cursor' = cursor
        BY <1>1, <1>2, <4>1
      <4>2. CASE (\A p \in Plugin : sent[p] = NoId) /\ cursor' = ids
        <5>1. ids = [p \in Plugin |-> latest]
          BY <2>1, <2>5 DEF Seed, LoadState, LoadInt, At
        <5>2. \A p \in Plugin : Takes(p)
          BY <4>2 DEF Takes
        <5>3. \A p \in Plugin : waived'[p] = waived[p] \cup ((1 .. latest) \ handled[p])
          BY <2>5, <5>2 DEF Seed, Waive
        <5>4. handled' = handled
          BY <2>5 DEF Seed
        <5> QED BY <4>2, <5>1, <5>3, <5>4 DEF Cov, Known
      <4> QED BY <2>1, <4>1, <4>2
    <3> QED BY <2>3, <3>1, <3>2 DEF Cov
  <2> QED BY <1>5, <2>4, <2>5
<1>6. CASE Dispatch
  <2>1. /\ HasCursor /\ \A p \in Plugin : ~(sent[p] > cursor[p])
        /\ sent' = [p \in Plugin |-> NextEvent] /\ cursor' = cursor /\ data' = data
    BY <1>6 DEF Dispatch, Pending
  <2>2. NextEvent \in Nat /\ \A p \in Plugin : sent[p] # NoId => NextEvent <= sent[p] + 1
    BY <2>1, NextEventIsNext
  <2>3. \A p \in Plugin : sent[p] # NoId
    BY <2>1 DEF StartInv, LikeCursor, HasCursor
  <2>4. Close /\ Same
    BY <1>0, <2>1, <2>2, <2>3
  <2> QED BY <1>1, <1>2, <2>1, <2>4 DEF Cov
<1>7. ASSUME NEW p \in Plugin, Process(p)
      PROVE  Close /\ Same /\ Cov(cursor') /\ Cov(data')
  <2>1. /\ sent[p] > cursor[p] /\ cursor' = [cursor EXCEPT ![p] = sent[p]]
        /\ sent' = sent /\ data' = data
    BY <1>7 DEF Process, Pending
  <2>2. Close /\ Same
    BY <1>0, <1>2, <2>1
  <2>3. handled'[p] = handled[p] \cup {sent[p]}
    BY <1>7 DEF Process, TypeOK
  <2>4. 1 .. sent[p] \subseteq Known(p)'
    <3>1. CASE cursor[p] # NoId
      <4>1. 1 .. cursor[p] \subseteq Known(p)'
        BY <1>1, <1>2 DEF Cov
      <4>2. \A e \in 1 .. sent[p] : e \in 1 .. cursor[p] \/ e = sent[p]
        BY <1>0, <1>2, <2>1, <3>1
      <4> QED BY <2>3, <4>1, <4>2 DEF Known
    <3>2. CASE cursor[p] = NoId
      <4>1. waived'[p] = waived[p] \cup ((1 .. sent[p] - 1) \ handled[p])
        BY <1>7, <3>2 DEF Process, TypeOK
      <4>2. \A e \in 1 .. sent[p] : e \in 1 .. sent[p] - 1 \/ e = sent[p]
        BY <1>0
      <4> QED BY <2>3, <4>1, <4>2 DEF Known
    <3> QED BY <3>1, <3>2
  <2>5. Cov(cursor) /\ Cov(data)
    BY <1>1, <1>2
  <2>6. \A q \in Plugin : cursor'[q] = IF q = p THEN sent[p] ELSE cursor[q]
    BY <1>0, <2>1
  <2> QED BY <2>1, <2>2, <2>4, <2>5, <2>6 DEF Cov
<1>8. CASE StoreCursor
  <2>1. /\ data' = [p \in Plugin |-> IF p \in main.now THEN main.at ELSE data[p]]
        /\ UNCHANGED <<cursor, sent>>
    BY <1>8 DEF StoreCursor
  <2>2. \A p \in main.now : 1 .. main.at \subseteq Known(p)'
    BY KnownGrows DEF SkipInv, TypeOK
  <2>3. Cov(data) /\ Cov(cursor)
    BY <1>1, <1>2
  <2>4. Cov(data')
    BY <2>1, <2>2, <2>3 DEF Cov
  <2> QED BY <1>2, <2>1, <2>3, <2>4 DEF Cov
<1> QED
  BY <1>3, <1>4, <1>5, <1>6, <1>7, <1>8, IdsFrame DEF Cov, LoadGarbled, Exit, Kill


\* What is written to a file was read from cursors, or comes from the queue table.
LEMMA FilesCovered ==
    ASSUME TypeOK, SkipInv, [Next]_vars
    PROVE  \A p \in Plugin : /\ 1 .. file'.ids[p] \subseteq Known(p)'
                             /\ 1 .. tmp'.ids[p] \subseteq Known(p)'
<1> DEFINE Cov(ids) == \A p \in Plugin : 1 .. ids[p] \subseteq Known(p)'
<1>1. \A ids : Covered(ids) => Cov(ids)
  BY KnownGrows DEF Covered
<1>2. Covered(file.ids) /\ Covered(tmp.ids) /\ Covered(main.buf) /\ Covered(stop.buf)
  BY DEF SkipInv
<1>3. Cov(file.ids) /\ Cov(tmp.ids) /\ Cov(main.buf) /\ Cov(stop.buf) /\ Cov(NoIds)
  <2>1. Cov(NoIds)
    BY DEF NoIds, NoId
  <2> HIDE DEF Cov
  <2> QED BY <1>1, <1>2, <2>1
<1>4. ASSUME NEW under \in Contents, Cov(under.ids), NEW c \in Overlay(main.buf, under)
      PROVE  Cov(c.ids)
  <2>1. main.buf \in Ids
    BY DEF TypeOK
  <2> QED BY <1>3, <1>4, <2>1, OverlayType DEF Other
<1>5. ASSUME Flush PROVE Cov(file'.ids) /\ Cov(tmp'.ids)
  <2>1. file \in Contents /\ tmp \in Contents
    BY DEF TypeOK
  <2> HIDE DEF Cov
  <2> QED BY <1>3, <1>4, <1>5, <2>1 DEF Flush, State
<1> HIDE DEF Cov
<1>6. CASE CloseTmp \/ Sigint \/ Abort
  BY <1>3, <1>5, <1>6 DEF CloseTmp, Sigint, Abort, Cov
<1>7. CASE WriteTmp \/ RenameTmp \/ StopWrite \/ StopRename \/ Damage
  BY <1>3, <1>7 DEF WriteTmp, RenameTmp, StopWrite, StopRename, Damage, Other, Cov
<1>8. CASE StopClose
  BY <1>3, <1>8 DEF StopClose, State, Cov
<1>9. CASE Rebuild
  <2>1. /\ file'.ids = [p \in Plugin |-> ResumeId] /\ tmp' = tmp /\ handled' = handled
        /\ IF oldest # NoId THEN UNCHANGED waived
           ELSE Waive([p \in Plugin |-> ResumeId])
    BY <1>9, RebuildEffect DEF State
  <2>2. CASE oldest # NoId
    <3>1. ResumeId = oldest - 1
      BY <2>2 DEF ResumeId, ResumeBeforeQueued
    <3>2. \A p \in Plugin : 1 .. ResumeId \subseteq Known(p)
      BY <2>2, <3>1 DEF SkipInv
    <3> QED BY <1>3, <2>1, <2>2, <3>2 DEF Cov, Known
  <2>3. CASE oldest = NoId
    <3>1. \A p \in Plugin : waived'[p] = waived[p] \cup ((1 .. ResumeId) \ handled[p])
      BY <2>1, <2>3 DEF Waive
    <3> QED BY <1>3, <2>1, <3>1 DEF Cov, Known
  <2> QED BY <2>2, <2>3
<1> QED BY <1>3, <1>6, <1>7, <1>8, <1>9, FilesFrame DEF Cov

\* The oldest id in the queue table is next for some plugin, and no plugin is behind.
LEMMA OldestCovered ==
    ASSUME TypeOK, StartInv, SkipInv, [Next]_vars
    PROVE  oldest' # NoId => \A p \in Plugin : 1 .. (oldest' - 1) \subseteq Known(p)'
<1>1. CASE UNCHANGED oldest
  BY <1>1, KnownGrows DEF SkipInv
<1>2. CASE SaveQueue /\ oldest' # NoId
  <2>1. PICK p \in Plugin : Pending(p) /\ oldest' = sent[p]
    BY <1>2, SavedOldest
  <2>2. cursor \in [Plugin -> Nat] /\ sent \in [Plugin -> Nat]
    BY EventIdFileAssumption DEF TypeOK, Ids, EventId, NoId
  <2>3. \A q \in Plugin : sent[q] = sent[p] /\ cursor[q] # NoId
    BY <2>1, <2>2 DEF SkipInv, StartInv, LikeCursor, Pending, NoId
  <2>4. \A q \in Plugin : sent[p] <= cursor[q] + 1
    BY <2>3 DEF SkipInv
  <2>5. \A q \in Plugin : 1 .. (oldest' - 1) \subseteq 1 .. cursor[q]
    BY <2>1, <2>2, <2>4
  <2>6. \A q \in Plugin : 1 .. cursor[q] \subseteq Known(q)'
    BY KnownGrows DEF SkipInv, Covered
  <2> QED BY <2>5, <2>6
<1> QED BY <1>1, <1>2, OutsideFrame DEF NewEvent, OutageBegins, OutageEnds

\* Every step keeps that nothing is skipped.
LEMMA SkipStep ==
    TypeOK /\ StepInv /\ StartInv /\ SkipInv /\ [Next]_vars => SkipInv'
<1> SUFFICES ASSUME TypeOK, StepInv, StartInv, SkipInv, [Next]_vars PROVE SkipInv'
  OBVIOUS
<1> DEFINE Cov(ids) == \A p \in Plugin : 1 .. ids[p] \subseteq Known(p)'
<1>1. /\ Cov(main.buf) /\ Cov(stop.buf) /\ Cov(NoIds) /\ Cov(data) /\ Cov(cursor)
      /\ \A p \in main.now : 1 .. main.at \subseteq Known(p)'
      /\ main.now \subseteq Plugin
  <2>1. Cov(NoIds)
    BY DEF NoIds, NoId
  <2>2. \A ids : Covered(ids) => Cov(ids)
    BY KnownGrows DEF Covered
  <2>3. main.now \subseteq Plugin
    BY DEF TypeOK
  <2>4. \A p \in main.now : 1 .. main.at \subseteq Known(p)'
    BY <2>3, KnownGrows DEF SkipInv
  <2> HIDE DEF Cov
  <2> QED BY <2>1, <2>2, <2>3, <2>4 DEF SkipInv
<1> HIDE DEF Cov
<1>2. Cov(main'.buf) /\ Cov(stop'.buf)
  BY <1>1, BufferFrame
<1>3. \A p \in main'.now : 1 .. main'.at \subseteq Known(p)'
  <2>1. \A p \in Plugin : 1 .. cursor[p] \subseteq Known(p)'
    BY <1>1 DEF Cov
  <2> QED BY <1>1, <2>1, HoldsFrame
<1> QED
  BY <1>2, <1>3, CursorsStep, FilesCovered, OldestCovered
  DEF SkipInv, Covered, Cov, Pending

-----------------------------------------------------------------------------
(* Every file that is renamed is complete *)

\* Damage, a failing disk and a stop that is cut short over an open save are not
\* forgotten.
LEMMA UnspoiltBefore ==
    ASSUME TypeOK, [Next]_vars, Unspoilt'
    PROVE  /\ Unspoilt /\ ~(Damage \/ WriteFails \/ StopWriteFails)
           /\ Abort => main.inode # "file"
<1>1. /\ excuse \in [torn : BOOLEAN, failed : BOOLEAN, aborted : BOOLEAN,
                     spoilt : BOOLEAN]
      /\ budget \in [signals : Nat, faults : Nat, damage : 0 .. MaxDamage]
  BY DEF TypeOK
<1>2. ~(WriteFails \/ StopWriteFails)
  BY <1>1 DEF Unspoilt, WriteFails, StopWriteFails
<1>3. ~excuse.failed /\ ~excuse.spoilt /\ (Abort => main.inode # "file")
  <2>1. CASE Abort
    <3>1. /\ excuse'.failed = excuse.failed
          /\ excuse'.spoilt = (excuse.spoilt \/ main.inode = "file")
      BY <1>1, <2>1 DEF Abort
    <3> QED BY <3>1 DEF Unspoilt
  <2>2. CASE ~Abort
    BY <1>1, <1>2, <2>2, ExcuseFrame DEF Unspoilt, Start, Sigterm, Sigint, StopBegins
  <2> QED BY <2>1, <2>2
<1>4. budget.damage = MaxDamage /\ ~Damage
  <2>1. ASSUME NEW k \in {"signals", "faults"}, Spend(k)
        PROVE  budget'.damage = budget.damage
    BY <1>1, <2>1 DEF Spend
  <2>2. Damage => budget'.damage = budget.damage - 1 /\ budget.damage \in 0 .. MaxDamage
    BY <1>1 DEF Damage, Spend
  <2>3. ~Damage
    BY <2>2, EventIdFileAssumption DEF Unspoilt
  <2> QED
    BY <1>2, <2>1, <2>3, BudgetFrame
    DEF Unspoilt, Sigterm, Sigint, Abort, Kill, OutageBegins
<1> QED BY <1>2, <1>3, <1>4 DEF Unspoilt

\* Nor is any stop that was cut short.
LEMMA UndisturbedBefore ==
    ASSUME TypeOK, [Next]_vars, Undisturbed'
    PROVE  Undisturbed /\ ~(Damage \/ Abort \/ WriteFails \/ StopWriteFails)
<1>1. Unspoilt /\ ~(Damage \/ WriteFails \/ StopWriteFails)
  BY UnspoiltBefore DEF Undisturbed
<1>2. excuse \in [torn : BOOLEAN, failed : BOOLEAN, aborted : BOOLEAN, spoilt : BOOLEAN]
  BY DEF TypeOK
<1>3. ~Abort
  BY <1>2 DEF Undisturbed, Abort
<1>4. ~excuse.aborted
  BY <1>1, <1>2, <1>3, ExcuseFrame DEF Undisturbed, Start, Sigterm, Sigint, StopBegins
<1> QED BY <1>1, <1>3, <1>4 DEF Undisturbed

\* The steps of the workers and of the outside: no file, no stop and nothing of the
\* main thread changes.
Elsewhere == /\ UNCHANGED <<files, main, stop, continuing>>
             /\ UNCHANGED <<cursor, sent, data>> \/ \E p \in Plugin : Process(p)

\* The steps, those that leave the files alone together.
LEMMA Steps ==
    ASSUME [Next]_vars
    PROVE  \/ Elsewhere
           \/ Start \/ LoadScriptIds \/ LoadState \/ LoadInt \/ LoadGarbled \/ NoFile
           \/ Seed \/ LoopTop \/ Dispatch \/ DispatchNothing \/ Exit \/ ReadCursor
           \/ StoreCursor \/ WriteTmp \/ CloseTmp \/ RenameTmp \/ Drained \/ StopWrite
           \/ StopClose \/ StopRename \/ Sigterm \/ Sigint \/ Abort \/ Kill
           \/ WriteFails \/ StopWriteFails \/ Damage \/ Rebuild
  BY DEF Next, MainStep, Elsewhere, Process, NewEvent, OutageBegins, OutageEnds,
      SaveQueue

\* Every step keeps that the file loads.
LEMMA LoadStep == TypeOK /\ StepInv /\ LoadInv /\ [Next]_vars => LoadInv'
<1> DEFINE Body ==
        /\ file.kind \in {"missing", "int", "state"}
        /\ main.pc = "ask" => main.next = "save"
        /\ main.inode = "shared" => stop.pc \in {"close", "rename"} /\ stop.saves = 0
        /\ main.inode = "file" => stop.saves = 1
        /\ main.inode = "tmp" =>
               stop.saves = 0 /\ stop.pc \in {"off", "drain", "write"}
        /\ main.inode = "orphan" =>
               stop.pc = "off" /\ ~continuing /\ tmp.kind = "missing"
        /\ main.pc = "rename" /\ stop.pc \in {"off", "drain"} =>
               tmp.kind \in {"missing", "state"}
<1> SUFFICES ASSUME TypeOK, StepInv, LoadInv, [Next]_vars, Unspoilt' PROVE Body'
  BY DEF LoadInv
<1>1. /\ Body /\ ~(Damage \/ WriteFails \/ StopWriteFails)
      /\ Abort => main.inode # "file"
  BY UnspoiltBefore DEF LoadInv
<1>2. /\ main.inode # "none" <=> main.pc \in {"close", "rename"}
      /\ main.inode \in {"none", "tmp", "shared", "file", "orphan"}
      /\ stop.pc # "off" => ~continuing
      /\ stop.pc \in {"off", "drain"} => stop.saves = 0
      /\ stop.saves \in {0, 1}
      /\ stop.pc = "rename" => tmp = State(stop.buf)
      /\ main.pc \in SaveSteps => main.next # "save"
      /\ main.next \in {"loop", "readFile", "save"}
  BY DEF StepInv, TypeOK
<1>3. CASE Elsewhere
  BY <1>1, <1>3 DEF Elsewhere
<1>4. CASE Exit \/ Kill
  BY <1>1, <1>4, LostEffect DEF Exit, Kill
<1>5. CASE LoadGarbled
  BY <1>1, <1>2, <1>5, GarbledEffect, LostEffect DEF LoadGarbled
<1>6. CASE Start \/ LoadScriptIds \/ LoadState \/ LoadInt \/ LoopTop
  BY <1>1, <1>2, <1>6, GotoEffect DEF Start, LoadScriptIds, LoadState, LoadInt, LoopTop,
      At
<1>7. CASE NoFile
  BY <1>1, <1>2, <1>7, NoFileEffect DEF NoFile, At
<1>8. CASE Seed
  BY <1>1, <1>2, <1>8, SeedEffect DEF Seed, At
<1>9. CASE Dispatch \/ DispatchNothing
  BY <1>1, <1>2, <1>9, BeginSaveEffect DEF Dispatch, DispatchNothing, At
<1>10. CASE ReadCursor
  BY <1>1, <1>2, <1>10, ReadCursorEffect DEF ReadCursor
<1>11. CASE StoreCursor
  BY <1>1, <1>2, <1>11, StoreCursorEffect DEF StoreCursor, At
<1>12. CASE WriteTmp
  BY <1>1, <1>2, <1>12, WriteTmpEffect DEF WriteTmp, At
<1>13. CASE CloseTmp
  <2>1. /\ main.inode \in {"tmp", "orphan"} /\ Flush /\ stop.pc = "off"
        /\ UNCHANGED <<stop, continuing>>
    BY <1>1, <1>2, <1>13 DEF CloseTmp, At
  <2>2. file' = file /\ IF main.inode = "tmp" THEN tmp'.kind = "state" ELSE tmp' = tmp
    BY <2>1 DEF Flush, State
  <2> QED BY <1>1, <1>2, <1>13, <2>1, <2>2, GotoEffect DEF CloseTmp
<1>14. CASE RenameTmp
  BY <1>1, <1>2, <1>14, AfterSaveEffect DEF RenameTmp, At, SaveSteps
<1>15. CASE Drained \/ StopClose
  BY <1>1, <1>2, <1>15, StopEffect DEF Drained, StopClose
<1>16. CASE StopWrite
  BY <1>1, <1>2, <1>16, StopEffect, StopWriteEffect DEF StopWrite
<1>17. CASE StopRename
  <2>1. file'.kind = "state" /\ tmp'.kind = "missing" /\ UNCHANGED continuing
    BY <1>2, <1>17 DEF StopRename, State, Other
  <2> QED BY <1>1, <1>2, <1>17, <2>1, StopEffect, StopRenameEffect DEF StopRename
<1>18. CASE Sigterm
  BY <1>1, <1>2, <1>18, StopEffect DEF Sigterm, CanSignal
<1>19. CASE Sigint
  <2>1. stop.pc = "off" /\ continuing
    BY <1>19 DEF Sigint, CanSignal
  <2>2. main.pc = "close" => main.inode = "tmp" /\ Flush
    BY <1>1, <1>2, <1>19, <2>1 DEF Sigint
  <2>3. file' = file
    BY <1>19, <2>2 DEF Flush, Sigint
  <2> QED BY <1>1, <1>19, <2>1, <2>3, StopEffect, UnwindEffect
<1>20. CASE Rebuild
  <2>1. file'.kind = "state" /\ UNCHANGED <<tmp, main, stop, continuing>>
    BY <1>20, RebuildEffect DEF State
  <2> QED BY <1>1, <2>1
<1>21. CASE Abort
  <2>1. file' = file
    BY <1>1, <1>2, <1>21 DEF Flush, Abort
  <2>2. main'.pc = "exit" /\ main'.inode = "none"
    BY <1>21, UnwindEffect
  <2> QED BY <1>1, <2>1, <2>2
<1> HIDE DEF Body
<1> QED
  BY <1>1, <1>3, <1>4, <1>5, <1>6, <1>7, <1>8, <1>9, <1>10, <1>11, <1>12, <1>13, <1>14,
     <1>15, <1>16, <1>17, <1>18, <1>19, <1>20, <1>21, Steps

-----------------------------------------------------------------------------
(* What a stop has saved stands *)

\* What a stop has reached: the body of PersistInv.
Saved ==
    /\ stop.pc # "off" => main.pc # "store"
    /\ stop.pc \in {"write", "close", "rename"} =>
           /\ Idle /\ data = cursor /\ stop.buf = cursor
           /\ stop.saves = 1 => file = State(cursor)
    /\ stop.pc = "off" =>
           /\ Idle /\ data = cursor
           /\ main.pc \in {"scripts", "readFile", "ask", "loop", "fetch", "exit"}
                  => file = State(cursor)
           /\ main.pc = "store" => \A p \in main.now : main.at = cursor[p]
           /\ main.pc = "close" =>
                  IF main.inode = "orphan" THEN file = State(cursor)
                  ELSE main.buf = cursor
           /\ main.pc = "rename" =>
                  IF tmp.kind = "missing" THEN file = State(cursor)
                  ELSE tmp = State(cursor)

\* When the stop begins, no cursor is between its reading and its storing.
LEMMA StopBeginsClean ==
    ASSUME TypeOK, StepInv, Sigterm \/ Sigint, ~excuse'.torn
    PROVE  Saved'
<1>1. stop'.pc = "drain"
  BY StopEffect
<1>2. main'.pc # "store"
  <2>1. CASE Sigterm
    <3>1. main' = main /\ excuse' = [excuse EXCEPT
            !.torn = @ \/ (main.pc = "store" /\ main'.pc = "store")]
      BY <2>1 DEF Sigterm, StopBegins
    <3>2. excuse'.torn = (excuse.torn \/ (main.pc = "store" /\ main'.pc = "store"))
      BY <3>1 DEF TypeOK
    <3> QED BY <3>1, <3>2
  <2>2. CASE Sigint
    BY <2>2, UnwindEffect
  <2> QED BY <2>1, <2>2
<1> QED BY <1>1, <1>2 DEF Saved

\* The steps of a stop itself.
LEMMA StopSaves ==
    ASSUME TypeOK, StepInv, LoadInv, Undisturbed, Saved,
           Drained \/ StopWrite \/ StopClose \/ StopRename
    PROVE  Saved'
<1>1. /\ main.inode # "none" <=> main.pc \in {"close", "rename"}
      /\ main.inode \in {"none", "tmp", "shared", "file", "orphan"}
      /\ main.now # {} => main.pc \in {"store", "exit"}
      /\ stop.pc = "rename" => tmp = State(stop.buf)
      /\ stop.pc \in {"off", "drain"} => stop.saves = 0
      /\ stop.saves \in {0, 1}
  BY DEF StepInv, TypeOK
<1>2. CASE Drained
  <2>1. main' = main /\ data' = cursor /\ cursor' = cursor /\ sent' = sent /\ Idle
        /\ stop.pc = "drain"
    BY <1>2 DEF Drained, Idle
  <2>2. stop'.pc = "write" /\ stop'.buf = cursor /\ stop'.saves = 0
    BY <1>1, <1>2, <2>1, StopEffect
  <2> QED BY <2>1, <2>2 DEF Saved, Idle, Pending
<1>3. CASE StopWrite
  <2>1. main'.pc = main.pc /\ stop.pc = "write" /\ UNCHANGED <<data, cursor, sent, file>>
    BY <1>3, StopWriteEffect DEF StopWrite
  <2>2. stop'.pc = "close" /\ stop'.buf = stop.buf /\ stop'.saves = stop.saves
    BY <1>3, StopEffect
  <2> QED BY <2>1, <2>2 DEF Saved, Idle, Pending
<1>4. CASE StopClose
  <2>1. main' = main /\ stop.pc = "close" /\ UNCHANGED <<data, cursor, sent, file>>
    BY <1>4 DEF StopClose
  <2>2. stop'.pc = "rename" /\ stop'.buf = stop.buf /\ stop'.saves = stop.saves
    BY <1>4, StopEffect
  <2> QED BY <2>1, <2>2 DEF Saved, Idle, Pending
<1>5. CASE StopRename
  <2>1. /\ stop.pc = "rename" /\ UNCHANGED <<data, cursor, sent>>
        /\ file' = State(cursor) /\ tmp'.kind = "missing"
    BY <1>1, <1>5 DEF StopRename, Saved, Other
  <2>2. Idle /\ data = cursor /\ stop.buf = cursor /\ main.pc # "store"
    BY <2>1 DEF Saved
  <2>3. Idle' /\ main'.pc = main.pc
    BY <1>5, <2>1, <2>2, StopRenameEffect DEF Idle, Pending
  <2>4. CASE stop.saves = 0
    <3>1. stop'.pc = "write" /\ stop'.buf = stop.buf
      BY <1>5, <2>4, StopEffect
    <3> QED BY <2>1, <2>2, <2>3, <3>1 DEF Saved
  <2>5. CASE stop.saves = 1
    <3>1. stop'.pc = "off"
      BY <1>5, <2>5, StopEffect
    <3>2. main.pc = "close" => main.inode = "file"
      BY <1>1, <2>1, <2>5 DEF LoadInv, Undisturbed
    <3>3. main.pc = "close" => main'.inode = "orphan"
      BY <1>5, <3>2, StopRenameEffect
    <3> QED BY <2>1, <2>2, <2>3, <3>1, <3>3 DEF Saved
  <2> QED BY <1>1, <2>4, <2>5
<1> QED BY <1>2, <1>3, <1>4, <1>5

\* The main thread, when it goes on after a stop, loads what the stop has saved ...
LEMMA LoadsSaved ==
    ASSUME TypeOK, StepInv, StartInv, LoadInv, Undisturbed, Saved, ~continuing,
           LoadScriptIds \/ LoadState \/ LoadInt \/ LoadGarbled \/ NoFile \/ Seed
    PROVE  Saved'
<1>1. main.pc = "readFile" /\ stop.pc = "off" => file = State(cursor)
  BY DEF Saved
<1>2. ~(LoadInt \/ LoadGarbled \/ NoFile)
  BY <1>1 DEF LoadInt, LoadGarbled, NoFile, At, State
<1>3. CASE LoadScriptIds
  <2>1. /\ main.pc = "scripts" /\ stop.pc = "off"
        /\ UNCHANGED <<file, cursor, sent, data, stop>>
    BY <1>3 DEF LoadScriptIds, At
  <2>2. main'.pc = "readFile"
    BY <1>3, GotoEffect DEF LoadScriptIds
  <2> QED BY <2>1, <2>2 DEF Saved, Idle, Pending
<1>4. CASE LoadState
  <2>1. /\ main.pc = "readFile" /\ stop.pc = "off" /\ file = State(cursor)
        /\ UNCHANGED <<file, stop>> /\ file.ids = cursor /\ data' = cursor
    BY <1>1, <1>4 DEF LoadState, At, State
  <2>2. main'.pc = "loop"
    BY <1>4, GotoEffect DEF LoadState
  <2>3. cursor' = cursor /\ sent' \in {sent, cursor}
    BY <1>4, <2>1, LoadedIds DEF LoadInt, Seed, At
  <2>4. Idle'
    BY <2>1, <2>3 DEF Saved, Idle, Pending, TypeOK, Ids, EventId, NoId
  <2> QED BY <2>1, <2>2, <2>3, <2>4 DEF Saved
<1>5. CASE Seed
  <2>1. /\ main.pc = "ask" /\ stop.pc = "off" /\ main.next = "save" /\ main.now = {}
        /\ UNCHANGED stop /\ data' = cursor' /\ Idle
    BY <1>5 DEF Seed, At, LoadInv, Undisturbed, StepInv, Saved
  <2>2. main'.pc = "read"
    BY <1>5, <2>1, SeedEffect
  <2>3. cursor' = sent' \/ (cursor' = cursor /\ sent' = sent)
    BY <1>5, LoadedIds
  <2>4. cursor' \in Ids
    BY IdsTyped, <1>5 DEF IdsType, Next, MainStep
  <2>5. Idle'
    BY <2>1, <2>3, <2>4, EventIdFileAssumption DEF Idle, Pending, Ids, EventId, NoId
  <2> QED BY <2>1, <2>2, <2>5 DEF Saved
<1> QED BY <1>2, <1>3, <1>4, <1>5

\* ... and saves the same once more.
LEMMA SavesAgain ==
    ASSUME TypeOK, StepInv, LoadInv, Undisturbed, Saved, ~continuing,
           \/ LoopTop \/ DispatchNothing \/ ReadCursor \/ StoreCursor \/ WriteTmp
           \/ CloseTmp \/ RenameTmp
    PROVE  Saved'
<1>1. /\ main.inode # "none" <=> main.pc \in {"close", "rename"}
      /\ main.inode \in {"none", "tmp", "shared", "file", "orphan"}
      /\ main.now # {} => main.pc \in {"store", "exit"}
      /\ stop.pc \in {"off", "drain"} => stop.saves = 0
      /\ main.next \in {"loop", "readFile", "save"}
      /\ main.pc \in SaveSteps => main.next # "save"
  BY DEF StepInv, TypeOK
<1>2. stop.pc = "off" /\ UNCHANGED <<stop, cursor, sent>> /\ (UNCHANGED data \/ StoreCursor)
  BY DEF LoopTop, DispatchNothing, ReadCursor, StoreCursor, WriteTmp, CloseTmp,
      RenameTmp, At
<1>3. Idle /\ data = cursor /\ Idle'
  BY <1>2 DEF Saved, Idle, Pending
<1>4. CASE LoopTop
  BY <1>2, <1>3, <1>4, GotoEffect DEF Saved, LoopTop, At
<1>5. CASE DispatchNothing
  BY <1>2, <1>3, <1>5, BeginSaveEffect DEF Saved, DispatchNothing
<1>6. CASE ReadCursor
  BY <1>1, <1>2, <1>3, <1>6, ReadCursorEffect DEF Saved, StoreCursor, At
<1>7. CASE StoreCursor
  <2>1. /\ main.pc = "store"
        /\ data' = [p \in Plugin |-> IF p \in main.now THEN main.at ELSE data[p]]
        /\ cursor \in [Plugin -> EventId \cup {NoId}]
    BY <1>7 DEF StoreCursor, At, TypeOK, Ids
  <2>2. data' = cursor
    BY <1>2, <1>3, <2>1 DEF Saved
  <2> QED BY <1>2, <1>3, <1>7, <2>2, StoreCursorEffect DEF Saved
<1>8. CASE WriteTmp
  BY <1>2, <1>3, <1>8, WriteTmpEffect DEF Saved, StoreCursor, WriteTmp, At
<1>9. CASE CloseTmp
  <2>1. main.pc = "close" /\ Flush /\ main'.pc = "rename" /\ data' = data
    BY <1>9, GotoEffect DEF CloseTmp, At
  <2>2. CASE main.inode = "tmp"
    BY <1>2, <1>3, <2>1, <2>2 DEF Saved, Flush, State
  <2>3. CASE main.inode = "orphan"
    BY <1>2, <1>3, <2>1, <2>3 DEF Saved, Flush, LoadInv, Undisturbed
  <2>4. main.inode \in {"tmp", "orphan"}
    BY <1>1, <1>2, <2>1 DEF LoadInv, Undisturbed
  <2> QED BY <2>2, <2>3, <2>4
<1>10. CASE RenameTmp
  <2>1. main.pc = "rename" /\ main'.pc \in {"loop", "readFile"} /\ data' = data
    BY <1>1, <1>10, AfterSaveEffect DEF RenameTmp, At, SaveSteps
  <2>2. file' = State(cursor)
    BY <1>2, <1>10, <2>1 DEF RenameTmp, Saved
  <2> QED BY <1>2, <1>3, <2>1, <2>2 DEF Saved
<1> QED BY <1>4, <1>5, <1>6, <1>7, <1>8, <1>9, <1>10

\* Every step keeps that a stop persists.
LEMMA PersistStep ==
    /\ TypeOK /\ StepInv /\ StartInv /\ LoadInv /\ PersistInv
    /\ [Next]_vars
    => PersistInv'
<1> SUFFICES ASSUME TypeOK, StepInv, StartInv, LoadInv, PersistInv, [Next]_vars,
                    Undisturbed', ~excuse'.torn, ~continuing'
             PROVE  Saved'
  BY DEF PersistInv, Saved
<1>1. Undisturbed /\ ~(Damage \/ Abort \/ WriteFails \/ StopWriteFails)
  BY UndisturbedBefore
<1>2. CASE Sigterm \/ Sigint
  BY <1>2, StopBeginsClean
<1>3. CASE ~(Sigterm \/ Sigint)
  <2>1. ~Lost /\ ~Exit /\ ~Kill
    BY LostEffect DEF Exit, Kill
  <2>2. ~continuing
    BY <1>1, <1>3, <2>1, StopFrame
    DEF LoadGarbled, Drained, StopWrite, StopClose, StopRename
  <2>3. main.pc # "down" /\ ~Start /\ ~Rebuild
    BY <2>2 DEF StepInv, Start, Rebuild, At
  <2>4. ~excuse.torn
    BY <1>1, <1>3, <2>3, ExcuseFrame
  <2>5. Saved
    BY <1>1, <2>2, <2>4 DEF PersistInv, Saved
  <2>6. ~Dispatch
    BY <2>2 DEF Dispatch
  <2>7. CASE Elsewhere
    <3>1. CASE UNCHANGED <<cursor, sent, data>>
      BY <2>5, <2>7, <3>1 DEF Elsewhere, Saved, Idle, Pending
    <3>2. CASE \E p \in Plugin : Process(p)
      <4>1. stop.pc = "drain"
        BY <2>2, <3>2 DEF Process
      <4> QED BY <2>5, <2>7, <4>1 DEF Elsewhere, Saved
    <3> QED BY <2>7, <3>1, <3>2 DEF Elsewhere
  <2> QED
    BY <1>1, <1>3, <2>1, <2>2, <2>3, <2>5, <2>6, <2>7, Steps, StopSaves, LoadsSaved,
        SavesAgain
<1> QED BY <1>2, <1>3

-----------------------------------------------------------------------------
(* Theorems *)

\* The invariant holds at the start.
LEMMA FileInit == Init => FileInv
<1> SUFFICES ASSUME Init PROVE FileInv
  OBVIOUS
<1>1. TypeOK
  BY TypeInit
<1>2. /\ main = main0 /\ stop = stop0 /\ continuing = TRUE /\ oldest = NoId
      /\ cursor = NoIds /\ sent = NoIds /\ data = NoIds
      /\ tmp = Other("missing") /\ file \in {Other("missing"), Legacy(1)}
  BY DEF Init
<1>3. StepInv
  BY <1>2 DEF StepInv, main0, stop0, SaveSteps
<1>4. StartInv
  BY <1>2 DEF StartInv, LikeCursor, Uniform, NoIds, main0, stop0, Other, Legacy
<1>5. RereadInv
  BY <1>2 DEF RereadInv, main0, SaveSteps
<1>6. SkipInv
  <2>1. Covered(NoIds)
    BY DEF Covered, NoIds, NoId
  <2>2. Covered(file.ids)
    <3>1. CASE file = Other("missing")
      BY <2>1, <3>1 DEF Other
    <3>2. CASE file = Legacy(1)
      BY <3>2 DEF Init, Legacy, Covered, Known
    <3> QED BY <1>2, <3>1, <3>2
  <2> QED BY <1>2, <2>1, <2>2 DEF SkipInv, main0, stop0, Other, NoIds, NoId, Pending
<1>7. LoadInv
  BY <1>2 DEF LoadInv, main0, stop0, Other, Legacy
<1>8. PersistInv
  BY <1>2 DEF PersistInv
<1> QED BY <1>1, <1>3, <1>4, <1>5, <1>6, <1>7, <1>8 DEF FileInv

\* Every step keeps the invariant.
LEMMA FileStep == FileInv /\ [Next]_vars => FileInv'
  BY TypeStep, StepStep, StartStep, RereadStep, SkipStep, LoadStep, PersistStep DEF
      FileInv

\* The inductive invariant holds, for any plugins, ids and bounds.
THEOREM FileInvHolds == Spec => []FileInv
<1>1. Init => FileInv
  BY FileInit
<1>2. FileInv /\ [Next]_vars => FileInv'
  BY FileStep
<1> QED BY <1>1, <1>2, PTL DEF Spec

\* No cursor, in memory or in the file, passes an event that was neither handled nor
\* given up, through saves, loads, kills, stops and files rebuilt from the queue
\* table: the plugins of a state either all have an id or none has, so that the
\* oldest queued event is the next one of every plugin that is behind.
THEOREM NoEventIsSkipped == Spec => []NothingSkipped
<1>1. FileInv => NothingSkipped
  BY DEF FileInv, SkipInv, Covered, Known, NothingSkipped
<1> QED BY <1>1, FileInvHolds, PTL

\* No signal or kill leaves a file that cannot be loaded (_saveEventIdData writes a
\* temporary file and renames it), and no stop that a SIGINT cuts short does, unless
\* it comes between the two saves of a stop that runs on top of a save: that one may
\* leave a file half written under its name.  A write that fails and damage from
\* outside are left out.
THEOREM FileStaysLoadable == Spec => []FileLoads
<1>1. FileInv => FileLoads
  <2> SUFFICES ASSUME FileInv, At("down"), file.kind \in {"empty", "garbled"}
               PROVE  budget.damage < MaxDamage \/ excuse.failed \/ excuse.spoilt
    BY DEF FileLoads
  <2>1. ~Unspoilt
    BY DEF FileInv, LoadInv
  <2>2. budget.damage \in 0 .. MaxDamage
    BY DEF FileInv, TypeOK
  <2> QED BY <2>1, <2>2, EventIdFileAssumption DEF Unspoilt
<1> QED BY <1>1, FileInvHolds, PTL

\* What a stop has saved is in the file when the process ends, whatever step of the
\* main thread's own save the signal met.
THEOREM StopIsPersistent == Spec => []StopPersists
<1>1. FileInv => StopPersists
  <2> SUFFICES ASSUME FileInv, At("exit"), budget.damage = MaxDamage,
                      TRUE \notin {excuse.torn, excuse.failed, excuse.aborted, excuse.spoilt}
               PROVE  file = State(cursor)
    BY DEF StopPersists
  <2>1. ~excuse.torn /\ ~excuse.failed /\ ~excuse.aborted /\ ~excuse.spoilt
    <3>1. {excuse.torn, excuse.failed, excuse.aborted, excuse.spoilt} \subseteq BOOLEAN
      BY DEF FileInv, TypeOK
    <3> QED BY <3>1
  <2>2. Undisturbed
    BY <2>1 DEF Undisturbed, Unspoilt
  <2>3. main.pc = "exit" /\ stop.pc = "off" /\ ~continuing
    BY DEF FileInv, StepInv, At
  <2> QED BY <2>1, <2>2, <2>3 DEF FileInv, PersistInv
<1> QED BY <1>1, FileInvHolds, PTL

================================================================================
