--------------------------- MODULE QueueTableProofs ---------------------------
(***************************************************************************)
(* Theorems about QueueTable for every value of its constants: the two     *)
(* records of a queue agree, work that is under way is listed, and the     *)
(* table is what was reported last and empty after a clean stop.           *)
(***************************************************************************)
EXTENDS QueueTable, SequenceTheorems, TLAPS

USE QueueTableAssumption DEF vars, pluginVars

-----------------------------------------------------------------------------
(* Snapshots, rows and the pending entries *)

\* A beginning of a sequence.
LEMMA Beginning ==
    ASSUME NEW S, NEW s \in Seq(S), NEW n \in 0 .. Len(s)
    PROVE  /\ SubSeq(s, 1, n) \in Seq(S) /\ Len(SubSeq(s, 1, n)) = n
           /\ \A i \in 1 .. n : SubSeq(s, 1, n)[i] = s[i]
<1>1. Len(s) \in Nat /\ n \in Int /\ \A i \in 1 .. n : s[i] \in S
  OBVIOUS
<1> QED BY <1>1, SubSeqProperties

\* The ends of a sequence.
LEMMA AppendEnds ==
    ASSUME NEW S, NEW s \in Seq(S), NEW e \in S
    PROVE  /\ Append(s, e) \in Seq(S) /\ Append(s, e) # <<>>
           /\ Last(Append(s, e)) = e /\ Front(Append(s, e)) = s
           /\ Append(s, e) = s \o <<e>>
<1>1. Append(s, e) \in Seq(S) /\ Len(Append(s, e)) = Len(s) + 1 /\ Len(s) \in Nat
  OBVIOUS
<1>2. Append(s, e) # <<>>
  BY <1>1, EmptySeq
<1>3. Last(Append(s, e)) = e /\ Append(s, e) = s \o <<e>>
  BY DEF Last
<1>4. Front(Append(s, e)) = s
  BY DEF Front
<1> QED BY <1>1, <1>2, <1>3, <1>4

\* The head, the tail, the front and the last entry of a sequence with one.
LEMMA Ends ==
    ASSUME NEW S, NEW s \in Seq(S), s # <<>>
    PROVE  /\ Head(s) \in S /\ Tail(s) \in Seq(S) /\ Head(s) = s[1]
           /\ s = <<Head(s)>> \o Tail(s) /\ Front(s) \in Seq(S)
           /\ Tail(s) = <<>> => Last(s) = Head(s) /\ Front(s) = <<>>
           /\ Tail(s) # <<>> => /\ Last(Tail(s)) = Last(s)
                                /\ Front(s) = <<Head(s)>> \o Front(Tail(s))
<1>1. /\ Head(s) \in S /\ Tail(s) \in Seq(S) /\ Len(Tail(s)) = Len(s) - 1
      /\ \A i \in 1 .. Len(Tail(s)) : Tail(s)[i] = s[i + 1]
      /\ Head(s) = s[1]
  BY HeadTailProperties
<1>2. Len(s) \in Nat \ {0} /\ Len(s) - 1 \in 0 .. Len(s)
  BY EmptySeq
<1>3. /\ Front(s) \in Seq(S) /\ Len(Front(s)) = Len(s) - 1
      /\ \A i \in 1 .. Len(s) - 1 : Front(s)[i] = s[i]
  BY <1>2, Beginning DEF Front
<1>4. s = <<Head(s)>> \o Tail(s)
  BY <1>1, <1>2
<1>5. ASSUME Tail(s) = <<>> PROVE Last(s) = Head(s) /\ Front(s) = <<>>
  <2>1. Len(s) = 1
    <3> DEFINE t == Tail(s)
    <3>1. t = <<>> /\ Len(t) = Len(s) - 1
      BY <1>1, <1>5
    <3> HIDE DEF t
    <3>2. Len(t) = 0
      BY <3>1
    <3> QED BY <1>2, <3>1, <3>2
  <2>2. Front(s) = <<>>
    BY <1>3, <2>1, EmptySeq
  <2> QED BY <1>1, <2>1, <2>2 DEF Last
<1>6. ASSUME Tail(s) # <<>> PROVE Last(Tail(s)) = Last(s)
  BY <1>1, <1>2, <1>6, EmptySeq DEF Last
<1>7. ASSUME Tail(s) # <<>>
      PROVE  Front(s) = <<Head(s)>> \o Front(Tail(s))
  <2>1. Len(Tail(s)) \in Nat \ {0}
    BY <1>1, <1>7, EmptySeq
  <2>2. Len(Tail(s)) - 1 \in 0 .. Len(Tail(s))
    BY <1>1, <1>2, <2>1
  <2>3. /\ Front(Tail(s)) \in Seq(S) /\ Len(Front(Tail(s))) = Len(s) - 2
        /\ \A i \in 1 .. Len(s) - 2 : Front(Tail(s))[i] = s[i + 1]
    BY <1>1, <1>2, <2>1, <2>2, Beginning DEF Front
  <2> DEFINE t == <<Head(s)>> \o Front(Tail(s))
  <2>4. <<Head(s)>> \in Seq(S) /\ Len(<<Head(s)>>) = 1 /\ <<Head(s)>>[1] = s[1]
    BY <1>1
  <2>5. /\ t \in Seq(S) /\ Len(t) = Len(s) - 1
        /\ \A i \in 1 .. Len(s) - 1 : t[i] = s[i]
    BY <1>2, <2>3, <2>4, ConcatProperties
  <2> HIDE DEF t
  <2>6. Len(Front(s)) = Len(t) /\ \A i \in 1 .. Len(Front(s)) : Front(s)[i] = t[i]
    BY <1>3, <2>5
  <2>7. Front(s) = t
    BY <1>3, <2>5, <2>6, SeqEqual
  <2> QED BY <2>7 DEF t
<1> QED BY <1>1, <1>3, <1>4, <1>5, <1>6, <1>7

\* What a snapshot lists is no longer than what is pending.
LEMMA LeastOfTwo ==
    ASSUME NEW pend \in Seq(EventId)
    PROVE  Min({Len(pend), PendingLimit}) \in 0 .. Len(pend)
<1> DEFINE S == {Len(pend), PendingLimit}
<1>1. PendingLimit \in Nat /\ Len(pend) \in Nat
  BY QueueTableAssumption
<1>2. \E x \in S : \A y \in S : x =< y
  BY <1>1
<1>3. Min(S) \in S /\ \A y \in S : Min(S) =< y
  BY <1>2 DEF Min
<1> QED BY <1>1, <1>3

\* A snapshot of a list of events is a snapshot.
LEMMA SnapshotType ==
    ASSUME NEW pend \in Seq(EventId), NEW cur \in EventId \cup {NoEvent}
    PROVE  Snapshot(pend, cur) \in Snapshots
<1>2. Min({Len(pend), PendingLimit}) \in 0 .. Len(pend) /\ Len(pend) \in Nat
  BY LeastOfTwo
<1>3. SubSeq(pend, 1, Min({Len(pend), PendingLimit})) \in Seq(EventId)
  BY <1>2, Beginning
<1> QED BY <1>2, <1>3 DEF Snapshot, Snapshots

\* The empty snapshot is one, and gives no row.
LEMMA EmptyType == Empty \in Snapshots /\ RowsOf(Empty) = <<>>
<1>1. Empty \in Snapshots
  BY DEF Empty, Snapshots, NoEvent
<1>2. [i \in DOMAIN <<>> |-> << (<<>>)[i], "pending">>] = <<>>
  OBVIOUS
<1> QED BY <1>1, <1>2 DEF Empty, RowsOf

\* The rows of a map of snapshots are a table.
LEMMA RowsType ==
    ASSUME NEW map \in [Plugin -> Snapshots]
    PROVE  Rows(map) \in Tables
<1>1. ASSUME NEW p \in Plugin
      PROVE  RowsOf(map[p]) \in Seq(EventId \X {"processing", "pending"})
  <2>1. map[p].listed \in Seq(EventId) /\ map[p].current \in EventId \cup {NoEvent}
    BY DEF Snapshots
  <2> DEFINE waiting == [i \in DOMAIN map[p].listed |-> <<map[p].listed[i], "pending">>]
  <2>2. waiting \in Seq(EventId \X {"processing", "pending"})
    BY <2>1
  <2>3. RowsOf(map[p]) = (IF map[p].current = NoEvent THEN <<>>
                           ELSE << <<map[p].current, "processing">> >>) \o waiting
    BY DEF RowsOf
  <2> HIDE DEF waiting
  <2>4. CASE map[p].current = NoEvent
    BY <2>2, <2>3, <2>4
  <2>5. CASE map[p].current # NoEvent
    <3>1. << <<map[p].current, "processing">> >> \in Seq(EventId \X {"processing", "pending"})
      BY <2>1, <2>5
    <3> QED BY <2>2, <2>3, <2>5, <3>1
  <2> QED BY <2>4, <2>5
<1> QED BY <1>1 DEF Rows, Tables

\* _take_pending of an event at the head of the list drops that head.
LEMMA TakeFirst ==
    ASSUME TypeOK, NEW p \in Plugin, NEW e \in EventId, pending[p] # <<>>,
           pending[p][1] = e
    PROVE  TakePending(p, e) = Tail(pending[p])
<1> DEFINE entries == {i \in DOMAIN pending[p] : pending[p][i] = e}
<1>1. Min(entries) = 1 /\ entries # {}
  BY DEF TypeOK, Min
<1>2. RemoveAt(pending[p], 1) = Tail(pending[p])
  BY DEF TypeOK, RemoveAt
<1> QED BY <1>1, <1>2 DEF TakePending

\* A sequence that is a part of one without the sentinel has no sentinel.
LEMMA RestIsEvents ==
    ASSUME NEW e, NEW s \in Seq(EventId \cup {StopSentinel}),
           e \in EventId \cup {StopSentinel}, <<e>> \o s \in Seq(EventId)
    PROVE  e \in EventId /\ s \in Seq(EventId)
<1> DEFINE t == <<e>> \o s
<1>1. <<e>> \in Seq(EventId \cup {StopSentinel}) /\ Len(<<e>>) = 1 /\ <<e>>[1] = e
  OBVIOUS
<1>2. /\ Len(s) \in Nat /\ Len(t) = Len(s) + 1
      /\ \A i \in 1 .. Len(s) + 1 : t[i] = IF i <= 1 THEN e ELSE s[i - 1]
  BY <1>1, ConcatProperties, LenProperties
<1>3. \A i \in 1 .. Len(t) : t[i] \in EventId
  BY ElementOfSeq
<1> HIDE DEF t
<1>4. t[1] = e /\ t[1] \in EventId
  BY <1>2, <1>3
<1>5. ASSUME NEW i \in 1 .. Len(s) PROVE s[i] \in EventId
  <2>1. i + 1 \in 1 .. Len(s) + 1 /\ ~(i + 1 <= 1) /\ (i + 1) - 1 = i
    BY <1>2
  <2> QED BY <1>2, <1>3, <2>1
<1>6. s \in [1 .. Len(s) -> EventId]
  BY <1>5, LenProperties
<1> QED BY <1>2, <1>4, <1>6, SeqDef

\* A queue without a sentinel holds only events.
LEMMA PlainQueue ==
    ASSUME NEW s \in Seq(EventId)
    PROVE  Waiting(s) = s
<1>1. ASSUME s # <<>> PROVE Last(s) \in EventId
  <2>1. Len(s) \in 1 .. Len(s)
    BY <1>1, EmptySeq
  <2> QED BY <2>1, ElementOfSeq DEF Last
<1> QED BY <1>1 DEF Waiting, StopSentinel, EventId

\* The events of a queue that begins with an event, or with its sentinel.
LEMMA WaitingTail ==
    ASSUME NEW s \in Seq(EventId \cup {StopSentinel}), s # <<>>,
           \/ s \in Seq(EventId)
           \/ Last(s) = StopSentinel /\ Front(s) \in Seq(EventId)
    PROVE  /\ Head(s) \in EventId => Waiting(s) = <<Head(s)>> \o Waiting(Tail(s))
           /\ Head(s) = StopSentinel => Waiting(s) = Waiting(Tail(s))
           /\ Waiting(Tail(s)) \in Seq(EventId)
<1>1. StopSentinel \notin EventId
  BY DEF StopSentinel, EventId
<1>2. CASE s \in Seq(EventId)
  <2>1. /\ Head(s) \in EventId /\ Tail(s) \in Seq(EventId)
        /\ s = <<Head(s)>> \o Tail(s)
    BY <1>2, Ends
  <2>2. Waiting(s) = s /\ Waiting(Tail(s)) = Tail(s)
    BY <1>1, <1>2, <2>1, PlainQueue
  <2> QED BY <1>1, <2>1, <2>2
<1>3. CASE Last(s) = StopSentinel /\ Front(s) \in Seq(EventId)
  <2>1. Waiting(s) = Front(s)
    BY <1>3 DEF Waiting
  <2>2. CASE Tail(s) = <<>>
    <3>1. Front(s) = <<>> /\ Head(s) = StopSentinel
      BY <1>3, <2>2, Ends
    <3>2. Waiting(<<>>) = <<>> /\ <<>> \in Seq(EventId)
      BY DEF Waiting
    <3> QED BY <1>1, <2>1, <2>2, <3>1, <3>2
  <2>3. CASE Tail(s) # <<>>
    <3>1. /\ Front(s) = <<Head(s)>> \o Front(Tail(s)) /\ Last(Tail(s)) = StopSentinel
          /\ Head(s) \in EventId \cup {StopSentinel}
          /\ Tail(s) \in Seq(EventId \cup {StopSentinel})
      BY <1>3, <2>3, Ends
    <3>2. Front(Tail(s)) \in Seq(EventId \cup {StopSentinel})
      BY <2>3, <3>1, Ends
    <3>3. Head(s) \in EventId /\ Front(Tail(s)) \in Seq(EventId)
      BY <1>3, <3>1, <3>2, RestIsEvents
    <3> QED BY <1>1, <2>1, <2>3, <3>1, <3>3 DEF Waiting
  <2> QED BY <2>2, <2>3
<1> QED BY <1>2, <1>3

\* The event that a worker has taken out of its queue is the first that waits.
LEMMA TakesFirst ==
    ASSUME TypeOK, ThreadInv, PendingMirrorsQueue, NEW p \in Plugin,
           worker[p].pc = "take"
    PROVE  /\ pending[p] # <<>> /\ pending[p][1] = worker[p].event
           /\ TakePending(p, worker[p].event) = Tail(pending[p])
           /\ Tail(pending[p]) \in Seq(EventId)
<1>1. worker[p].event \in EventId /\ closer[p].pc \notin {"store", "done"}
  BY DEF ThreadInv
<1>2. Waiting(queue[p]) \in Seq(EventId \cup {StopSentinel})
  BY DEF TypeOK, Waiting, Front
<1> DEFINE put == BeingPut(p)
<1>3. put \in Seq(EventId \cup {NoEvent})
  <2>1. main.event \in EventId \cup {NoEvent}
    BY DEF TypeOK, MainStates
  <2>2. <<main.event>> \in Seq(EventId \cup {NoEvent}) /\ <<>> \in Seq(EventId \cup {NoEvent})
    BY <2>1
  <2> QED BY <2>2 DEF BeingPut
<1>4. pending[p] = <<worker[p].event>> \o Waiting(queue[p]) \o put
  BY <1>1 DEF PendingMirrorsQueue, TakenOut
<1> HIDE DEF put
<1>5. pending[p] # <<>> /\ pending[p][1] = worker[p].event
  BY <1>1, <1>2, <1>3, <1>4 DEF NoEvent, StopSentinel
<1>6. pending[p] \in Seq(EventId)
  BY DEF TypeOK
<1>7. TakePending(p, worker[p].event) = Tail(pending[p])
  BY <1>1, <1>5, TakeFirst
<1> QED BY <1>5, <1>6, <1>7

-----------------------------------------------------------------------------
(* Frame lemmas: which steps change which variable *)

\* The steps that change the queues.
LEMMA QueueFrame ==
    [Next]_vars =>
        \/ UNCHANGED queue
        \/ PutEvent \/ Restart \/ (\E p \in Plugin : Get(p))
        \/ (\E p \in Plugin : PutSentinel(p))
  BY DEF Next, MainStep, WriterStep, WorkerStep, CloserStep, NextEvent,
         AppendPending, Unlock, Report, MainStore, NextPlugin, StopLogger,
         HandlerReturns, Terminate, Open, FlushSnapshot, Delete, Insert,
         DeleteFails, InsertFails, LeaveLoop, Begin, WorkerStore, Finish,
         ClearPlugin, CloserStore, WriterUnchanged

\* The steps that change the lists of pending events.
LEMMA PendingFrame ==
    [Next]_vars =>
        \/ UNCHANGED pending
        \/ AppendPending \/ Restart \/ (\E p \in Plugin : Begin(p))
        \/ (\E p \in Plugin : ClearPlugin(p))
  BY DEF Next, MainStep, WriterStep, WorkerStep, CloserStep, NextEvent, Unlock,
         PutEvent, Report, MainStore, NextPlugin, StopLogger, HandlerReturns,
         Terminate, Open, FlushSnapshot, Delete, Insert, DeleteFails, InsertFails,
         LeaveLoop, Get, WorkerStore, Finish, PutSentinel, CloserStore,
         WriterUnchanged

\* The steps that change what is being worked on.
LEMMA CurrentFrame ==
    [Next]_vars =>
        \/ UNCHANGED current
        \/ Restart \/ (\E p \in Plugin : Begin(p)) \/ (\E p \in Plugin : Finish(p))
        \/ (\E p \in Plugin : ClearPlugin(p))
  BY DEF Next, MainStep, WriterStep, WorkerStep, CloserStep, NextEvent,
         AppendPending, Unlock, PutEvent, Report, MainStore, NextPlugin,
         StopLogger, HandlerReturns, Terminate, Open, FlushSnapshot, Delete,
         Insert, DeleteFails, InsertFails, LeaveLoop, Get, WorkerStore,
         PutSentinel, CloserStore, WriterUnchanged

\* The steps that change a worker.
LEMMA WorkerFrame ==
    [Next]_vars =>
        \/ UNCHANGED worker
        \/ Restart \/ (\E p \in Plugin : Get(p)) \/ (\E p \in Plugin : Begin(p))
        \/ (\E p \in Plugin : WorkerStore(p)) \/ (\E p \in Plugin : Finish(p))
  BY DEF Next, MainStep, WriterStep, WorkerStep, CloserStep, NextEvent,
         AppendPending, Unlock, PutEvent, Report, MainStore, NextPlugin,
         StopLogger, HandlerReturns, Terminate, Open, FlushSnapshot, Delete,
         Insert, DeleteFails, InsertFails, LeaveLoop, PutSentinel, ClearPlugin,
         CloserStore, WriterUnchanged

\* The steps that change the main thread.
LEMMA MainFrame ==
    [Next]_vars =>
        \/ UNCHANGED main
        \/ NextEvent \/ AppendPending \/ Unlock
        \/ PutEvent \/ Report \/ MainStore
        \/ NextPlugin \/ StopLogger \/ HandlerReturns
        \/ Terminate \/ Restart
  BY DEF Next, MainStep, WriterStep, WorkerStep, CloserStep, Open, FlushSnapshot,
         Delete, Insert, DeleteFails, InsertFails, LeaveLoop, Get, Begin,
         WorkerStore, Finish, PutSentinel, ClearPlugin, CloserStore, WriterUnchanged

\* The steps that change a thread that shuts a plugin down.
LEMMA CloserFrame ==
    [Next]_vars =>
        \/ UNCHANGED closer
        \/ Terminate \/ Restart \/ (\E p \in Plugin : PutSentinel(p))
        \/ (\E p \in Plugin : ClearPlugin(p)) \/ (\E p \in Plugin : CloserStore(p))
  BY DEF Next, MainStep, WriterStep, WorkerStep, CloserStep, NextEvent,
         AppendPending, Unlock, PutEvent, Report, MainStore, NextPlugin,
         StopLogger, HandlerReturns, Open, FlushSnapshot, Delete, Insert,
         DeleteFails, InsertFails, LeaveLoop, Get, Begin, WorkerStore, Finish,
         WriterUnchanged

\* The steps that change the number of events handed off.
LEMMA DispatchedFrame ==
    [Next]_vars =>
        \/ UNCHANGED dispatched
        \/ NextEvent \/ Restart
  BY DEF Next, MainStep, WriterStep, WorkerStep, CloserStep, AppendPending, Unlock,
         PutEvent, Report, MainStore, NextPlugin, StopLogger, HandlerReturns,
         Terminate, Open, FlushSnapshot, Delete, Insert, DeleteFails, InsertFails,
         LeaveLoop, Get, Begin, WorkerStore, Finish, PutSentinel, ClearPlugin,
         CloserStore, WriterUnchanged

\* The steps that change the map of the database logger.
LEMMA StoredFrame ==
    [Next]_vars =>
        \/ UNCHANGED stored
        \/ MainStore \/ Restart \/ (\E p \in Plugin : WorkerStore(p))
        \/ (\E p \in Plugin : CloserStore(p))
  BY DEF Next, MainStep, WriterStep, WorkerStep, CloserStep, NextEvent,
         AppendPending, Unlock, PutEvent, Report, NextPlugin, StopLogger,
         HandlerReturns, Terminate, Open, FlushSnapshot, Delete, Insert,
         DeleteFails, InsertFails, LeaveLoop, Get, Begin, Finish, PutSentinel,
         ClearPlugin, WriterUnchanged

\* The steps that change the stop flag of the database logger.
LEMMA StopFrame ==
    [Next]_vars =>
        \/ UNCHANGED stop
        \/ StopLogger \/ Restart
  BY DEF Next, MainStep, WriterStep, WorkerStep, CloserStep, NextEvent,
         AppendPending, Unlock, PutEvent, Report, MainStore, NextPlugin,
         HandlerReturns, Terminate, Open, FlushSnapshot, Delete, Insert,
         DeleteFails, InsertFails, LeaveLoop, Get, Begin, WorkerStore, Finish,
         PutSentinel, ClearPlugin, CloserStore, WriterUnchanged

\* The steps that change the writer thread.
LEMMA WriterFrame ==
    [Next]_vars =>
        \/ UNCHANGED writer
        \/ Open \/ FlushSnapshot \/ Delete
        \/ Insert \/ DeleteFails \/ InsertFails
        \/ LeaveLoop \/ Restart
  BY DEF Next, MainStep, WriterStep, WorkerStep, CloserStep, NextEvent,
         AppendPending, Unlock, PutEvent, Report, MainStore, NextPlugin,
         StopLogger, HandlerReturns, Terminate, Get, Begin, WorkerStore, Finish,
         PutSentinel, ClearPlugin, CloserStore, WriterUnchanged

\* The steps that change the table.
LEMMA TableFrame ==
    [Next]_vars =>
        \/ UNCHANGED table
        \/ Delete \/ Insert \/ DeleteFails
        \/ InsertFails
  BY DEF Next, MainStep, WriterStep, WorkerStep, CloserStep, NextEvent,
         AppendPending, Unlock, PutEvent, Report, MainStore, NextPlugin,
         StopLogger, HandlerReturns, Terminate, Open, FlushSnapshot, LeaveLoop,
         Restart, Get, Begin, WorkerStore, Finish, PutSentinel, ClearPlugin,
         CloserStore, WriterUnchanged

\* The steps that change the faults and restarts counted.
LEMMA BoundsFrame ==
    [Next]_vars =>
        \/ UNCHANGED bounds
        \/ HandlerReturns \/ Open \/ DeleteFails
        \/ InsertFails \/ Restart
  BY DEF Next, MainStep, WriterStep, WorkerStep, CloserStep, NextEvent,
         AppendPending, Unlock, PutEvent, Report, MainStore, NextPlugin,
         StopLogger, Terminate, FlushSnapshot, Delete, Insert, LeaveLoop, Get,
         Begin, WorkerStore, Finish, PutSentinel, ClearPlugin, CloserStore,
         WriterUnchanged

\* The steps that change the dirty flag.
LEMMA DirtyFrame ==
    [Next]_vars =>
        \/ UNCHANGED dirty
        \/ MainStore \/ FlushSnapshot \/ DeleteFails
        \/ InsertFails \/ Restart \/ (\E p \in Plugin : WorkerStore(p))
        \/ (\E p \in Plugin : CloserStore(p))
  BY DEF Next, MainStep, WriterStep, WorkerStep, CloserStep, NextEvent,
         AppendPending, Unlock, PutEvent, Report, NextPlugin, StopLogger,
         HandlerReturns, Terminate, Open, Delete, Insert, LeaveLoop, Get, Begin,
         Finish, PutSentinel, ClearPlugin, WriterUnchanged

-----------------------------------------------------------------------------
(* The type of every variable after a step *)

\* A step leaves the queues well typed.
LEMMA QueueType ==
    ASSUME TypeOK, ThreadInv, PendingMirrorsQueue, [Next]_vars
    PROVE  queue' \in [Plugin -> Seq(EventId \cup {StopSentinel})]
<1> DEFINE Goal == queue' \in [Plugin -> Seq(EventId \cup {StopSentinel})]
<1>0. queue \in [Plugin -> Seq(EventId \cup {StopSentinel})]
      /\ main.event \in EventId \cup {StopSentinel}
  BY DEF TypeOK, MainStates, NoEvent, StopSentinel
<1>1. CASE PutEvent
  <2>1. Append(queue[main.at], main.event) \in Seq(EventId \cup {StopSentinel})
    BY <1>0 DEF TypeOK, MainStates
  <2> QED BY <1>1, <1>0, <2>1 DEF PutEvent
<1>2. ASSUME NEW p \in Plugin, PutSentinel(p) PROVE Goal
  BY <1>2, <1>0 DEF PutSentinel
<1>3. ASSUME NEW p \in Plugin, Get(p) PROVE Goal
  BY <1>3, <1>0 DEF Get
<1>4. CASE Restart
  BY <1>4, <1>0 DEF Restart, NewWorker, NewMain, NewWriter
<1>5. CASE UNCHANGED queue
  BY <1>5, <1>0
<1> QED BY <1>1, <1>2, <1>3, <1>4, <1>5, QueueFrame

\* A step leaves the lists of pending events well typed.
LEMMA PendingType ==
    ASSUME TypeOK, ThreadInv, PendingMirrorsQueue, [Next]_vars
    PROVE  pending' \in [Plugin -> Seq(EventId)]
<1> DEFINE Goal == pending' \in [Plugin -> Seq(EventId)]
<1>0. pending \in [Plugin -> Seq(EventId)]
  BY DEF TypeOK
<1>1. CASE AppendPending
  <2>1. Append(pending[main.at], main.event) \in Seq(EventId)
    BY <1>1, <1>0 DEF AppendPending, ThreadInv, Enqueuing, TypeOK, MainStates
  <2> QED BY <1>1, <1>0, <2>1 DEF AppendPending
<1>2. ASSUME NEW p \in Plugin, ClearPlugin(p) PROVE Goal
  BY <1>2, <1>0 DEF ClearPlugin
<1>3. ASSUME NEW p \in Plugin, Begin(p) PROVE Goal
  BY <1>3, <1>0, TakesFirst DEF Begin
<1>4. CASE Restart
  BY <1>4, <1>0 DEF Restart, NewWorker, NewMain, NewWriter
<1>5. CASE UNCHANGED pending
  BY <1>5, <1>0
<1> QED BY <1>1, <1>2, <1>3, <1>4, <1>5, PendingFrame

\* A step leaves what is being worked on well typed.
LEMMA CurrentType ==
    ASSUME TypeOK, ThreadInv, PendingMirrorsQueue, [Next]_vars
    PROVE  current' \in [Plugin -> EventId \cup {NoEvent}]
<1> DEFINE Goal == current' \in [Plugin -> EventId \cup {NoEvent}]
<1>0. current \in [Plugin -> EventId \cup {NoEvent}]
      /\ \A p \in Plugin : worker[p].event \in EventId \cup {NoEvent}
  BY DEF TypeOK, WorkerStates
<1>1. ASSUME NEW p \in Plugin, ClearPlugin(p) PROVE Goal
  BY <1>1, <1>0 DEF ClearPlugin
<1>2. ASSUME NEW p \in Plugin, Begin(p) PROVE Goal
  BY <1>2, <1>0 DEF Begin
<1>3. ASSUME NEW p \in Plugin, Finish(p) PROVE Goal
  BY <1>3, <1>0 DEF Finish
<1>4. CASE Restart
  BY <1>4, <1>0 DEF Restart, NewWorker, NewMain, NewWriter
<1>5. CASE UNCHANGED current
  BY <1>5, <1>0
<1> QED BY <1>1, <1>2, <1>3, <1>4, <1>5, CurrentFrame

\* A step leaves the workers well typed.
LEMMA WorkerType ==
    ASSUME TypeOK, ThreadInv, PendingMirrorsQueue, [Next]_vars
    PROVE  worker' \in [Plugin -> WorkerStates]
<1> DEFINE Goal == worker' \in [Plugin -> WorkerStates]
<1>0. worker \in [Plugin -> WorkerStates]
  BY DEF TypeOK
<1>a. pending \in [Plugin -> Seq(EventId)] /\ queue \in [Plugin -> Seq(EventId \cup {NoEvent})]
  BY DEF TypeOK, NoEvent, StopSentinel
<1>1. ASSUME NEW p \in Plugin, Get(p) PROVE Goal
  <2>1. queue[p] # <<>> /\ queue[p] \in Seq(EventId \cup {NoEvent})
    BY <1>1, <1>a DEF Get
  <2>2. Head(queue[p]) \in EventId \cup {NoEvent}
    BY <2>1
  <2>3. PICK pc \in {"done", "take"} :
            worker' = [worker EXCEPT ![p].pc = pc, ![p].event = Head(queue[p])]
    BY <1>1 DEF Get
  <2> QED BY <1>0, <2>2, <2>3 DEF WorkerStates
<1>2. ASSUME NEW p \in Plugin, Begin(p) PROVE Goal
  <2> DEFINE pend == TakePending(p, worker[p].event)
  <2>1. pend \in Seq(EventId) /\ worker[p].event \in EventId \cup {NoEvent}
    BY <1>2, <1>0, TakesFirst, ZenonT(60) DEF Begin, WorkerStates
  <2>2. Snapshot(pend, worker[p].event) \in Snapshots
    BY <2>1, SnapshotType
  <2>3. worker' = [worker EXCEPT ![p].pc = "storeStart",
                                 ![p].shot = Snapshot(pend, worker[p].event)]
    BY <1>2 DEF Begin
  <2> QED BY <1>0, <2>2, <2>3 DEF WorkerStates
<1>3. ASSUME NEW p \in Plugin, WorkerStore(p) PROVE Goal
  BY <1>3, <1>0, EmptyType DEF WorkerStore, Store, Reported, WorkerStates
<1>4. ASSUME NEW p \in Plugin, Finish(p) PROVE Goal
  <2>1. Snapshot(pending[p], NoEvent) \in Snapshots
    BY <1>a, SnapshotType
  <2> QED BY <1>4, <1>0, <2>1, ZenonT(60) DEF Finish, WorkerStates
<1>5. CASE Restart
  BY <1>5, <1>0, EmptyType DEF Restart, NewWorker, NewMain, NewWriter, WorkerStates
<1>6. CASE UNCHANGED worker
  BY <1>6, <1>0
<1> QED BY <1>1, <1>2, <1>3, <1>4, <1>5, <1>6, WorkerFrame

\* A step leaves the main thread well typed.
LEMMA MainType ==
    ASSUME TypeOK, ThreadInv, PendingMirrorsQueue, [Next]_vars
    PROVE  main' \in MainStates
<1> DEFINE Goal == main' \in MainStates
<1>0. main \in MainStates
  BY DEF TypeOK
<1>a. pending \in [Plugin -> Seq(EventId)] /\ current \in [Plugin -> EventId \cup {NoEvent}]
  BY DEF TypeOK
<1>b. 1 \in Plugin /\ NumPlugins \in Nat /\ Plugin = 1 .. NumPlugins
  BY QueueTableAssumption DEF Plugin
<1>c. NewMain \in MainStates
  BY <1>b, EmptyType DEF NewMain, MainStates
<1>1. CASE NextEvent
  BY <1>1, <1>0, <1>b DEF NextEvent, MainStates, Enqueuing
<1>2. CASE AppendPending
  BY <1>2, <1>0 DEF AppendPending, MainGoto, MainStates, Enqueuing, Stopping
<1>3. CASE Unlock
  BY <1>3, <1>0 DEF Unlock, MainGoto, After, MainStates, Enqueuing, Stopping
<1>4. CASE PutEvent
  BY <1>4, <1>0 DEF PutEvent, MainGoto, MainStates, Enqueuing, Stopping
<1>5. CASE Report
  <2>1. Snapshot(pending[main.at], current[main.at]) \in Snapshots
    BY <1>0, <1>a, SnapshotType DEF MainStates
  <2> QED BY <1>5, <1>0, <2>1 DEF Report, MainGoto, MainStates, Enqueuing
<1>6. CASE MainStore
  BY <1>6, <1>0, EmptyType DEF MainStore, MainStates, Enqueuing
<1>7. CASE NextPlugin
  <2>1. CASE main.at < NumPlugins
    <3>1. main.at + 1 \in Plugin
      BY <2>1, <1>0, <1>b DEF MainStates
    <3> QED BY <1>7, <2>1, <1>0, <3>1 DEF NextPlugin, MainStates, Enqueuing
  <2>2. CASE ~(main.at < NumPlugins)
    BY <1>7, <2>2, <1>c DEF NextPlugin
  <2> QED BY <2>1, <2>2
<1>8. CASE Terminate
  <2>1. main.pc \in Enqueuing \cup {"idle"}
    BY <1>8, <1>0 DEF Terminate, ThreadInv, MainStates
  <2> QED BY <1>8, <1>0, <2>1 DEF Terminate, MainStates, Stopping
<1>9. CASE StopLogger
  BY <1>9, <1>0 DEF StopLogger, MainGoto, MainStates, Enqueuing, Stopping
<1>10. CASE HandlerReturns
  <2>1. main.cut \in Enqueuing \cup {"idle"}
    BY <1>10, <1>0 DEF HandlerReturns, ThreadInv, MainStates, Stopping
  <2> QED BY <1>10, <1>0, <2>1 DEF HandlerReturns, MainStates
<1>11. CASE Restart
  BY <1>11, <1>c DEF Restart
<1>12. CASE UNCHANGED main
  BY <1>12, <1>0
<1> QED BY <1>1, <1>2, <1>3, <1>4, <1>5, <1>6, <1>7, <1>8, <1>9, <1>10, <1>11, <1>12,
       MainFrame

\* A step leaves the closing threads well typed.
LEMMA CloserType ==
    ASSUME TypeOK, ThreadInv, PendingMirrorsQueue, [Next]_vars
    PROVE  closer' \in [Plugin -> CloserStates]
<1> DEFINE Goal == closer' \in [Plugin -> CloserStates]
<1>0. closer \in [Plugin -> CloserStates]
  BY DEF TypeOK
<1>1. CASE Terminate
  BY <1>1, <1>0 DEF Terminate, CloserStates
<1>2. ASSUME NEW p \in Plugin, PutSentinel(p) PROVE Goal
  BY <1>2, <1>0 DEF PutSentinel, CloserStates
<1>3. ASSUME NEW p \in Plugin, ClearPlugin(p) PROVE Goal
  BY <1>3, <1>0 DEF ClearPlugin, CloserStates
<1>4. ASSUME NEW p \in Plugin, CloserStore(p) PROVE Goal
  BY <1>4, <1>0 DEF CloserStore, Store, CloserStates
<1>5. CASE Restart
  BY <1>5, <1>0 DEF Restart, NewWorker, NewMain, NewWriter, CloserStates
<1>6. CASE UNCHANGED closer
  BY <1>6, <1>0
<1> QED BY <1>1, <1>2, <1>3, <1>4, <1>5, <1>6, CloserFrame

\* A step leaves the map well typed.
LEMMA StoredType ==
    ASSUME TypeOK, ThreadInv, PendingMirrorsQueue, [Next]_vars
    PROVE  stored' \in [Plugin -> Snapshots]
<1> DEFINE Goal == stored' \in [Plugin -> Snapshots]
<1>0. stored \in [Plugin -> Snapshots]
  BY DEF TypeOK
<1>a. main.shot \in Snapshots /\ \A p \in Plugin : worker[p].shot \in Snapshots
  BY DEF TypeOK, MainStates, WorkerStates
<1>b. \A p \in Plugin : closer[p].shot \in Snapshots
  BY EmptyType DEF TypeOK, CloserStates
<1>1. CASE MainStore
  BY <1>1, <1>0, <1>a, <1>b, EmptyType DEF MainStore, Store
<1>2. ASSUME NEW p \in Plugin, WorkerStore(p) PROVE Goal
  BY <1>2, <1>0, <1>a, <1>b, EmptyType DEF WorkerStore, Store, Reported
<1>3. ASSUME NEW p \in Plugin, CloserStore(p) PROVE Goal
  BY <1>3, <1>0, <1>a, <1>b, EmptyType DEF CloserStore, Store
<1>4. CASE Restart
  BY <1>4, <1>0, <1>a, <1>b, EmptyType DEF Restart, NewWorker, NewMain, NewWriter
<1>5. CASE UNCHANGED stored
  BY <1>5, <1>0
<1> QED BY <1>1, <1>2, <1>3, <1>4, <1>5, StoredFrame

\* A step leaves the flags well typed.
LEMMA FlagsType ==
    ASSUME TypeOK, [Next]_vars
    PROVE  dirty' \in BOOLEAN /\ stop' \in BOOLEAN /\ dispatched' \in 0 .. MaxDispatched
<1>1. stop' \in BOOLEAN
  BY StopFrame DEF TypeOK, StopLogger, Restart
<1>2. dispatched' \in 0 .. MaxDispatched
  <2>1. dispatched \in 0 .. MaxDispatched /\ MaxDispatched \in Nat
    BY QueueTableAssumption DEF TypeOK
  <2>2. CASE NextEvent
    BY <2>1, <2>2 DEF NextEvent
  <2>3. CASE Restart
    BY <2>1, <2>3 DEF Restart
  <2> QED BY <2>1, <2>2, <2>3, DispatchedFrame
<1>3. dirty' \in BOOLEAN
  BY DirtyFrame DEF TypeOK, Restart, Store, MainStore, WorkerStore, CloserStore,
     FlushSnapshot, DeleteFails, InsertFails, Failed
<1> QED BY <1>1, <1>2, <1>3

\* A step leaves the writer thread well typed.
LEMMA WriterType ==
    ASSUME TypeOK, ThreadInv, PendingMirrorsQueue, [Next]_vars
    PROVE  writer' \in WriterStates
<1> DEFINE Goal == writer' \in WriterStates
<1>0. writer \in WriterStates /\ NoRows \in Tables /\ Rows(stored) \in Tables
  BY RowsType DEF TypeOK, NoRows, Tables
<1>1. CASE Open
  BY <1>1, <1>0 DEF Open, Fault, WriterUnchanged, WriterStates, Deleting
<1>2. CASE FlushSnapshot
  <2>1. PICK pc \in Deleting : writer' = [writer EXCEPT !.rows = Rows(stored), !.pc = pc]
    BY <1>2 DEF FlushSnapshot, Deleting
  <2> QED BY <1>0, <2>1 DEF WriterStates
<1>3. CASE Delete
  <2>1. CASE writer.pc = "clear"
    BY <1>3, <2>1, <1>0 DEF Delete, WriterStates
  <2>2. CASE writer.pc = "delete"
    BY <1>3, <2>2, <1>0 DEF Delete, WriterStates, Inserting
  <2>3. CASE writer.pc = "lastDelete"
    BY <1>3, <2>3, <1>0 DEF Delete, WriterStates, Inserting
  <2> QED BY <1>3, <2>1, <2>2, <2>3 DEF Delete, Deleting
<1>4. CASE Insert
  BY <1>4, <1>0 DEF Insert, WriterUnchanged, WriterStates, Deleting
<1>5. CASE DeleteFails
  BY <1>5, <1>0 DEF DeleteFails, WriterUnchanged, Deleting, Failed, Fault, WriterStates,
      Deleting
<1>6. CASE InsertFails
  BY <1>6, <1>0, ZenonT(60) DEF InsertFails, WriterUnchanged, Failed, Fault, WriterStates, Deleting
<1>7. CASE LeaveLoop
  BY <1>7, <1>0 DEF LeaveLoop, WriterUnchanged, WriterStates, Deleting
<1>8. CASE Restart
  BY <1>8, <1>0 DEF Restart, NewWorker, NewMain, NewWriter, WriterStates, Deleting
<1>9. CASE UNCHANGED writer
  BY <1>9, <1>0
<1> QED BY <1>1, <1>2, <1>3, <1>4, <1>5, <1>6, <1>7, <1>8, <1>9, WriterFrame

\* A step leaves the table well typed.
LEMMA TableType ==
    ASSUME TypeOK, ThreadInv, PendingMirrorsQueue, [Next]_vars
    PROVE  table' \in Tables
<1> DEFINE Goal == table' \in Tables
<1>0. table \in Tables /\ NoRows \in Tables /\ writer.rows \in Tables
  BY DEF TypeOK, NoRows, Tables, WriterStates
<1>a. ASSUME NEW whole \in SUBSET Plugin, NEW last \in Plugin,
             NEW n \in 0 .. Len(writer.rows[last])
      PROVE  Inserted(writer.rows, whole, last, n) \in Tables
  <2>1. SubSeq(writer.rows[last], 1, n) \in Seq(EventId \X {"processing", "pending"})
    BY <1>0, Beginning DEF Tables
  <2> QED BY <1>0, <2>1 DEF Inserted, Tables
<1>1. CASE Delete
  BY <1>1, <1>0 DEF Delete, WriterUnchanged, Deleting, Inserting
<1>2. CASE Insert
  BY <1>2, <1>0 DEF Insert, WriterUnchanged
<1>3. CASE DeleteFails
  BY <1>3, <1>0 DEF DeleteFails, WriterUnchanged, Deleting, Failed, Fault
<1>4. CASE InsertFails
  BY <1>4, <1>a DEF InsertFails
<1>5. CASE UNCHANGED table
  BY <1>5, <1>0
<1> QED BY <1>1, <1>2, <1>3, <1>4, <1>5, TableFrame

\* A step leaves the bounds well typed.
LEMMA BoundsType ==
    ASSUME TypeOK, ThreadInv, PendingMirrorsQueue, [Next]_vars
    PROVE  bounds' \in [faults : 0 .. MaxFaults, restarts : 0 .. MaxRestarts]
<1> DEFINE Goal == bounds' \in [faults : 0 .. MaxFaults, restarts : 0 .. MaxRestarts]
<1>0. bounds \in [faults : 0 .. MaxFaults, restarts : 0 .. MaxRestarts]
      /\ MaxFaults \in Nat /\ MaxRestarts \in Nat
  BY QueueTableAssumption DEF TypeOK
<1>1. CASE HandlerReturns
  BY <1>1, <1>0 DEF HandlerReturns, Fault
<1>2. CASE Open
  BY <1>2, <1>0 DEF Open, Fault, WriterUnchanged
<1>3. CASE DeleteFails
  BY <1>3, <1>0 DEF DeleteFails, WriterUnchanged, Deleting, Failed, Fault
<1>4. CASE InsertFails
  BY <1>4, <1>0 DEF InsertFails, WriterUnchanged, Failed, Fault
<1>5. CASE Restart
  BY <1>5, <1>0 DEF Restart, NewWorker, NewMain, NewWriter
<1>6. CASE UNCHANGED bounds
  BY <1>6, <1>0
<1> QED BY <1>1, <1>2, <1>3, <1>4, <1>5, <1>6, BoundsFrame

\* Every step keeps the type invariant.
LEMMA Types ==
    ASSUME TypeOK, ThreadInv, PendingMirrorsQueue, [Next]_vars
    PROVE  TypeOK'
  BY QueueType, PendingType, CurrentType, WorkerType, MainType, CloserType, FlagsType,
     StoredType, WriterType, TableType, BoundsType DEF TypeOK

-----------------------------------------------------------------------------
(* The threads *)

\* The main thread after a step: its event, and where its handler returns to.
LEMMA MainThread ==
    ASSUME TypeOK, ThreadInv, [Next]_vars
    PROVE  /\ main'.pc \in Enqueuing \/ main'.cut \in Enqueuing => main'.event \in EventId
           /\ main'.pc \in Stopping <=> main'.cut # "none"
<1> DEFINE Goal == /\ main'.pc \in Enqueuing \/ main'.cut \in Enqueuing => main'.event \in EventId
                   /\ main'.pc \in Stopping <=> main'.cut # "none"
<1>0. main \in MainStates
  BY DEF TypeOK
<1>1. CASE NextEvent
  BY <1>1, <1>0 DEF NextEvent, ThreadInv, MainStates, Enqueuing, Stopping
<1>2. CASE AppendPending
  BY <1>2, <1>0 DEF AppendPending, MainGoto, ThreadInv, MainStates, Enqueuing, Stopping
<1>3. CASE Unlock
  BY <1>3, <1>0 DEF Unlock, MainGoto, After, ThreadInv, MainStates, Enqueuing, Stopping
<1>4. CASE PutEvent
  BY <1>4, <1>0 DEF PutEvent, MainGoto, ThreadInv, MainStates, Enqueuing, Stopping
<1>5. CASE Report
  BY <1>5, <1>0 DEF Report, MainGoto, ThreadInv, MainStates, Enqueuing, Stopping
<1>6. CASE MainStore
  BY <1>6, <1>0 DEF MainStore, Store, ThreadInv, MainStates, Enqueuing, Stopping
<1>7. CASE NextPlugin
  <2>1. main.cut = "none"
    BY <1>7, <1>0 DEF NextPlugin, ThreadInv, Stopping
  <2> QED BY <1>7, <2>1, <1>0 DEF NextPlugin, NewMain, ThreadInv, MainStates, Enqueuing,
         Stopping
<1>8. CASE Terminate
  BY <1>8, <1>0 DEF Terminate, ThreadInv, MainStates, Enqueuing, Stopping
<1>9. CASE StopLogger
  BY <1>9, <1>0 DEF StopLogger, MainGoto, ThreadInv, MainStates, Enqueuing, Stopping
<1>10. CASE HandlerReturns
  BY <1>10, <1>0 DEF HandlerReturns, Fault, ThreadInv, MainStates, Enqueuing, Stopping
<1>11. CASE Restart
  BY <1>11, <1>0 DEF Restart, NewMain, Enqueuing, Stopping
<1>12. CASE UNCHANGED <<main>>
  BY <1>12, <1>0 DEF ThreadInv
<1> QED BY <1>1, <1>2, <1>3, <1>4, <1>5, <1>6, <1>7, <1>8, <1>9, <1>10, <1>11, <1>12,
       MainFrame

\* The threads that shut plugins down, after a step: all off, all at work, or done.
LEMMA Shutdown ==
    ASSUME TypeOK, ThreadInv, [Next]_vars
    PROVE  /\ main'.pc \in Stopping => (stop' <=> main'.pc = "joinWriter")
           /\ stop' => \A p \in Plugin : closer'[p].pc = "done"
           /\ main'.pc \notin Stopping /\ ~stop' => \A p \in Plugin : closer'[p].pc = "off"
<1> DEFINE Goal == /\ main'.pc \in Stopping => (stop' <=> main'.pc = "joinWriter")
                   /\ stop' => \A q \in Plugin : closer'[q].pc = "done"
                   /\ main'.pc \notin Stopping /\ ~stop' => \A q \in Plugin : closer'[q].pc = "off"
<1>0. main \in MainStates /\ closer \in [Plugin -> CloserStates]
  BY DEF TypeOK
<1>1. CASE NextEvent
  BY <1>1, <1>0 DEF NextEvent, ThreadInv, MainStates, CloserStates, Enqueuing, Stopping
<1>2. CASE AppendPending
  BY <1>2, <1>0 DEF AppendPending, MainGoto, ThreadInv, MainStates, CloserStates,
      Enqueuing, Stopping
<1>3. CASE Unlock
  BY <1>3, <1>0 DEF Unlock, MainGoto, After, ThreadInv, MainStates, CloserStates,
      Enqueuing, Stopping
<1>4. CASE PutEvent
  BY <1>4, <1>0 DEF PutEvent, MainGoto, ThreadInv, MainStates, CloserStates, Enqueuing,
      Stopping
<1>5. CASE Report
  BY <1>5, <1>0 DEF Report, MainGoto, ThreadInv, MainStates, CloserStates, Enqueuing,
      Stopping
<1>6. CASE MainStore
  BY <1>6, <1>0 DEF MainStore, Store, ThreadInv, MainStates, CloserStates, Enqueuing,
      Stopping
<1>7. CASE NextPlugin
  BY <1>7, <1>0 DEF NextPlugin, NewMain, ThreadInv, MainStates, CloserStates, Enqueuing,
      Stopping
<1>8. CASE StopLogger
  BY <1>8, <1>0 DEF StopLogger, MainGoto, ThreadInv, MainStates, CloserStates,
      Enqueuing, Stopping
<1>9. CASE HandlerReturns
  BY <1>9, <1>0 DEF HandlerReturns, Fault, ThreadInv, MainStates, CloserStates,
      Enqueuing, Stopping
<1>10. CASE Terminate
  BY <1>10, <1>0 DEF Terminate, ThreadInv, MainStates, CloserStates, Enqueuing, Stopping
<1>11. CASE Restart
  BY <1>11, <1>0 DEF Restart, NewWorker, NewMain, NewWriter, ThreadInv, MainStates,
      CloserStates, Enqueuing, Stopping
<1>12. ASSUME NEW p \in Plugin, PutSentinel(p) PROVE Goal
  BY <1>12, <1>0 DEF PutSentinel, ThreadInv, MainStates, CloserStates, Enqueuing,
      Stopping
<1>13. ASSUME NEW p \in Plugin, ClearPlugin(p) PROVE Goal
  BY <1>13, <1>0 DEF ClearPlugin, ThreadInv, MainStates, CloserStates, Enqueuing,
      Stopping
<1>14. ASSUME NEW p \in Plugin, CloserStore(p) PROVE Goal
  BY <1>14, <1>0 DEF CloserStore, Store, ThreadInv, MainStates, CloserStates, Enqueuing,
      Stopping
<1>15. CASE UNCHANGED <<main, closer, stop>>
  BY <1>15, <1>0 DEF ThreadInv
<1> QED BY <1>1, <1>2, <1>3, <1>4, <1>5, <1>6, <1>7, <1>8, <1>9, <1>10, <1>11, <1>12,
       <1>13, <1>14, <1>15, MainFrame, CloserFrame, StopFrame

\* The queue and the worker of a plugin after a step: the sentinel stays the last.
LEMMA Sentinels ==
    ASSUME TypeOK, ThreadInv, NEW q \in Plugin, [Next]_vars
    PROVE  /\ worker'[q].pc \in {"take", "storeStart", "process"} => worker'[q].event \in EventId
           /\ closer'[q].pc \in {"off", "sentinel"} =>
                 worker'[q].pc # "done" /\ queue'[q] \in Seq(EventId)
           /\ closer'[q].pc = "join" =>
                 IF worker'[q].pc = "done" THEN queue'[q] = <<>>
                 ELSE /\ queue'[q] # <<>> /\ Last(queue'[q]) = StopSentinel
                      /\ Front(queue'[q]) \in Seq(EventId)
           /\ closer'[q].pc \in {"store", "done"} => worker'[q].pc = "done"
<1> DEFINE Goal == /\ worker'[q].pc \in {"take", "storeStart", "process"} => worker'[q].event \in EventId
                   /\ closer'[q].pc \in {"off", "sentinel"} =>
                         worker'[q].pc # "done" /\ queue'[q] \in Seq(EventId)
                   /\ closer'[q].pc = "join" =>
                         IF worker'[q].pc = "done" THEN queue'[q] = <<>>
                         ELSE /\ queue'[q] # <<>> /\ Last(queue'[q]) = StopSentinel
                              /\ Front(queue'[q]) \in Seq(EventId)
                   /\ closer'[q].pc \in {"store", "done"} => worker'[q].pc = "done"
<1>0. /\ main \in MainStates /\ closer \in [Plugin -> CloserStates]
      /\ worker \in [Plugin -> WorkerStates]
      /\ queue \in [Plugin -> Seq(EventId \cup {StopSentinel})]
      /\ EventId \cap {StopSentinel} = {}
  BY DEF TypeOK, EventId, StopSentinel
<1>a. ThreadInv
  OBVIOUS
<1>1. CASE PutEvent
  <2>1. main.pc = "put" /\ main.event \in EventId
    BY <1>1 DEF PutEvent, ThreadInv, Enqueuing
  <2>2. closer[q].pc \notin {"sentinel", "join"}
    BY <1>1, <2>1 DEF ThreadInv, Stopping
  <2>3. closer[q].pc = "off" => Append(queue[q], main.event) \in Seq(EventId)
    BY <2>1 DEF ThreadInv
  <2> QED BY <1>1, <1>0, <2>2, <2>3 DEF PutEvent, ThreadInv
<1>2. CASE Terminate
  BY <1>2, <1>0 DEF Terminate, ThreadInv, WorkerStates, CloserStates
<1>3. CASE Restart
  BY <1>3, <1>0 DEF Restart, NewWorker, NewMain, NewWriter, ThreadInv, WorkerStates,
      CloserStates
<1>4. ASSUME NEW p \in Plugin, Get(p) PROVE Goal
  <2>1. CASE p # q
    BY <1>4, <1>0, <2>1 DEF Get, ThreadInv
  <2>2. CASE p = q
    <3>1. /\ queue[q] # <<>> /\ worker[q].pc = "get"
          /\ queue' = [queue EXCEPT ![q] = Tail(queue[q])] /\ closer' = closer
          /\ worker'[q].pc = (IF Head(queue[q]) = StopSentinel THEN "done" ELSE "take")
          /\ worker'[q].event = Head(queue[q])
      <4>1. Get(q)
        BY <1>4, <2>2
      <4>2. /\ queue[q] # <<>> /\ worker[q].pc = "get"
            /\ queue' = [queue EXCEPT ![q] = Tail(queue[q])] /\ closer' = closer
        BY <4>1 DEF Get
      <4>3. PICK pc : /\ pc = IF Head(queue[q]) = StopSentinel THEN "done" ELSE "take"
                      /\ worker' = [worker EXCEPT ![q].pc = pc, ![q].event = Head(queue[q])]
        BY <4>1 DEF Get
      <4> QED BY <1>0, <4>2, <4>3 DEF WorkerStates
    <3>2. CASE closer[q].pc \in {"off", "sentinel"}
      <4>1. queue[q] \in Seq(EventId)
        BY <3>2 DEF ThreadInv
      <4>2. Head(queue[q]) \in EventId /\ Tail(queue[q]) \in Seq(EventId)
        BY <3>1, <4>1, HeadTailProperties
      <4>3. worker'[q].pc = "take" /\ queue'[q] = Tail(queue[q])
        BY <1>0, <3>1, <4>2
      <4> QED BY <3>1, <3>2, <4>2, <4>3
    <3>3. CASE closer[q].pc = "join"
      <4>1. Last(queue[q]) = StopSentinel /\ Front(queue[q]) \in Seq(EventId)
        BY <3>1, <3>3 DEF ThreadInv
      <4>a. queue[q] \in Seq(EventId \cup {StopSentinel})
        BY <1>0
      <4>2. Tail(queue[q]) = <<>> => Head(queue[q]) = StopSentinel
        BY <3>1, <4>1, <4>a, Ends
      <4>3. CASE Tail(queue[q]) = <<>>
        BY <1>0, <3>1, <3>3, <4>2, <4>3
      <4>4. CASE Tail(queue[q]) # <<>>
        <5>1. /\ Last(Tail(queue[q])) = StopSentinel
              /\ Front(queue[q]) = <<Head(queue[q])>> \o Front(Tail(queue[q]))
              /\ Tail(queue[q]) \in Seq(EventId \cup {StopSentinel})
              /\ Head(queue[q]) \in EventId \cup {StopSentinel}
          BY <3>1, <4>1, <4>a, <4>4, Ends
        <5>2. Front(Tail(queue[q])) \in Seq(EventId \cup {StopSentinel})
          BY <4>4, <5>1, Ends
        <5>3. Head(queue[q]) \in EventId /\ Front(Tail(queue[q])) \in Seq(EventId)
          BY <4>1, <5>1, <5>2, RestIsEvents
        <5> QED BY <1>0, <3>1, <3>3, <4>4, <5>1, <5>3
      <4> QED BY <4>3, <4>4
    <3> QED BY <1>0, <3>1, <3>2, <3>3 DEF ThreadInv, CloserStates
  <2> QED BY <2>1, <2>2
<1>5. ASSUME NEW p \in Plugin, Begin(p) PROVE Goal
  BY <1>5, <1>0 DEF Begin, ThreadInv, WorkerStates, CloserStates
<1>6. ASSUME NEW p \in Plugin, WorkerStore(p) PROVE Goal
  BY <1>6, <1>0 DEF WorkerStore, Store, Reported, ThreadInv, WorkerStates, CloserStates
<1>7. ASSUME NEW p \in Plugin, Finish(p) PROVE Goal
  BY <1>7, <1>0 DEF Finish, ThreadInv, WorkerStates, CloserStates
<1>8. ASSUME NEW p \in Plugin, PutSentinel(p) PROVE Goal
  <2>1. CASE p # q
    BY <1>8, <1>0, <2>1 DEF PutSentinel, ThreadInv
  <2>2. CASE p = q
    <3>1. queue[q] \in Seq(EventId) /\ worker[q].pc # "done"
      BY <1>8, <2>2 DEF PutSentinel, ThreadInv
    <3>2. /\ Append(queue[q], StopSentinel) # <<>>
          /\ Last(Append(queue[q], StopSentinel)) = StopSentinel
          /\ Front(Append(queue[q], StopSentinel)) = queue[q]
      <4>1. /\ queue[q] \in Seq(EventId \cup {StopSentinel})
            /\ StopSentinel \in EventId \cup {StopSentinel}
        BY <1>0
      <4> QED BY <4>1, AppendEnds, ZenonT(60)
    <3> QED BY <1>8, <1>0, <2>2, <3>1, <3>2 DEF PutSentinel, ThreadInv, CloserStates
  <2> QED BY <2>1, <2>2
<1>9. ASSUME NEW p \in Plugin, ClearPlugin(p) PROVE Goal
  BY <1>9, <1>0 DEF ClearPlugin, ThreadInv, WorkerStates, CloserStates
<1>10. ASSUME NEW p \in Plugin, CloserStore(p) PROVE Goal
  BY <1>10, <1>0 DEF CloserStore, Store, ThreadInv, WorkerStates, CloserStates
<1>11. CASE UNCHANGED <<worker, closer, queue>>
  BY <1>11, <1>0 DEF ThreadInv
<1> QED BY <1>1, <1>2, <1>3, <1>4, <1>5, <1>6, <1>7, <1>8, <1>9, <1>10, <1>11,
       WorkerFrame, CloserFrame, QueueFrame

\* Every step keeps the invariant of the threads.
LEMMA Threads ==
    ASSUME TypeOK, ThreadInv, [Next]_vars
    PROVE  ThreadInv'
  BY MainThread, Shutdown, Sentinels DEF ThreadInv

-----------------------------------------------------------------------------
(* Both records of a queue *)

\* Concatenations of three parts, as queues and lists grow and shrink.
LEMMA Listed ==
    ASSUME NEW a \in Seq(EventId), NEW b \in Seq(EventId), NEW e \in EventId
    PROVE  Append(a \o b \o <<>>, e) = a \o b \o <<e>>
<1>1. a \o b \in Seq(EventId)
  BY ConcatProperties
<1> QED BY <1>1, AppendEnds, ConcatEmptySeq

\* The event that was being put is in the queue.
LEMMA Queued ==
    ASSUME NEW a \in Seq(EventId), NEW b \in Seq(EventId), NEW e \in EventId
    PROVE  a \o b \o <<e>> = a \o Append(b, e) \o <<>>
<1>1. Append(b, e) = b \o <<e>> /\ Append(b, e) \in Seq(EventId) /\ <<e>> \in Seq(EventId)
  BY AppendEnds
<1>2. a \o Append(b, e) \in Seq(EventId)
  BY <1>1, ConcatProperties
<1> QED BY <1>1, <1>2, ConcatEmptySeq, ConcatAssociative

\* The event that was at the head of the queue is taken out, and begun.
LEMMA Moved ==
    ASSUME NEW b \in Seq(EventId), NEW c \in Seq(EventId), NEW e \in EventId
    PROVE  /\ <<>> \o (<<e>> \o b) \o c = <<e>> \o b \o c
           /\ Tail(<<e>> \o b \o c) = <<>> \o b \o c
<1>1. <<e>> \in Seq(EventId) /\ Len(<<e>>) = 1 /\ <<>> \in Seq(EventId)
  OBVIOUS
<1>2. b \o c \in Seq(EventId) /\ <<e>> \o b \in Seq(EventId)
  BY <1>1, ConcatProperties
<1>3. <<>> \o (<<e>> \o b) \o c = <<e>> \o b \o c
  BY <1>2, ConcatEmptySeq
<1>4. <<e>> \o b \o c = <<e>> \o (b \o c)
  BY <1>1, ConcatAssociative
<1>5. Tail(<<e>> \o (b \o c)) = b \o c
  BY <1>2
<1> QED BY <1>3, <1>4, <1>5, ConcatEmptySeq

\* The parts of a list of pending events hold events only.
LEMMA Parts ==
    ASSUME TypeOK, ThreadInv, NEW q \in Plugin
    PROVE  /\ TakenOut(q) \in Seq(EventId)
           /\ BeingPut(q) \in Seq(EventId)
           /\ closer[q].pc \notin {"store", "done"} => Waiting(queue[q]) \in Seq(EventId)
<1>1. TakenOut(q) \in Seq(EventId)
  <2>1. CASE worker[q].pc = "take"
    <3>1. worker[q].event \in EventId
      BY <2>1 DEF ThreadInv
    <3> QED BY <2>1, <3>1 DEF TakenOut
  <2> QED BY <2>1 DEF TakenOut
<1>2. BeingPut(q) \in Seq(EventId)
  <2>1. CASE At("appended") \/ At("put")
    <3>1. main.event \in EventId
      BY <2>1 DEF ThreadInv, At, Enqueuing
    <3> QED BY <3>1 DEF BeingPut
  <2> QED BY <2>1 DEF BeingPut
<1>3. ASSUME closer[q].pc \notin {"store", "done"}
      PROVE  Waiting(queue[q]) \in Seq(EventId)
  <2>1. closer[q].pc \in {"off", "sentinel", "join"}
    BY <1>3 DEF TypeOK, CloserStates
  <2>2. CASE queue[q] \in Seq(EventId)
    BY <2>2, PlainQueue
  <2>3. CASE queue[q] = <<>>
    BY <2>3, <2>2
  <2>4. CASE Last(queue[q]) = StopSentinel /\ queue[q] # <<>> /\ Front(queue[q]) \in Seq(EventId)
    BY <2>4 DEF Waiting
  <2> QED BY <2>1, <2>2, <2>3, <2>4 DEF ThreadInv
<1> QED BY <1>1, <1>2, <1>3

\* While the main thread is neither stopping nor behind a stop, nothing is shut down.
LEMMA NotStopping ==
    ASSUME ThreadInv, NEW q \in Plugin, main.pc \notin Stopping,
           closer[q].pc \notin {"store", "done"}
    PROVE  /\ main.cut = "none" /\ closer[q].pc = "off"
           /\ queue[q] \in Seq(EventId) /\ Waiting(queue[q]) = queue[q]
<1>1. ~stop
  BY DEF ThreadInv
<1>2. main.cut = "none" /\ closer[q].pc = "off"
  BY <1>1 DEF ThreadInv
<1>3. queue[q] \in Seq(EventId)
  BY <1>2 DEF ThreadInv
<1> QED BY <1>2, <1>3, PlainQueue

\* The event being put changes only when it is listed or put.
LEMMA BeingPutFrame ==
    ASSUME TypeOK, ThreadInv, [Next]_vars, NEW q \in Plugin
    PROVE  BeingPut(q)' = BeingPut(q) \/ AppendPending \/ PutEvent \/ Restart
<1>0. main \in MainStates
  BY DEF TypeOK
<1> DEFINE Goal == BeingPut(q)' = BeingPut(q)
<1>1. CASE NextEvent
  BY <1>1, <1>0 DEF NextEvent, BeingPut, At, ThreadInv, Enqueuing, Stopping, MainStates
<1>2. CASE Unlock
  BY <1>2, <1>0 DEF Unlock, MainGoto, After, BeingPut, At, ThreadInv, Enqueuing,
      Stopping, MainStates
<1>3. CASE Report
  BY <1>3, <1>0 DEF Report, MainGoto, BeingPut, At, ThreadInv, Enqueuing, Stopping,
      MainStates
<1>4. CASE MainStore
  BY <1>4, <1>0 DEF MainStore, Store, BeingPut, At, ThreadInv, Enqueuing, Stopping,
      MainStates
<1>5. CASE NextPlugin
  BY <1>5, <1>0 DEF NextPlugin, NewMain, BeingPut, At, ThreadInv, Enqueuing, Stopping,
      MainStates
<1>6. CASE Terminate
  BY <1>6, <1>0 DEF Terminate, BeingPut, At, ThreadInv, Enqueuing, Stopping, MainStates
<1>7. CASE StopLogger
  BY <1>7, <1>0 DEF StopLogger, MainGoto, BeingPut, At, ThreadInv, Enqueuing, Stopping,
      MainStates
<1>8. CASE HandlerReturns
  BY <1>8, <1>0 DEF HandlerReturns, Fault, BeingPut, At, ThreadInv, Enqueuing, Stopping,
      MainStates
<1>9. CASE UNCHANGED main
  BY <1>9 DEF BeingPut, At
<1> QED BY <1>1, <1>2, <1>3, <1>4, <1>5, <1>6, <1>7, <1>8, <1>9, MainFrame

\* The event taken out changes only when it is taken out or begun.
LEMMA TakenOutFrame ==
    ASSUME TypeOK, [Next]_vars, NEW q \in Plugin
    PROVE  TakenOut(q)' = TakenOut(q) \/ Get(q) \/ Begin(q) \/ Restart
<1>0. worker \in [Plugin -> WorkerStates]
  BY DEF TypeOK
<1> DEFINE Goal == TakenOut(q)' = TakenOut(q) \/ Get(q) \/ Begin(q)
<1>1. ASSUME NEW p \in Plugin, Get(p) PROVE Goal
  BY <1>1, <1>0 DEF Get, TakenOut, WorkerStates
<1>2. ASSUME NEW p \in Plugin, Begin(p) PROVE Goal
  BY <1>2, <1>0 DEF Begin, TakenOut, WorkerStates
<1>3. ASSUME NEW p \in Plugin, WorkerStore(p) PROVE Goal
  BY <1>3, <1>0 DEF WorkerStore, Store, Reported, TakenOut, WorkerStates
<1>4. ASSUME NEW p \in Plugin, Finish(p) PROVE Goal
  BY <1>4, <1>0 DEF Finish, TakenOut, WorkerStates
<1>5. CASE UNCHANGED worker
  BY <1>5 DEF TakenOut
<1> QED BY <1>1, <1>2, <1>3, <1>4, <1>5, WorkerFrame

\* The two records of a queue agree after a step: each of the steps that change one of
\* them moves an event from one part of the list to the next.
LEMMA Mirror ==
    ASSUME TypeOK, ThreadInv, PendingMirrorsQueue, [Next]_vars, NEW q \in Plugin,
           closer'[q].pc \notin {"store", "done"}
    PROVE  pending'[q] = TakenOut(q)' \o Waiting(queue'[q]) \o BeingPut(q)'
<1> DEFINE Goal == pending'[q] = TakenOut(q)' \o Waiting(queue'[q]) \o BeingPut(q)'
<1>0. /\ main \in MainStates /\ closer \in [Plugin -> CloserStates]
      /\ worker \in [Plugin -> WorkerStates]
      /\ queue \in [Plugin -> Seq(EventId \cup {StopSentinel})]
      /\ pending \in [Plugin -> Seq(EventId)]
  BY DEF TypeOK
<1>1. CASE Restart
  BY <1>1 DEF Restart, TakenOut, Waiting, BeingPut, At, NewWorker, NewMain
<1>2. closer[q].pc \notin {"store", "done"} \/ Restart
  BY <1>0, CloserFrame, ZenonT(60) DEF Terminate, PutSentinel, ClearPlugin, CloserStore,
      CloserStates
<1> SUFFICES ASSUME closer[q].pc \notin {"store", "done"} PROVE Goal
  BY <1>1, <1>2
<1>3. /\ TakenOut(q) \in Seq(EventId) /\ BeingPut(q) \in Seq(EventId)
      /\ Waiting(queue[q]) \in Seq(EventId)
      /\ pending[q] = TakenOut(q) \o Waiting(queue[q]) \o BeingPut(q)
  BY Parts DEF PendingMirrorsQueue
<1>4. ASSUME AppendPending PROVE Goal
  <2>1. main.pc = "append" /\ main.cut = "none" /\ main.event \in EventId
    BY <1>4, NotStopping DEF AppendPending, ThreadInv, Stopping, Enqueuing
  <2>2. TakenOut(q)' = TakenOut(q) /\ queue'[q] = queue[q] /\ BeingPut(q) = <<>>
    BY <1>4, <2>1 DEF AppendPending, TakenOut, BeingPut, At
  <2>3. CASE main.at = q
    <3>1. pending'[q] = Append(pending[q], main.event) /\ BeingPut(q)' = <<main.event>>
      BY <1>0, <1>4, <2>1, <2>3 DEF AppendPending, BeingPut, At, MainGoto, MainStates
    <3>2. Append(TakenOut(q) \o Waiting(queue[q]) \o <<>>, main.event) =
              TakenOut(q) \o Waiting(queue[q]) \o <<main.event>>
      BY <1>3, <2>1, Listed
    <3> QED BY <1>3, <2>2, <3>1, <3>2
  <2>4. CASE main.at # q
    <3>1. pending'[q] = pending[q] /\ BeingPut(q)' = <<>>
      BY <1>0, <1>4, <2>1, <2>4 DEF AppendPending, BeingPut, At, MainGoto, MainStates
    <3> QED BY <1>3, <2>2, <3>1
  <2> QED BY <2>3, <2>4
<1>5. ASSUME PutEvent PROVE Goal
  <2>1. /\ main.pc = "put" /\ main.cut = "none" /\ main.event \in EventId
        /\ queue[q] \in Seq(EventId) /\ Waiting(queue[q]) = queue[q]
    BY <1>5, NotStopping DEF PutEvent, ThreadInv, Stopping, Enqueuing
  <2>2. TakenOut(q)' = TakenOut(q) /\ pending'[q] = pending[q] /\ BeingPut(q)' = <<>>
    BY <1>0, <1>5, <2>1 DEF PutEvent, TakenOut, BeingPut, At, MainGoto, MainStates
  <2>3. CASE main.at = q
    <3>1. queue'[q] = Append(queue[q], main.event) /\ BeingPut(q) = <<main.event>>
      BY <1>0, <1>5, <2>1, <2>3 DEF PutEvent, BeingPut, At
    <3>2. Waiting(queue'[q]) = Append(queue[q], main.event)
      BY <2>1, <3>1, PlainQueue, AppendEnds
    <3>3. TakenOut(q) \o queue[q] \o <<main.event>> =
              TakenOut(q) \o Append(queue[q], main.event) \o <<>>
      BY <1>3, <2>1, Queued
    <3> QED BY <1>3, <2>1, <2>2, <3>1, <3>2, <3>3
  <2>4. CASE main.at # q
    <3>1. queue'[q] = queue[q] /\ BeingPut(q) = <<>>
      BY <1>0, <1>5, <2>1, <2>4 DEF PutEvent, BeingPut, At
    <3> QED BY <1>3, <2>1, <2>2, <3>1
  <2> QED BY <2>3, <2>4
<1>6. ASSUME Get(q) PROVE Goal
  <2>1. /\ worker[q].pc = "get" /\ queue[q] # <<>> /\ queue'[q] = Tail(queue[q])
        /\ pending'[q] = pending[q] /\ BeingPut(q)' = BeingPut(q) /\ TakenOut(q) = <<>>
    BY <1>0, <1>6 DEF Get, TakenOut, BeingPut, At
  <2>2. Head(queue[q]) \in EventId \cup {StopSentinel} /\ StopSentinel \notin EventId
    BY <1>0, <2>1, Ends DEF StopSentinel, EventId
  <2>3. \/ queue[q] \in Seq(EventId)
        \/ Last(queue[q]) = StopSentinel /\ Front(queue[q]) \in Seq(EventId)
    BY <1>0, <2>1 DEF ThreadInv, CloserStates
  <2>4. CASE Head(queue[q]) = StopSentinel
    <3>1. TakenOut(q)' = <<>>
      <4>1. PICK w \in {"done"} : worker' = [worker EXCEPT ![q].pc = w, ![q].event = Head(queue[q])]
        BY <1>6, <2>4 DEF Get
      <4> QED BY <1>0, <4>1 DEF TakenOut, WorkerStates
    <3> QED BY <1>0, <1>3, <2>1, <2>3, <2>4, <3>1, WaitingTail
  <2>5. CASE Head(queue[q]) \in EventId
    <3>1. TakenOut(q)' = <<Head(queue[q])>>
      <4>1. PICK w \in {"take"} : worker' = [worker EXCEPT ![q].pc = w, ![q].event = Head(queue[q])]
        BY <1>6, <2>2, <2>5 DEF Get
      <4> QED BY <1>0, <4>1 DEF TakenOut, WorkerStates
    <3>2. Waiting(queue[q]) = <<Head(queue[q])>> \o Waiting(queue'[q])
      BY <1>0, <2>1, <2>3, <2>5, WaitingTail
    <3>3. Waiting(queue'[q]) \in Seq(EventId)
      BY <1>0, <2>1, <2>3, WaitingTail
    <3> QED BY <1>3, <2>1, <2>5, <3>1, <3>2, <3>3, Moved
  <2> QED BY <2>2, <2>4, <2>5
<1>7. ASSUME Begin(q) PROVE Goal
  <2>1. /\ worker[q].pc = "take" /\ worker[q].event \in EventId
        /\ pending'[q] = Tail(pending[q]) /\ queue'[q] = queue[q]
        /\ BeingPut(q)' = BeingPut(q) /\ TakenOut(q) = <<worker[q].event>>
    BY <1>0, <1>7, TakesFirst DEF Begin, TakenOut, BeingPut, At, ThreadInv
  <2>2. TakenOut(q)' = <<>>
    BY <1>0, <1>7 DEF Begin, TakenOut, WorkerStates
  <2>3. Tail(<<worker[q].event>> \o Waiting(queue[q]) \o BeingPut(q)) =
            <<>> \o Waiting(queue[q]) \o BeingPut(q)
    BY <1>3, <2>1, Moved
  <2> QED BY <1>3, <2>1, <2>2, <2>3
<1>8. ASSUME TakenOut(q)' = TakenOut(q), BeingPut(q)' = BeingPut(q),
             ~AppendPending, ~(\E p \in Plugin : Get(p) /\ p = q),
             ~(\E p \in Plugin : Begin(p) /\ p = q), ~PutEvent, ~Restart
      PROVE  Goal
  <2>1. pending'[q] = pending[q]
    <3>1. ASSUME NEW p \in Plugin, ClearPlugin(p) PROVE p # q
      BY <1>0, <3>1 DEF ClearPlugin, CloserStates
    <3>2. ASSUME NEW p \in Plugin, ClearPlugin(p) PROVE pending'[q] = pending[q]
      BY <1>0, <3>1, <3>2 DEF ClearPlugin
    <3>3. ASSUME NEW p \in Plugin, Begin(p) PROVE pending'[q] = pending[q]
      BY <1>0, <1>8, <3>3 DEF Begin
    <3> QED BY <1>8, <3>2, <3>3, PendingFrame
  <2>2. Waiting(queue'[q]) = Waiting(queue[q])
    <3>1. CASE PutSentinel(q)
      <4>1. queue[q] \in Seq(EventId) /\ queue'[q] = Append(queue[q], StopSentinel)
        BY <1>0, <3>1 DEF PutSentinel, ThreadInv
      <4>2. /\ Append(queue[q], StopSentinel) # <<>>
            /\ Last(Append(queue[q], StopSentinel)) = StopSentinel
            /\ Front(Append(queue[q], StopSentinel)) = queue[q]
        <5>1. /\ queue[q] \in Seq(EventId \cup {StopSentinel})
              /\ StopSentinel \in EventId \cup {StopSentinel}
          BY <1>0
        <5> QED BY <5>1, AppendEnds, ZenonT(60)
      <4> QED BY <4>1, <4>2, PlainQueue DEF Waiting
    <3>2. CASE ~PutSentinel(q)
      <4>1. queue'[q] = queue[q]
        BY <1>0, <1>8, <3>2, QueueFrame DEF Get, PutSentinel
      <4> QED BY <4>1
    <3> QED BY <3>1, <3>2
  <2> QED BY <1>3, <1>8, <2>1, <2>2
<1> QED BY <1>1, <1>4, <1>5, <1>6, <1>7, <1>8, BeingPutFrame, TakenOutFrame

-----------------------------------------------------------------------------
(* Snapshots cover what they were taken of *)

\* A snapshot covers every event it was taken of.
LEMMA ShotCovers ==
    ASSUME NEW pend \in Seq(EventId), NEW cur \in EventId \cup {NoEvent}
    PROVE  /\ \A i \in DOMAIN pend : Covers(Snapshot(pend, cur), pend[i])
           /\ Covers(Snapshot(pend, cur), cur)
<1> DEFINE n == Min({Len(pend), PendingLimit})
<1>1. n \in 0 .. Len(pend) /\ Len(pend) \in Nat
  BY LeastOfTwo, LenProperties
<1>2. Snapshot(pend, cur) = [current |-> cur, count |-> Len(pend), listed |-> SubSeq(pend, 1, n)]
  BY DEF Snapshot
<1> HIDE DEF n
<1>3. /\ SubSeq(pend, 1, n) \in Seq(EventId) /\ Len(SubSeq(pend, 1, n)) = n
      /\ \A i \in 1 .. n : SubSeq(pend, 1, n)[i] = pend[i]
  BY <1>1, Beginning
<1>4. DOMAIN SubSeq(pend, 1, n) = 1 .. n /\ DOMAIN pend = 1 .. Len(pend)
  BY <1>1, <1>3, LenProperties
<1> DEFINE shot == Snapshot(pend, cur)
<1>5. /\ shot.current = cur /\ shot.count = Len(pend)
      /\ shot.listed = SubSeq(pend, 1, n)
  <2> DEFINE listed == SubSeq(pend, 1, n) count == Len(pend)
  <2>1. Snapshot(pend, cur) = [current |-> cur, count |-> count, listed |-> listed]
    BY <1>2
  <2> HIDE DEF listed, count
  <2>2. shot.current = cur /\ shot.count = count /\ shot.listed = listed
    BY <2>1
  <2> QED BY <2>2 DEF listed, count
<1>6. /\ DOMAIN shot.listed = 1 .. n /\ Len(shot.listed) = n
      /\ \A i \in 1 .. n : shot.listed[i] = pend[i]
  BY <1>3, <1>4, <1>5
<1> HIDE DEF shot
<1>7. ASSUME NEW i \in DOMAIN pend PROVE Covers(shot, pend[i])
  <2>1. CASE i \in 1 .. n
    BY <1>6, <2>1 DEF Covers
  <2>2. CASE i \notin 1 .. n
    <3>1. shot.count > Len(shot.listed)
      BY <1>1, <1>4, <1>5, <1>6, <2>2
    <3> QED BY <3>1 DEF Covers
  <2> QED BY <2>1, <2>2
<1>8. Covers(shot, cur)
  BY <1>5 DEF Covers
<1> QED BY <1>7, <1>8 DEF shot

\* The snapshot of the main thread.
LEMMA MainShot ==
    ASSUME TypeOK, ThreadInv, PendingMirrorsQueue, ListedInv, [Next]_vars,
           main'.pc \in {"snapped", "store"} \/ main'.cut \in {"snapped", "store"}
    PROVE  /\ \A i \in DOMAIN pending'[main'.at] : Covers(main'.shot, pending'[main'.at][i])
           /\ current'[main'.at] # NoEvent => Covers(main'.shot, current'[main'.at])
<1> DEFINE Goal == /\ \A i \in DOMAIN pending'[main'.at] : Covers(main'.shot, pending'[main'.at][i])
                   /\ current'[main'.at] # NoEvent => Covers(main'.shot, current'[main'.at])
<1>0. /\ main \in MainStates /\ pending \in [Plugin -> Seq(EventId)]
      /\ current \in [Plugin -> EventId \cup {NoEvent}]
  BY DEF TypeOK
<1>1. CASE Report
  <2>1. CASE main'.pc = "snapped"
    <3>1. /\ main' = [main EXCEPT !.pc = "snapped",
                                  !.shot = Snapshot(pending[main.at], current[main.at])]
          /\ pending' = pending /\ current' = current
      BY <1>0, <1>1, <2>1 DEF Report, MainGoto, MainStates
    <3>2. /\ main'.at = main.at /\ main.at \in Plugin
          /\ main'.shot = Snapshot(pending[main.at], current[main.at])
      BY <1>0, <3>1 DEF MainStates
    <3> QED BY <1>0, <3>1, <3>2, ShotCovers
  <2>2. CASE main'.pc # "snapped"
    BY <1>0, <1>1, <2>2 DEF Report, MainGoto, MainStates, ThreadInv, Stopping
  <2> QED BY <2>1, <2>2
<1>2. CASE /\ At("snapped") \/ At("store") 
           /\ main'.at = main.at /\ main'.shot = main.shot
  <2>1. /\ \A i \in DOMAIN pending[main.at] : Covers(main.shot, pending[main.at][i])
        /\ current[main.at] # NoEvent => Covers(main.shot, current[main.at])
        /\ main.at \in Plugin
    BY <1>0, <1>2 DEF ListedInv, MainStates
  <2>2. ~AppendPending
    BY <1>2 DEF AppendPending, At, ThreadInv, Stopping
  <2>3. CASE pending'[main.at] = pending[main.at] /\ current'[main.at] = current[main.at]
    BY <1>2, <2>1, <2>3
  <2>4. CASE Begin(main.at)
    <3>1. /\ pending'[main.at] = Tail(pending[main.at])
          /\ current'[main.at] = pending[main.at][1]
          /\ pending[main.at] # <<>>
      BY <1>0, <2>1, <2>4, TakesFirst DEF Begin
    <3>2. /\ DOMAIN pending[main.at] = 1 .. Len(pending[main.at])
          /\ Len(pending[main.at]) \in Nat \ {0}
          /\ DOMAIN Tail(pending[main.at]) = 1 .. Len(pending[main.at]) - 1
          /\ \A i \in 1 .. Len(pending[main.at]) - 1 :
                 Tail(pending[main.at])[i] = pending[main.at][i + 1]
      BY <1>0, <2>1, <3>1, HeadTailProperties, LenProperties, EmptySeq
    <3>3. 1 \in DOMAIN pending[main.at]
          /\ \A i \in 1 .. Len(pending[main.at]) - 1 : i + 1 \in DOMAIN pending[main.at]
      BY <3>2
    <3> QED BY <1>2, <2>1, <3>1, <3>2, <3>3
  <2>5. CASE ClearPlugin(main.at)
    BY <1>0, <1>2, <2>1, <2>5 DEF ClearPlugin
  <2>6. CASE Finish(main.at)
    BY <1>0, <1>2, <2>1, <2>6 DEF Finish
  <2>7. CASE Restart
    BY <2>7 DEF Restart, NewMain
  <2>8. \/ pending'[main.at] = pending[main.at] \/ Begin(main.at) \/ ClearPlugin(main.at)
        \/ Restart
    <3>1. ASSUME NEW p \in Plugin, ClearPlugin(p), p # main.at
          PROVE  pending'[main.at] = pending[main.at]
      BY <1>0, <3>1 DEF ClearPlugin
    <3>2. ASSUME NEW p \in Plugin, Begin(p), p # main.at
          PROVE  pending'[main.at] = pending[main.at]
      BY <1>0, <3>2 DEF Begin
    <3> QED BY <2>2, <3>1, <3>2, PendingFrame
  <2>9. \/ current'[main.at] = current[main.at] \/ Begin(main.at) \/ ClearPlugin(main.at)
        \/ Finish(main.at) \/ Restart
    <3>1. ASSUME NEW p \in Plugin, ClearPlugin(p), p # main.at
          PROVE  current'[main.at] = current[main.at]
      BY <1>0, <3>1 DEF ClearPlugin
    <3>2. ASSUME NEW p \in Plugin, Begin(p), p # main.at
          PROVE  current'[main.at] = current[main.at]
      BY <1>0, <3>2 DEF Begin
    <3>3. ASSUME NEW p \in Plugin, Finish(p), p # main.at
          PROVE  current'[main.at] = current[main.at]
      BY <1>0, <3>3 DEF Finish
    <3> QED BY <3>1, <3>2, <3>3, CurrentFrame
  <2> QED BY <2>3, <2>4, <2>5, <2>6, <2>7, <2>8, <2>9
<1>3. \/ Report
      \/ /\ At("snapped") \/ At("store")
         /\ main'.at = main.at /\ main'.shot = main.shot
  <2> DEFINE Goal2 == /\ At("snapped") \/ At("store")
                      /\ main'.at = main.at /\ main'.shot = main.shot
  <2>1. CASE NextEvent
    BY <2>1, <1>0 DEF NextEvent, At, ThreadInv, Enqueuing, Stopping, MainStates
  <2>2. CASE AppendPending
    BY <2>2, <1>0 DEF AppendPending, MainGoto, At, ThreadInv, Enqueuing, Stopping,
        MainStates
  <2>3. CASE Unlock
    BY <2>3, <1>0 DEF Unlock, MainGoto, After, At, ThreadInv, Enqueuing, Stopping,
        MainStates
  <2>4. CASE PutEvent
    BY <2>4, <1>0 DEF PutEvent, MainGoto, At, ThreadInv, Enqueuing, Stopping, MainStates
  <2>5. CASE MainStore
    BY <2>5, <1>0 DEF MainStore, Store, At, ThreadInv, Enqueuing, Stopping, MainStates
  <2>6. CASE NextPlugin
    BY <2>6, <1>0 DEF NextPlugin, NewMain, At, ThreadInv, Enqueuing, Stopping,
        MainStates
  <2>7. CASE Terminate
    BY <2>7, <1>0 DEF Terminate, At, ThreadInv, Enqueuing, Stopping, MainStates
  <2>8. CASE StopLogger
    BY <2>8, <1>0 DEF StopLogger, MainGoto, At, ThreadInv, Enqueuing, Stopping,
        MainStates
  <2>9. CASE HandlerReturns
    BY <2>9, <1>0 DEF HandlerReturns, Fault, At, ThreadInv, Enqueuing, Stopping,
        MainStates
  <2>10. CASE Restart
    BY <2>10, <1>0 DEF Restart, NewWorker, NewMain, NewWriter, At, ThreadInv, Enqueuing,
        Stopping, MainStates
  <2>11. CASE UNCHANGED main
    BY <2>11 DEF At
  <2> QED BY <2>1, <2>2, <2>3, <2>4, <2>5, <2>6, <2>7, <2>8, <2>9, <2>10, <2>11,
         MainFrame
<1> QED BY <1>1, <1>2, <1>3

\* What a worker has begun, and the map, after a step: a store by the main thread of an
\* older snapshot still covers it.
LEMMA Working ==
    ASSUME TypeOK, ThreadInv, PendingMirrorsQueue, ListedInv, WorkIsListed, [Next]_vars,
           NEW q \in Plugin
    PROVE  /\ worker'[q].pc \in {"storeStart", "process"} => current'[q] = worker'[q].event
           /\ worker'[q].pc = "storeStart" => Covers(worker'[q].shot, worker'[q].event)
           /\ worker'[q].pc = "process" => Covers(stored'[q], worker'[q].event)
<1> DEFINE Goal == /\ worker'[q].pc \in {"storeStart", "process"} => current'[q] = worker'[q].event
                   /\ worker'[q].pc = "storeStart" => Covers(worker'[q].shot, worker'[q].event)
                   /\ worker'[q].pc = "process" => Covers(stored'[q], worker'[q].event)
<1>0. /\ main \in MainStates /\ worker \in [Plugin -> WorkerStates]
      /\ current \in [Plugin -> EventId \cup {NoEvent}]
      /\ stored \in [Plugin -> Snapshots] /\ closer \in [Plugin -> CloserStates]
  BY DEF TypeOK
<1>a. /\ worker[q].pc \in {"storeStart", "process"} =>
            current[q] = worker[q].event /\ worker[q].event \in EventId
      /\ worker[q].pc = "storeStart" => Covers(worker[q].shot, worker[q].event)
      /\ worker[q].pc = "process" => Covers(stored[q], worker[q].event)
  BY DEF ListedInv, WorkIsListed, ThreadInv, Covers
<1>1. CASE MainStore
  <2>1. main.shot = stored'[main.at] /\ worker' = worker /\ current' = current
        /\ \A p \in Plugin : p # main.at => stored'[p] = stored[p]
    BY <1>1, <1>0 DEF MainStore, Store, MainStates
  <2>2. current[main.at] # NoEvent => Covers(main.shot, current[main.at])
    BY <1>1 DEF MainStore, ListedInv, At
  <2>3. \A e \in EventId : e # NoEvent
    BY DEF EventId, NoEvent
  <2> QED BY <1>0, <1>a, <2>1, <2>2, <2>3
<1>2. CASE Restart
  BY <1>2, <1>0, <1>a DEF Restart, NewWorker, NewMain, NewWriter, WorkerStates
<1>3. ASSUME NEW p \in Plugin, Get(p) PROVE Goal
  BY <1>3, <1>0, <1>a DEF Get, WorkerStates
<1>4. ASSUME NEW p \in Plugin, Begin(p) PROVE Goal
  <2>1. CASE p # q
    BY <1>4, <1>0, <1>a, <2>1 DEF Begin
  <2>2. CASE p = q
    <3>1. /\ worker'[q].pc = "storeStart" /\ worker'[q].event = worker[q].event
          /\ worker'[q].shot.current = worker[q].event /\ current'[q] = worker[q].event
      BY <1>4, <1>0, <2>2 DEF Begin, WorkerStates, Snapshot
    <3> QED BY <3>1 DEF Covers
  <2> QED BY <2>1, <2>2
<1>5. ASSUME NEW p \in Plugin, WorkerStore(p) PROVE Goal
  BY <1>5, <1>0, <1>a DEF WorkerStore, Store, Reported, WorkerStates
<1>6. ASSUME NEW p \in Plugin, Finish(p) PROVE Goal
  BY <1>6, <1>0, <1>a DEF Finish, WorkerStates
<1>7. ASSUME NEW p \in Plugin, ClearPlugin(p) PROVE Goal
  <2>1. worker' = worker /\ stored' = stored /\ worker[p].pc = "done"
        /\ (p # q => current'[q] = current[q])
    BY <1>7, <1>0 DEF ClearPlugin
  <2> QED BY <1>a, <2>1
<1>8. ASSUME NEW p \in Plugin, CloserStore(p) PROVE Goal
  <2>1. worker' = worker /\ current' = current /\ worker[p].pc = "done"
        /\ (p # q => stored'[q] = stored[q])
    BY <1>8, <1>0 DEF CloserStore, Store, ThreadInv
  <2> QED BY <1>a, <2>1
<1>9. CASE UNCHANGED <<worker, current, stored>>
  BY <1>9, <1>a
<1> QED BY <1>1, <1>2, <1>3, <1>4, <1>5, <1>6, <1>7, <1>8, <1>9, WorkerFrame,
       CurrentFrame, StoredFrame

\* Every step keeps the work in progress listed.
LEMMA Listings ==
    ASSUME TypeOK, ThreadInv, PendingMirrorsQueue, ListedInv, WorkIsListed, [Next]_vars
    PROVE  ListedInv' /\ WorkIsListed'
<1>1. \A q \in Plugin :
        /\ worker'[q].pc \in {"storeStart", "process"} => current'[q] = worker'[q].event
        /\ worker'[q].pc = "storeStart" => Covers(worker'[q].shot, worker'[q].event)
        /\ worker'[q].pc = "process" => Covers(stored'[q], worker'[q].event)
  BY Working
<1>2. WorkIsListed'
  BY <1>1 DEF WorkIsListed, Covers
<1>3. main'.pc \in {"snapped", "store"} \/ main'.cut \in {"snapped", "store"} =>
         /\ \A i \in DOMAIN pending'[main'.at] : Covers(main'.shot, pending'[main'.at][i])
         /\ current'[main'.at] # NoEvent => Covers(main'.shot, current'[main'.at])
  BY MainShot
<1>4. ListedInv'
  BY <1>1, <1>3 DEF ListedInv, At, Covers
<1> QED BY <1>2, <1>4

-----------------------------------------------------------------------------
(* The table and the map *)

\* A map of empty snapshots gives no row.
LEMMA EmptyRows ==
    /\ KeysUnique(NoRows)
    /\ stored = [p \in Plugin |-> Empty] => Rows(stored) = NoRows
<1>1. KeysUnique(NoRows)
  <2>1. \A p \in Plugin : NoRows[p] = <<>>
    BY DEF NoRows
  <2>2. DOMAIN <<>> = {}
    OBVIOUS
  <2> QED BY <2>1, <2>2 DEF KeysUnique
<1>2. ASSUME stored = [p \in Plugin |-> Empty] PROVE Rows(stored) = NoRows
  <2>1. \A p \in Plugin : RowsOf(stored[p]) = <<>>
    BY <1>2, EmptyType
  <2>2. Rows(stored) = [p \in Plugin |-> RowsOf(stored[p])]
    BY DEF Rows
  <2> QED BY <2>1, <2>2 DEF NoRows
<1> QED BY <1>1, <1>2

\* The rows that the writer works with, or has written, are the map's as long as
\* the flag is clear: a store sets it, and so does a write that fails.
LEMMA TableFollows ==
    ASSUME TypeOK, TableInv, CleanTableIsMap, [Next]_vars
    PROVE  TableInv' /\ CleanTableIsMap'
<1> DEFINE Goal == TableInv' /\ CleanTableIsMap'
<1>0. writer \in WriterStates /\ dirty \in BOOLEAN
  BY DEF TypeOK
<1>1. CASE MainStore
  BY <1>1 DEF MainStore, Store, TableInv, CleanTableIsMap
<1>2. ASSUME NEW p \in Plugin, WorkerStore(p) PROVE Goal
  BY <1>2 DEF WorkerStore, Store, TableInv, CleanTableIsMap
<1>3. ASSUME NEW p \in Plugin, CloserStore(p) PROVE Goal
  BY <1>3 DEF CloserStore, Store, TableInv, CleanTableIsMap
<1>4. CASE Open
  <2>1. /\ writer.pc = "open" /\ stored' = stored /\ dirty' = dirty
        /\ \/ writer' = [writer EXCEPT !.pc = "clear"]
           \/ writer' = [writer EXCEPT !.pc = "ended"]
    BY <1>4 DEF Open, WriterUnchanged
  <2> QED BY <1>0, <2>1 DEF TableInv, CleanTableIsMap, WriterStates
<1>5. CASE FlushSnapshot
  <2>1. PICK pc \in {"delete", "lastDelete"} :
            writer' = [writer EXCEPT !.rows = Rows(stored), !.pc = pc]
    BY <1>5 DEF FlushSnapshot
  <2>2. writer'.pc = pc /\ writer'.rows = Rows(stored)
    BY <1>0, <2>1 DEF WriterStates
  <2>3. Rows(stored)' = Rows(stored)
    BY <1>5 DEF FlushSnapshot, WriterUnchanged, Rows
  <2> QED BY <2>2, <2>3 DEF TableInv, CleanTableIsMap
<1>6. CASE Delete
  <2>1. /\ Rows(stored)' = Rows(stored) /\ stored' = stored /\ dirty' = dirty
        /\ table' = NoRows
    BY <1>6 DEF Delete, WriterUnchanged, Rows
  <2>2. CASE writer.pc = "clear"
    <3>1. writer'.pc = "loop"
      BY <1>0, <1>6, <2>2 DEF Delete, WriterStates
    <3> QED BY <2>1, <2>2, <3>1, EmptyRows DEF TableInv, CleanTableIsMap
  <2>3. CASE writer.pc = "delete"
    <3>1. writer'.pc = "insert" /\ writer'.rows = writer.rows
      BY <1>0, <1>6, <2>3 DEF Delete, Inserting, WriterStates
    <3> QED BY <2>1, <2>3, <3>1 DEF TableInv, CleanTableIsMap
  <2>4. CASE writer.pc = "lastDelete"
    <3>1. writer'.pc = "lastInsert"
      BY <1>0, <1>6, <2>4 DEF Delete, Inserting, WriterStates
    <3> QED BY <3>1 DEF TableInv, CleanTableIsMap
  <2> QED BY <1>6, <2>2, <2>3, <2>4 DEF Delete, Deleting
<1>7. CASE Insert
  <2>1. /\ Rows(stored)' = Rows(stored) /\ dirty' = dirty /\ table' = writer.rows
    BY <1>7 DEF Insert, WriterUnchanged, Rows
  <2>2. CASE writer.pc = "insert"
    <3>1. writer'.pc = "loop"
      BY <1>0, <1>7, <2>2 DEF Insert, WriterStates
    <3> QED BY <2>1, <2>2, <3>1 DEF TableInv, CleanTableIsMap
  <2>3. CASE writer.pc = "lastInsert"
    <3>1. writer'.pc = "ended"
      BY <1>0, <1>7, <2>3 DEF Insert, WriterStates
    <3> QED BY <3>1 DEF TableInv, CleanTableIsMap
  <2> QED BY <1>7, <2>2, <2>3 DEF Insert
<1>8. ASSUME DeleteFails \/ InsertFails PROVE Goal
  <2>1. /\ Rows(stored)' = Rows(stored) /\ stored' = stored /\ Failed
        /\ writer.pc \in {"clear", "delete", "lastDelete", "insert", "lastInsert"}
    BY <1>8 DEF DeleteFails, InsertFails, WriterUnchanged, Rows, Deleting
  <2>2. CASE writer.tries = 0
    <3>1. dirty' = dirty
      BY <2>1, <2>2 DEF Failed
    <3>2. PICK pc \in {"clear", "delete", "lastDelete"} :
              /\ writer' = [writer EXCEPT !.tries = 1, !.pc = pc]
              /\ pc = "clear" => writer.pc = "clear"
              /\ pc = "delete" => writer.pc \in {"delete", "insert"}
      BY <1>0, <2>1, <2>2 DEF Failed, WriterStates
    <3>3. /\ writer'.pc = pc /\ writer'.rows = writer.rows
          /\ writer'.replaced = writer.replaced
      BY <1>0, <3>2 DEF WriterStates
    <3> QED BY <2>1, <3>1, <3>2, <3>3 DEF TableInv, CleanTableIsMap
  <2>3. CASE writer.tries # 0
    <3>1. dirty' = (dirty \/ writer.pc # "clear")
      BY <2>1, <2>3 DEF Failed
    <3>2. /\ writer'.pc \in {"ended", "loop"}
          /\ writer'.replaced = writer.replaced
      BY <1>0, <2>1, <2>3 DEF Failed, WriterStates
    <3>3. CASE writer.pc = "clear"
      BY <3>2, <3>3 DEF TableInv, CleanTableIsMap
    <3>4. CASE writer.pc # "clear"
      BY <3>1, <3>2, <3>4 DEF TableInv, CleanTableIsMap
    <3> QED BY <3>3, <3>4
  <2> QED BY <2>2, <2>3
<1>9. CASE LeaveLoop
  BY <1>0, <1>9 DEF LeaveLoop, WriterStates, TableInv, CleanTableIsMap
<1>10. CASE Restart
  BY <1>10 DEF Restart, NewWriter, TableInv, CleanTableIsMap
<1>11. CASE UNCHANGED <<stored, dirty, writer, table>>
  BY <1>11 DEF TableInv, CleanTableIsMap, Rows
<1> QED BY <1>1, <1>2, <1>3, <1>4, <1>5, <1>6, <1>7, <1>8, <1>9, <1>10, <1>11,
       StoredFrame, DirtyFrame, WriterFrame, TableFrame

-----------------------------------------------------------------------------
(* A stop *)

\* What has been shut down shows nothing while the stop goes on: its worker has
\* ended, and the main thread is in the handler.
LEMMA ShutDownShowsNothing ==
    ASSUME TypeOK, ThreadInv, StopInv, [Next]_vars, main'.pc \in Stopping,
           NEW q \in Plugin, closer'[q].pc = "done"
    PROVE  stored'[q] = Empty
<1> DEFINE Goal == stored'[q] = Empty
<1>0. /\ main \in MainStates /\ closer \in [Plugin -> CloserStates]
      /\ stored \in [Plugin -> Snapshots]
  BY DEF TypeOK
<1>1. ASSUME NEW p \in Plugin, CloserStore(p), p = q PROVE Goal
  BY <1>0, <1>1 DEF CloserStore, Store, CloserStates
<1>2. CASE Restart
  BY <1>2 DEF Restart
<1>3. CASE Terminate
  BY <1>3 DEF Terminate
<1>4. CASE MainStore
  BY <1>0, <1>4 DEF MainStore, MainStates, Stopping
<1>5. CASE main.pc \in Stopping /\ closer[q].pc = "done" /\ stored'[q] = stored[q]
  BY <1>5 DEF StopInv
<1>6. \/ main.pc \in Stopping \/ Terminate \/ Restart
  <2>1. CASE NextEvent
    BY <1>0, <2>1 DEF NextEvent, MainStates, Stopping
  <2>2. CASE AppendPending
    BY <1>0, <2>2 DEF AppendPending, MainGoto, MainStates, Stopping
  <2>3. CASE Unlock
    BY <1>0, <2>3 DEF Unlock, After, MainGoto, MainStates, Stopping
  <2>4. CASE PutEvent
    BY <1>0, <2>4 DEF PutEvent, MainGoto, MainStates, Stopping
  <2>5. CASE Report
    BY <1>0, <2>5 DEF Report, MainGoto, MainStates, Stopping
  <2>6. CASE MainStore
    BY <1>0, <2>6 DEF MainStore, MainStates, Stopping
  <2>7. CASE NextPlugin
    BY <1>0, <2>7 DEF NextPlugin, NewMain, MainStates, Stopping
  <2>8. CASE StopLogger \/ HandlerReturns
    BY <2>8 DEF StopLogger, HandlerReturns, Stopping
  <2> QED BY <2>1, <2>2, <2>3, <2>4, <2>5, <2>6, <2>7, <2>8, MainFrame
<1>7. closer[q].pc = "done" \/ Restart \/ CloserStore(q)
  <2>1. ASSUME NEW p \in Plugin, PutSentinel(p) PROVE closer[q].pc = "done"
    BY <1>0, <2>1 DEF PutSentinel, CloserStates
  <2>2. ASSUME NEW p \in Plugin, ClearPlugin(p) PROVE closer[q].pc = "done"
    BY <1>0, <2>2 DEF ClearPlugin, CloserStates
  <2>3. ASSUME NEW p \in Plugin, CloserStore(p), p # q PROVE closer[q].pc = "done"
    BY <1>0, <2>3 DEF CloserStore, CloserStates
  <2>4. ~Terminate
    BY DEF Terminate
  <2> QED BY <2>1, <2>2, <2>3, <2>4, CloserFrame
<1>8. closer[q].pc = "done" => stored'[q] = stored[q] \/ MainStore \/ Restart \/ CloserStore(q)
  <2>1. ASSUME NEW p \in Plugin, WorkerStore(p), closer[q].pc = "done"
        PROVE  stored'[q] = stored[q]
    <3>1. p # q
      BY <2>1 DEF WorkerStore, ThreadInv
    <3> QED BY <1>0, <2>1, <3>1 DEF WorkerStore, Store
  <2>2. ASSUME NEW p \in Plugin, CloserStore(p), p # q PROVE stored'[q] = stored[q]
    BY <1>0, <2>2 DEF CloserStore, Store
  <2> QED BY <2>1, <2>2, StoredFrame
<1> QED BY <1>1, <1>2, <1>3, <1>4, <1>5, <1>6, <1>7, <1>8

\* Without a fault so far there was none before either.
LEMMA NoFaultYet ==
    ASSUME TypeOK, [Next]_vars, bounds'.faults = 0
    PROVE  /\ bounds.faults = 0 /\ ~Fault
           /\ HandlerReturns => writer.pc = "ended"
           /\ Open => writer' = [writer EXCEPT !.pc = "clear"]
           /\ ~DeleteFails
           /\ InsertFails => ~KeysUnique(writer.rows)
<1>1. bounds \in [faults : 0 .. MaxFaults, restarts : 0 .. MaxRestarts]
  BY DEF TypeOK
<1>2. ~Fault
  BY <1>1 DEF Fault
<1>3. bounds.faults = 0
  BY <1>1, <1>2, BoundsFrame DEF HandlerReturns, Open, DeleteFails, InsertFails, Restart
<1> QED BY <1>2, <1>3 DEF HandlerReturns, Open, DeleteFails, InsertFails

\* At the writer's last flush of a stop without a fault, the map is empty.
LEMMA LastFlushIsEmpty ==
    ASSUME TypeOK, ThreadInv, StopInv, bounds.faults = 0, writer.pc = "last"
    PROVE  Rows(stored) = NoRows
<1>1. stop /\ main.pc = "joinWriter"
  BY DEF StopInv
<1>2. \A p \in Plugin : stored[p] = Empty
  BY <1>1 DEF StopInv, ThreadInv, Stopping
<1>3. stored \in [Plugin -> Snapshots]
  BY DEF TypeOK
<1>4. stored = [p \in Plugin |-> Empty]
  BY <1>2, <1>3
<1> QED BY <1>4, EmptyRows

\* The writer and the stop flag after a step, as long as nothing has failed.
LEMMA Stops ==
    ASSUME TypeOK, ThreadInv, StopInv, CleanStopEmptiesTable, [Next]_vars,
           bounds'.faults = 0
    PROVE  /\ writer'.pc \in {"last", "lastDelete", "lastInsert", "ended"} => stop'
           /\ stop' => main'.pc = "joinWriter" \/ writer'.pc = "ended"
           /\ writer'.pc \in {"lastDelete", "lastInsert"} => writer'.rows = NoRows
           /\ writer'.pc = "ended" /\ stop' => table' = NoRows
<1> DEFINE Last4 == {"last", "lastDelete", "lastInsert", "ended"}
           Goal == /\ writer'.pc \in Last4 => stop'
                   /\ stop' => main'.pc = "joinWriter" \/ writer'.pc = "ended"
                   /\ writer'.pc \in {"lastDelete", "lastInsert"} => writer'.rows = NoRows
                   /\ writer'.pc = "ended" /\ stop' => table' = NoRows
<1>0. main \in MainStates /\ writer \in WriterStates
  BY DEF TypeOK
<1>a. /\ bounds.faults = 0
      /\ writer.pc \in Last4 => stop
      /\ stop => main.pc = "joinWriter" \/ writer.pc = "ended"
      /\ writer.pc \in {"lastDelete", "lastInsert"} => writer.rows = NoRows
      /\ writer.pc = "ended" /\ stop => table = NoRows
  BY NoFaultYet DEF StopInv, CleanStopEmptiesTable
<1>1. CASE StopLogger
  <2>1. ~stop /\ main'.pc = "joinWriter" /\ writer' = writer /\ stop'
    BY <1>0, <1>1 DEF StopLogger, MainGoto, MainStates, ThreadInv, Stopping
  <2> QED BY <1>a, <2>1
<1>2. CASE Restart
  BY <1>2 DEF Restart, NewWriter
<1>3. CASE HandlerReturns
  <2>1. /\ writer.pc = "ended" /\ writer' = writer /\ stop' = stop /\ table' = table
    BY <1>3, NoFaultYet DEF HandlerReturns
  <2> QED BY <1>a, <2>1
<1>4. CASE Open
  <2>1. writer'.pc = "clear" /\ main' = main /\ stop' = stop
    BY <1>0, <1>4, NoFaultYet DEF Open, WriterUnchanged, WriterStates
  <2> QED BY <1>a, <1>4, <2>1 DEF Open
<1>5. CASE FlushSnapshot
  <2>1. main' = main /\ stop' = stop /\ writer.pc \in {"loop", "last"}
    BY <1>5 DEF FlushSnapshot, WriterUnchanged
  <2>2. CASE writer.pc = "loop"
    <3>1. writer'.pc = "delete"
      BY <1>0, <1>5, <2>2 DEF FlushSnapshot, WriterStates
    <3> QED BY <1>a, <2>1, <2>2, <3>1
  <2>3. CASE writer.pc = "last"
    <3>1. writer'.pc = "lastDelete" /\ writer'.rows = Rows(stored)
      BY <1>0, <1>5, <2>3 DEF FlushSnapshot, WriterStates
    <3> QED BY <1>a, <2>1, <2>3, <3>1, LastFlushIsEmpty
  <2> QED BY <2>1, <2>2, <2>3
<1>6. CASE Delete
  <2>1. main' = main /\ stop' = stop /\ table' = NoRows /\ writer.pc \in Deleting
    BY <1>6 DEF Delete, WriterUnchanged
  <2>2. CASE writer.pc = "clear"
    <3>1. writer'.pc = "loop"
      BY <1>0, <1>6, <2>2 DEF Delete, WriterStates
    <3> QED BY <1>a, <2>1, <2>2, <3>1
  <2>3. CASE writer.pc = "delete"
    <3>1. writer'.pc = "insert"
      BY <1>0, <1>6, <2>3 DEF Delete, Inserting, WriterStates
    <3> QED BY <1>a, <2>1, <2>3, <3>1
  <2>4. CASE writer.pc = "lastDelete"
    <3>1. writer'.pc = "lastInsert" /\ writer'.rows = writer.rows
      BY <1>0, <1>6, <2>4 DEF Delete, Inserting, WriterStates
    <3> QED BY <1>a, <2>1, <2>4, <3>1
  <2> QED BY <2>1, <2>2, <2>3, <2>4 DEF Deleting
<1>7. CASE Insert
  <2>1. main' = main /\ stop' = stop /\ table' = writer.rows
    BY <1>7 DEF Insert, WriterUnchanged
  <2>2. CASE writer.pc = "insert"
    <3>1. writer'.pc = "loop"
      BY <1>0, <1>7, <2>2 DEF Insert, WriterStates
    <3> QED BY <1>a, <2>1, <2>2, <3>1
  <2>3. CASE writer.pc = "lastInsert"
    <3>1. writer'.pc = "ended"
      BY <1>0, <1>7, <2>3 DEF Insert, WriterStates
    <3> QED BY <1>a, <2>1, <2>3, <3>1
  <2> QED BY <1>7, <2>2, <2>3 DEF Insert
<1>8. CASE InsertFails
  <2>1. main' = main /\ stop' = stop /\ writer.pc = "insert" /\ Failed
    BY <1>8, <1>a, NoFaultYet, EmptyRows DEF InsertFails, WriterUnchanged
  <2>2. writer'.pc \in {"delete", "loop"}
    BY <1>0, <2>1 DEF Failed, WriterStates
  <2> QED BY <1>a, <2>1, <2>2
<1>9. CASE LeaveLoop
  <2>1. /\ main' = main /\ stop' = stop /\ stop /\ writer'.pc = "last"
        /\ writer.pc = "loop"
    BY <1>0, <1>9 DEF LeaveLoop, WriterUnchanged, WriterStates
  <2> QED BY <1>a, <2>1
<1>10. CASE main' # main /\ ~StopLogger /\ ~HandlerReturns /\ ~Restart
  <2>1. UNCHANGED <<writer, stop, table>>
    BY <1>10, MainFrame DEF NextEvent, AppendPending, Unlock, PutEvent, Report,
       MainStore, NextPlugin, Terminate
  <2>2. main.pc # "joinWriter"
    BY <1>10, MainFrame DEF NextEvent, AppendPending, Unlock, After, PutEvent, Report,
       MainStore, NextPlugin, Terminate, ThreadInv, Stopping
  <2> QED BY <1>a, <2>1, <2>2
<1>11. CASE UNCHANGED <<main, writer, stop, table>>
  BY <1>11, <1>a
<1> QED BY <1>1, <1>2, <1>3, <1>4, <1>5, <1>6, <1>7, <1>8, <1>9, <1>10, <1>11,
       MainFrame, WriterFrame, StopFrame, TableFrame, NoFaultYet

\* Every step keeps what a stop rests on.
LEMMA Stopped ==
    ASSUME TypeOK, ThreadInv, StopInv, CleanStopEmptiesTable, [Next]_vars
    PROVE  StopInv' /\ CleanStopEmptiesTable'
<1>1. main'.pc \in Stopping =>
          \A q \in Plugin : closer'[q].pc = "done" => stored'[q] = Empty
  BY ShutDownShowsNothing
<1>2. StopInv'
  BY <1>1, Stops DEF StopInv, Stopping
<1> QED BY <1>2, Stops DEF CleanStopEmptiesTable

-----------------------------------------------------------------------------
(* The theorems *)

\* The invariant holds at the start.
LEMMA Initially == Init => QueueInv
<1> SUFFICES ASSUME Init PROVE QueueInv
  OBVIOUS
<1>0. 1 \in Plugin /\ NumPlugins \in Nat /\ Empty \in Snapshots /\ NoRows \in Tables
  BY EmptyType DEF Plugin, NoRows, Tables
<1>1. TypeOK
  <2>1. /\ queue \in [Plugin -> Seq(EventId \cup {StopSentinel})]
        /\ pending \in [Plugin -> Seq(EventId)] /\ current \in [Plugin -> EventId \cup {NoEvent}]
    BY DEF Init
  <2>2. worker \in [Plugin -> WorkerStates]
    BY <1>0 DEF Init, NewWorker, WorkerStates
  <2>3. main \in MainStates
    BY <1>0 DEF Init, NewMain, MainStates
  <2>4. closer \in [Plugin -> CloserStates]
    BY DEF Init, CloserStates
  <2>5. writer \in WriterStates
    BY <1>0 DEF Init, NewWriter, WriterStates
  <2>6. bounds \in [faults : 0 .. MaxFaults, restarts : 0 .. MaxRestarts]
    BY DEF Init
  <2>7. /\ dispatched \in 0 .. MaxDispatched /\ table \in Tables
        /\ dirty \in BOOLEAN /\ stop \in BOOLEAN
    <3>1. dispatched = 0 /\ MaxDispatched \in Nat
      BY QueueTableAssumption DEF Init
    <3>2. dispatched \in 0 .. MaxDispatched
      BY <3>1
    <3>3. table \in Tables
      BY <1>0 DEF Init
    <3>4. dirty \in BOOLEAN /\ stop \in BOOLEAN
      BY DEF Init
    <3> QED BY <3>2, <3>3, <3>4
  <2>8. stored \in [Plugin -> Snapshots]
    BY <1>0 DEF Init
  <2> QED BY <2>1, <2>2, <2>3, <2>4, <2>5, <2>6, <2>7, <2>8 DEF TypeOK
<1>2. ThreadInv
  BY <1>0 DEF Init, NewWorker, NewMain, ThreadInv, Enqueuing, Stopping
<1>3. PendingMirrorsQueue
  BY <1>0 DEF Init, NewWorker, NewMain, PendingMirrorsQueue, TakenOut, BeingPut,
     Waiting, At
<1>4. ListedInv /\ WorkIsListed
  BY <1>0 DEF Init, NewWorker, NewMain, ListedInv, WorkIsListed, At
<1>5. TableInv /\ CleanTableIsMap /\ StopInv /\ CleanStopEmptiesTable
  BY DEF Init, NewWriter, NewMain, TableInv, CleanTableIsMap, StopInv,
     CleanStopEmptiesTable, Stopping
<1> QED BY <1>1, <1>2, <1>3, <1>4, <1>5 DEF QueueInv

\* The inductive invariant of the queue table holds in every reachable state: the
\* threads of shotgunEventDaemon.py:1602 and db_logger.py:597 keep their parts of it.
THEOREM QueueInvHolds == Spec => []QueueInv
<1>1. ASSUME QueueInv, [Next]_vars PROVE QueueInv'
  <2> USE <1>1 DEF QueueInv
  <2>1. TypeOK'
    BY Types
  <2>2. ThreadInv'
    BY Threads
  <2>3. PendingMirrorsQueue'
    BY Mirror DEF PendingMirrorsQueue
  <2>4. ListedInv' /\ WorkIsListed'
    BY Listings
  <2>5. TableInv' /\ CleanTableIsMap'
    BY TableFollows
  <2>6. StopInv' /\ CleanStopEmptiesTable'
    BY Stopped
  <2> QED BY <2>1, <2>2, <2>3, <2>4, <2>5, <2>6
<1> QED BY <1>1, Initially, PTL DEF Spec

\* The list of pending events and the queue of a plugin agree whatever its worker, the
\* main thread and a signal handler on top of it do (shotgunEventDaemon.py:1610, 1676).
THEOREM RecordsAgree == Spec => []PendingMirrorsQueue
<1>1. QueueInv => PendingMirrorsQueue
  BY DEF QueueInv
<1> QED BY <1>1, QueueInvHolds, PTL

\* The event a plugin works on is in the map of the database logger, however late the
\* main thread stores its older snapshot (shotgunEventDaemon.py:1705).
THEOREM WorkStaysListed == Spec => []WorkIsListed
<1>1. QueueInv => WorkIsListed
  BY DEF QueueInv
<1> QED BY <1>1, QueueInvHolds, PTL

\* A clear flag means that the table is the map: no store during a write and no
\* failure of it is forgotten (db_logger.py:622).
THEOREM CleanFlagMeansWritten == Spec => []CleanTableIsMap
<1>1. QueueInv => CleanTableIsMap
  BY DEF QueueInv
<1> QED BY <1>1, QueueInvHolds, PTL

\* A stop without a fault empties the table (shotgunEventDaemon.py:877).
THEOREM CleanStopLeavesNoRow == Spec => []CleanStopEmptiesTable
<1>1. QueueInv => CleanStopEmptiesTable
  BY DEF QueueInv
<1> QED BY <1>1, QueueInvHolds, PTL

===============================================================================
