----------------------------- MODULE DbLoggerProofs -----------------------------
(***************************************************************************)
(* Theorems about DbLogger for every value of its constants: types, and    *)
(* that no accepted run is lost without a report, or counted twice for a   *)
(* reason that the model does not name.                                    *)
(***************************************************************************)
EXTENDS DbLogger, FiniteSetTheorems, SequenceTheorems, TLAPS

USE DEF vars, flags, locals, tables, bounds, history

-----------------------------------------------------------------------------
(* Types *)

\* Every set of runs is finite, so a batch has a size.
LEMMA BatchIsFinite ==
    ASSUME NEW S \in SUBSET Run
    PROVE  Cardinality(S) \in Nat
  <1>1. NumRuns \in Int
    BY ConstantsAssumption
  <1>2. IsFiniteSet(Run)
    BY <1>1, FS_Interval DEF Run
  <1>3. IsFiniteSet(S)
    BY <1>2, FS_Subset
  <1> QED BY <1>3, FS_CardinalityType

\* The initial state of the logger has the types of TypeOK.
LEMMA TypeInit == Init => TypeOK
  <1> SUFFICES ASSUME Init PROVE TypeOK
    OBVIOUS
  <1>1. QueueMax \in Nat
    BY ConstantsAssumption
  <1>2. queue \in Seq(Run \cup {Wakeup}) /\ Len(queue) <= QueueMax
    BY <1>1 DEF Init
  <1> QED BY <1>2 DEF Init, TypeOK, NoRows, WriterStep

\* What a batch that failed for good leaves has its types.
LEMMA FailureTypes ==
    ASSUME TypeOK, NEW full \in BOOLEAN, BatchFails(full)
    PROVE  /\ tries' = 0 /\ batch' \in SUBSET Run /\ recovering' \in BOOLEAN
           /\ writer' \in WriterStep
           /\ reason' \in {"timer", "threshold", "full", "failed", "final"}
           /\ fate' \in [Run -> {"unlogged", "open", "dropped", "reported",
                                 "abandoned", "serverLost"}]
  BY DEF TypeOK, BatchFails, Raised, Flush, BatchEnds, Meet, WriterStep

\* What a flush leaves, done or raised, has its types.
LEMMA FlushTypes ==
    ASSUME TypeOK, FlushDone \/ FlushRaised,
           FlushRaised \/ UNCHANGED fate
    PROVE  /\ flushDue' \in BOOLEAN
           /\ batch' \in SUBSET Run /\ recovering' \in BOOLEAN
           /\ writer' \in WriterStep
           /\ reason' \in {"timer", "threshold", "full", "failed", "final"}
           /\ fate' \in [Run -> {"unlogged", "open", "dropped", "reported",
                                 "abandoned", "serverLost"}]
  <1>1. CASE FlushDone /\ UNCHANGED fate
    BY <1>1 DEF TypeOK, FlushDone, Flush, BatchEnds, WriterStep
  <1>2. CASE FlushRaised
    BY <1>2 DEF TypeOK, FlushRaised, Flush, BatchEnds, Meet, WriterStep
  <1> QED BY <1>1, <1>2

\* Every step of the logger, of its callers and of the outside keeps the types.
LEMMA TypeStep == TypeOK /\ [Next]_vars => TypeOK'
  <1> SUFFICES ASSUME TypeOK, [Next]_vars PROVE TypeOK'
    OBVIOUS
  <1> USE DEF TypeOK
  <1>1. CASE UNCHANGED vars
    BY <1>1
  <1>2. CASE Connect
    BY <1>2 DEF Connect, Fault, WriterStep
  <1>3. CASE LoopTop
    BY <1>3 DEF LoopTop, Flush, WriterStep
  <1>4. CASE Get
    <2>1. /\ queue' \in Seq(Run \cup {Wakeup}) /\ Len(queue') <= Len(queue)
          /\ Head(queue) \in Run \cup {Wakeup}
      BY <1>4, HeadTailProperties DEF Get
    <2>2. QueueMax \in Nat /\ Len(queue) \in Nat /\ Len(queue') \in Nat
      BY <2>1, ConstantsAssumption
    <2>3. Len(queue') <= QueueMax
      BY <2>1, <2>2
    <2>4. batch' \in SUBSET Run
      BY <1>4, <2>1 DEF Get
    <2> QED BY <1>4, <2>1, <2>3, <2>4 DEF Get
  <1>5. CASE Collected
    BY <1>5 DEF Collected, Flush, WriterStep
  <1>6. CASE InsertStats
    <2> HIDE DEF TypeOK
    <2>0. batch \in SUBSET Run /\ memRows \in Nat
      BY DEF TypeOK
    <2> DEFINE n == Cardinality(batch)
    <2>a. n \in Nat
      BY <2>0, BatchIsFinite
    <2>b. memRows' = memRows + n
      BY <1>6 DEF InsertStats
    <2>1. memRows' \in Nat
      <3> HIDE DEF n
      <3> QED BY <2>0, <2>a, <2>b
    <2> USE DEF TypeOK
    <2>2. mem' \in [Run -> Nat]
      BY <1>6 DEF InsertStats, Insert
    <2> QED BY <1>6, <2>1, <2>2 DEF InsertStats, Succeeds, WriterStep
  <1>7. CASE InsertEvents
    <2>1. eventLog' \in [Run -> Nat]
      BY <1>7 DEF InsertEvents, Insert
    <2>2. /\ writer' \in WriterStep
          /\ reason' \in {"timer", "threshold", "full", "failed", "final"}
      BY <1>7 DEF InsertEvents, BatchEnds, Flush, WriterStep
    <2> QED BY <1>7, <2>1, <2>2 DEF InsertEvents, Succeeds
  <1>8. ASSUME NEW S \in SUBSET batch, NEW full \in BOOLEAN,
               InsertStatsFails(S, full)
        PROVE  TypeOK'
    <2>1. CASE Again /\ UNCHANGED <<batch, recovering, reason, fate>>
      BY <1>8, <2>1 DEF InsertStatsFails, Again, Fault, Insert
    <2>2. CASE BatchFails(full)
      BY <1>8, <2>2, FailureTypes DEF InsertStatsFails, Fault, Insert
    <2> QED BY <1>8, <2>1, <2>2 DEF InsertStatsFails
  <1>9. ASSUME NEW S \in SUBSET (batch \cap EventRuns), NEW full \in BOOLEAN,
               InsertEventsFails(S, full)
        PROVE  TypeOK'
    <2>1. CASE Again /\ UNCHANGED <<batch, recovering, reason, fate>>
      BY <1>9, <2>1 DEF InsertEventsFails, Again, Fault, Insert
    <2>2. CASE BatchFails(full)
      BY <1>9, <2>2, FailureTypes DEF InsertEventsFails, Fault, Insert
    <2> QED BY <1>9, <2>1, <2>2 DEF InsertEventsFails
  <1>10. CASE Aggregate
    BY <1>10 DEF Aggregate, Succeeds, Aggregated, WriterStep
  <1>11. CASE Truncate
    BY <1>11, FlushTypes DEF Truncate, Succeeds, NoRows
  <1>12. ASSUME NEW applied \in BOOLEAN, NEW full \in BOOLEAN,
                AggregateFails(applied, full)
         PROVE  TypeOK'
    <2>1. stats' \in [Run -> Nat] /\ doubtful' \in SUBSET Run
      BY <1>12 DEF AggregateFails, Aggregated, InMemory
    <2>2. CASE Again /\ UNCHANGED <<flushDue, batch, recovering, reason, fate>>
      BY <1>12, <2>1, <2>2 DEF AggregateFails, Again, Fault
    <2>3. CASE Raised(full) /\ FlushRaised
      BY <1>12, <2>1, <2>3, FlushTypes DEF AggregateFails, Raised, Fault
    <2> QED BY <1>12, <2>2, <2>3 DEF AggregateFails
  <1>13. ASSUME NEW applied \in BOOLEAN, TruncateFails(applied)
         PROVE  TypeOK'
    <2>1. mem' \in [Run -> Nat] /\ doubtful' \in SUBSET Run
      BY <1>13 DEF TruncateFails, NoRows, InMemory
    <2>2. CASE Again /\ UNCHANGED <<flushDue, batch, recovering, reason, history>>
      BY <1>13, <2>1, <2>2 DEF TruncateFails, Again, Fault
    <2>3. CASE Raised(FALSE) /\ FlushRaised
      BY <1>13, <2>1, <2>3, FlushTypes DEF TruncateFails, Raised, Fault
    <2> QED BY <1>13, <2>2, <2>3 DEF TruncateFails
  <1>14. ASSUME NEW r \in Run, LogPluginRun(r)
         PROVE  TypeOK'
    <2>1. QueueMax \in Nat
      BY ConstantsAssumption
    <2>2. queue' \in Seq(Run \cup {Wakeup}) /\ Len(queue') <= QueueMax
      BY <1>14, <2>1 DEF LogPluginRun, HasRoom
    <2> QED BY <1>14, <2>2 DEF LogPluginRun
  <1>15. CASE Shutdown
    <2>1. QueueMax \in Nat
      BY ConstantsAssumption
    <2>2. queue' \in Seq(Run \cup {Wakeup}) /\ Len(queue') <= QueueMax
      BY <1>15, <2>1 DEF Shutdown, HasRoom
    <2> QED BY <1>15, <2>2 DEF Shutdown
  <1>16. CASE FlushIntervalElapses
    BY <1>16 DEF FlushIntervalElapses
  <1>17. CASE ProcessRestarts
    <2>1. QueueMax \in Nat
      BY ConstantsAssumption
    <2>2. queue' \in Seq(Run \cup {Wakeup}) /\ Len(queue') <= QueueMax
      BY <1>17, <2>1 DEF ProcessRestarts
    <2>3. doubtful' \in SUBSET Run /\ rewritten' \in SUBSET Run
      BY <1>17 DEF ProcessRestarts, InMemory
    <2>4. fate' \in [Run -> {"unlogged", "open", "dropped", "reported",
                             "abandoned", "serverLost"}]
      BY <1>17 DEF ProcessRestarts, Meet
    <2>5. /\ mem' \in [Run -> Nat] /\ stats' \in [Run -> Nat]
          /\ eventLog' \in [Run -> Nat]
          /\ faults' \in Nat /\ restarts' \in Nat /\ memRows' \in Nat
      BY <1>17 DEF ProcessRestarts
    <2>6. /\ stop' \in BOOLEAN /\ flushDue' \in BOOLEAN
          /\ writer' \in WriterStep /\ tries' \in {0, 1}
          /\ batch' \in SUBSET Run /\ recovering' \in BOOLEAN /\ closing' \in BOOLEAN
          /\ reason' \in {"timer", "threshold", "full", "failed", "final"}
      BY <1>17 DEF ProcessRestarts, WriterStep
    <2> QED BY <2>2, <2>3, <2>4, <2>5, <2>6
  <1>18. CASE ServerRestarts
    BY <1>18 DEF ServerRestarts, Fault, Meet, NoRows
  <1> QED
    BY <1>1, <1>2, <1>3, <1>4, <1>5, <1>6, <1>7, <1>8, <1>9, <1>10, <1>11,
       <1>12, <1>13, <1>14, <1>15, <1>16, <1>17, <1>18
    DEF Next, WriterThread, WriteBatch, FlushToDisk

\* The tables, the queue and the writer's locals keep their types, and the queue
\* its limit (DatabaseLogger).
THEOREM LoggerTypeCorrect == Spec => []TypeOK
  BY TypeInit, TypeStep, PTL DEF Spec

-----------------------------------------------------------------------------
(* What is queued *)

\* Putting an element into _queue adds it to the queued runs, a wakeup nothing.
LEMMA QueuedAfterAppend ==
    ASSUME TypeOK, NEW e \in Run \cup {Wakeup}, queue' = Append(queue, e)
    PROVE  Queued' = Queued \cup ({e} \ {Wakeup})
  <1>1. /\ DOMAIN queue = 1..Len(queue) /\ Len(queue) \in Nat
        /\ DOMAIN queue' = 1..(Len(queue) + 1)
        /\ queue'[Len(queue) + 1] = e
        /\ \A i \in 1..Len(queue) : queue'[i] = queue[i]
    BY DEF TypeOK
  <1> QED BY <1>1 DEF Queued

\* Taking the head of _queue splits the queued runs into it and the rest.
LEMMA QueuedAfterTail ==
    ASSUME TypeOK, queue # <<>>, queue' = Tail(queue)
    PROVE  Queued = Queued' \cup ({Head(queue)} \ {Wakeup})
  <1>1. /\ DOMAIN queue = 1..Len(queue) /\ Len(queue) \in Nat \ {0}
        /\ DOMAIN queue' = 1..(Len(queue) - 1)
        /\ Head(queue) = queue[1]
        /\ \A i \in 1..(Len(queue) - 1) : queue'[i] = queue[i + 1]
    BY DEF TypeOK
  <1>2. ASSUME NEW i \in 1..Len(queue), i # 1
        PROVE  i - 1 \in 1..(Len(queue) - 1) /\ queue'[i - 1] = queue[i]
    BY <1>1, <1>2
  <1>3. Queued \subseteq Queued' \cup ({Head(queue)} \ {Wakeup})
    <2> SUFFICES ASSUME NEW i \in 1..Len(queue), queue[i] # Wakeup, i # 1
                 PROVE  queue[i] \in Queued'
      BY <1>1 DEF Queued
    <2>1. i - 1 \in DOMAIN queue' /\ queue'[i - 1] = queue[i]
      BY <1>1, <1>2
    <2> QED BY <2>1 DEF Queued
  <1>4. ASSUME NEW i \in 1..(Len(queue) - 1)
        PROVE  i + 1 \in DOMAIN queue /\ queue'[i] = queue[i + 1]
    BY <1>1, <1>4
  <1>5. Queued' \subseteq Queued
    BY <1>1, <1>4 DEF Queued
  <1>6. {Head(queue)} \ {Wakeup} \subseteq Queued
    BY <1>1 DEF Queued
  <1> QED BY <1>3, <1>5, <1>6

-----------------------------------------------------------------------------
(* No run is counted twice without a reason *)

RowInv ==
    NoUnexplainedDouble /\ UntouchedSoFar /\ RewrittenOnce /\ CountedInOnePlace
CountInv == RowInv /\ QueuedOnce

\* The part about the queue: taking from its head and adding a run that is not in
\* it keep its runs distinct.
LEMMA AppendKeepsDistinct ==
    ASSUME TypeOK, QueuedOnce, NEW e \in Run \cup {Wakeup},
           e \notin Queued, queue' = Append(queue, e)
    PROVE  \A i, j \in DOMAIN queue' :
              queue'[i] = queue'[j] /\ queue'[i] # Wakeup => i = j
  <1>1. /\ DOMAIN queue = 1..Len(queue) /\ Len(queue) \in Nat
        /\ DOMAIN queue' = 1..(Len(queue) + 1)
        /\ queue'[Len(queue) + 1] = e
        /\ \A i \in 1..Len(queue) : queue'[i] = queue[i]
    BY DEF TypeOK
  <1>2. \A i \in 1..Len(queue) : queue[i] # Wakeup => queue[i] # e
    BY <1>1 DEF Queued
  <1>3. \A i, j \in 1..Len(queue) :
            queue[i] = queue[j] /\ queue[i] # Wakeup => i = j
    BY <1>1 DEF QueuedOnce
  <1> QED BY <1>1, <1>2, <1>3

\* Taking the head keeps the queued runs distinct, and its run is no longer queued.
LEMMA TailKeepsDistinct ==
    ASSUME TypeOK, QueuedOnce, queue # <<>>, queue' = Tail(queue)
    PROVE  /\ \A i, j \in DOMAIN queue' :
                  queue'[i] = queue'[j] /\ queue'[i] # Wakeup => i = j
           /\ Head(queue) \notin Queued'
  <1>1. /\ DOMAIN queue = 1..Len(queue) /\ Len(queue) \in Nat \ {0}
        /\ DOMAIN queue' = 1..(Len(queue) - 1)
        /\ Head(queue) = queue[1]
        /\ \A i \in 1..(Len(queue) - 1) : queue'[i] = queue[i + 1]
    BY DEF TypeOK
  <1>2. \A i, j \in 1..Len(queue) :
            queue[i] = queue[j] /\ queue[i] # Wakeup => i = j
    BY <1>1 DEF QueuedOnce
  <1>3. ASSUME NEW i \in DOMAIN queue', NEW j \in DOMAIN queue',
               queue'[i] = queue'[j], queue'[i] # Wakeup
        PROVE  i = j
    <2>1. /\ i + 1 \in 1..Len(queue) /\ j + 1 \in 1..Len(queue)
          /\ queue'[i] = queue[i + 1] /\ queue'[j] = queue[j + 1]
      BY <1>1
    <2>2. i + 1 = j + 1
      BY <2>1, <1>2, <1>3
    <2> QED BY <1>1, <2>2
  <1>4. ASSUME NEW i \in DOMAIN queue', queue'[i] # Wakeup
        PROVE  queue'[i] # Head(queue)
    <2>1. i + 1 \in 1..Len(queue) /\ queue'[i] = queue[i + 1] /\ i + 1 # 1
      BY <1>1
    <2> QED BY <1>1, <1>2, <1>4, <2>1
  <1>5. Head(queue) \notin Queued'
    BY <1>4 DEF Queued
  <1> QED BY <1>3, <1>5

\* A run stays at one place of the queue, or in the batch, never in both.
LEMMA QueuedOnceStep == TypeOK /\ CountInv /\ [Next]_vars => QueuedOnce'
  <1> SUFFICES ASSUME TypeOK, CountInv, [Next]_vars PROVE QueuedOnce'
    OBVIOUS
  <1>1. QueuedOnce /\ UntouchedSoFar
    BY DEF CountInv, RowInv
  <1>2. CASE UNCHANGED queue /\ batch' \subseteq batch
    BY <1>1, <1>2 DEF QueuedOnce, Queued
  <1>3. CASE Get
    <2>1. /\ \A i, j \in DOMAIN queue' :
                  queue'[i] = queue'[j] /\ queue'[i] # Wakeup => i = j
          /\ Head(queue) \notin Queued'
      BY <1>1, <1>3, TailKeepsDistinct DEF Get
    <2>2. Queued' \subseteq Queued
      BY <1>3, QueuedAfterTail DEF Get
    <2> QED BY <1>1, <1>3, <2>1, <2>2 DEF QueuedOnce, Get
  <1>4. CASE Shutdown
    <2>1. CASE HasRoom
      <3>1. Wakeup \notin Queued
        BY DEF Queued
      <3>2. queue' = Append(queue, Wakeup)
        BY <1>4, <2>1 DEF Shutdown
      <3>3. Queued' = Queued
        BY <3>2, QueuedAfterAppend
      <3> QED
        BY <1>1, <1>4, <3>1, <3>2, <3>3, AppendKeepsDistinct
        DEF QueuedOnce, Shutdown
    <2>2. CASE ~HasRoom
      BY <1>1, <1>4, <2>2 DEF QueuedOnce, Shutdown, Queued
    <2> QED BY <2>1, <2>2
  <1>5. CASE ProcessRestarts
    BY <1>5 DEF QueuedOnce, ProcessRestarts, Queued
  <1>6. ASSUME NEW r \in Run, LogPluginRun(r)
        PROVE  QueuedOnce'
    <2>1. CASE HasRoom
      <3>1. r \notin Queued /\ r \notin batch
        BY <1>1, <1>6 DEF UntouchedSoFar, LogPluginRun, OnItsWay
      <3>2. queue' = Append(queue, r)
        BY <1>6, <2>1 DEF LogPluginRun
      <3>3. Queued' \subseteq Queued \cup {r}
        BY <3>2, QueuedAfterAppend
      <3> QED
        BY <1>1, <1>6, <3>1, <3>2, <3>3, AppendKeepsDistinct
        DEF QueuedOnce, LogPluginRun
    <2>2. CASE ~HasRoom
      BY <1>1, <1>6, <2>2 DEF QueuedOnce, LogPluginRun, Queued
    <2> QED BY <2>1, <2>2
  <1>7. CASE UNCHANGED vars
    BY <1>2, <1>7
  <1>8. CASE WriteBatch \/ FlushToDisk
    <2>1. UNCHANGED queue /\ batch' \subseteq batch
      BY <1>8
      DEF WriteBatch, FlushToDisk, InsertStats, InsertEvents, InsertStatsFails,
          InsertEventsFails, BatchFails, Aggregate, AggregateFails, Truncate,
          TruncateFails, FlushDone, FlushRaised
    <2> QED BY <1>2, <2>1
  <1>9. CASE Connect \/ LoopTop \/ Collected \/ FlushIntervalElapses \/ ServerRestarts
    BY <1>2, <1>9
    DEF Connect, LoopTop, Collected, FlushIntervalElapses, ServerRestarts
  <1> QED
    BY <1>3, <1>4, <1>5, <1>6, <1>7, <1>8, <1>9 DEF Next, WriterThread

\* At the start no run is anywhere.
LEMMA CountInit == Init => CountInv
  BY DEF Init, CountInv, RowInv, NoUnexplainedDouble, QueuedOnce, UntouchedSoFar,
         RewrittenOnce, CountedInOnePlace, Allowed, Owed, NoRows, Untouched, OnItsWay,
         Queued, Wakeup

\* What RowInv says of one run.
Row(r) ==
    /\ r \notin doubtful => stats[r] <= Allowed(r) /\ eventLog[r] <= 1
    /\ fate[r] = "unlogged" => Untouched(r) /\ ~OnItsWay(r)
    /\ r \in Queued => Untouched(r)
    /\ r \in batch \ doubtful =>
          eventLog[r] = 0 /\ (writer = "insertStats" => mem[r] = 0)
    /\ r \in batch \cap rewritten =>
          IF writer \in {"insertStats", "insertEvents"} THEN recovering
          ELSE writer \in {"aggregate", "truncate"} /\ reason = "full"
    /\ r \notin doubtful =>
          /\ mem[r] <= 1 /\ stats[r] + Owed(r) <= Allowed(r)
          /\ writer # "truncate" => mem[r] + stats[r] + Owed(r) <= Allowed(r)

\* RowInv is the sum of them.
LEMMA RowByRow == TypeOK => (RowInv <=> \A r \in Run : Row(r))
  BY DEF TypeOK, RowInv, Row, NoUnexplainedDouble, UntouchedSoFar, RewrittenOnce,
         CountedInOnePlace, Queued

\* Every step keeps the rows of each run to one place.
LEMMA RowStep == TypeOK /\ CountInv /\ [Next]_vars => RowInv'
  <1> SUFFICES ASSUME TypeOK, CountInv, [Next]_vars, NEW r \in Run PROVE Row(r)'
    <2>1. TypeOK /\ [Next]_vars => TypeOK'
      BY TypeStep
    <2>2. TypeOK' => (RowInv' <=> \A r \in Run : Row(r)')
      BY DEF TypeOK, RowInv, Row, NoUnexplainedDouble, UntouchedSoFar, RewrittenOnce,
             CountedInOnePlace, Queued
    <2> QED BY <2>1, <2>2
  <1>a. Row(r) /\ (r \in Queued => r \notin batch)
    BY RowByRow DEF CountInv, QueuedOnce
  <1>b. mem[r] \in Nat /\ stats[r] \in Nat /\ eventLog[r] \in Nat
    BY DEF TypeOK
  <1> USE DEF Row, Allowed, Owed, Untouched, OnItsWay
  <1>1. CASE UNCHANGED <<queue, writer, batch, recovering, reason, tables, history>>
    BY <1>a, <1>1 DEF Queued
  <1>2. CASE Connect \/ FlushIntervalElapses
    BY <1>a, <1>2 DEF Connect, FlushIntervalElapses, Queued
  <1>3. CASE LoopTop
    BY <1>a, <1>3 DEF LoopTop, Flush, Queued
  <1>4. CASE Get
    <2>1. Queued = Queued' \cup ({Head(queue)} \ {Wakeup})
      BY <1>4, QueuedAfterTail DEF Get
    <2>2. /\ batch' = batch \cup ({Head(queue)} \ {Wakeup}) /\ writer = "collect"
          /\ UNCHANGED <<writer, recovering, reason, tables, history>>
      BY <1>4 DEF Get
    <2> QED BY <1>a, <1>b, <2>1, <2>2
  <1>5. CASE Collected
    <2>1. /\ UNCHANGED <<Queued, batch, recovering, tables, history>>
          /\ writer = "collect" /\ writer' \in {"insertStats", "aggregate", "loop"}
      BY <1>5 DEF Collected, Flush, Queued
    <2> QED BY <1>a, <1>b, <2>1
  <1>6. CASE InsertStats
    <2>1. /\ UNCHANGED <<Queued, batch, recovering, reason, stats, eventLog, history>>
          /\ writer = "insertStats" /\ writer' = "insertEvents"
          /\ mem'[r] = IF r \in batch THEN mem[r] + 1 ELSE mem[r]
      BY <1>6 DEF InsertStats, Succeeds, Insert, Queued, TypeOK
    <2> QED BY <1>a, <1>b, <2>1
  <1>7. CASE InsertEvents
    <2>1. /\ UNCHANGED <<Queued, mem, stats, history>>
          /\ writer = "insertEvents" /\ writer' \in {"loop", "aggregate"}
          /\ batch' = {}
          /\ eventLog'[r] = IF r \in batch \cap EventRuns THEN eventLog[r] + 1
                            ELSE eventLog[r]
      BY <1>7 DEF InsertEvents, Succeeds, BatchEnds, Flush, Insert, Queued, TypeOK
    <2> QED BY <1>a, <1>b, <2>1
  <1>8. ASSUME NEW S \in SUBSET batch, NEW full \in BOOLEAN,
               InsertStatsFails(S, full)
        PROVE  Row(r)'
    <2>1. /\ UNCHANGED <<Queued, stats, eventLog, rewritten>>
          /\ doubtful' = doubtful \cup S /\ writer = "insertStats"
          /\ mem'[r] = IF r \in S THEN mem[r] + 1 ELSE mem[r]
      BY <1>8 DEF InsertStatsFails, Insert, Queued, TypeOK
    <2>2. fate'[r] = "unlogged" => fate[r] = "unlogged"
      BY <1>8 DEF InsertStatsFails, BatchFails, Meet
    <2>3. \/ UNCHANGED <<writer, batch, recovering, reason>>
          \/ /\ writer' = "aggregate" /\ reason' = "full"
             /\ UNCHANGED <<batch, recovering>>
          \/ batch' = {} /\ writer' \in {"loop", "aggregate"}
      BY <1>8 DEF InsertStatsFails, Again, BatchFails, BatchEnds, Flush
    <2> QED BY <1>a, <1>b, <2>1, <2>2, <2>3
  <1>9. ASSUME NEW S \in SUBSET (batch \cap EventRuns), NEW full \in BOOLEAN,
               InsertEventsFails(S, full)
        PROVE  Row(r)'
    <2>1. /\ UNCHANGED <<Queued, mem, stats>>
          /\ doubtful' = doubtful \cup S /\ writer = "insertEvents"
          /\ rewritten' = rewritten \cup (IF full /\ ~recovering THEN batch ELSE {})
          /\ eventLog'[r] = IF r \in S THEN eventLog[r] + 1 ELSE eventLog[r]
      BY <1>9 DEF InsertEventsFails, Insert, Queued, TypeOK
    <2>2. fate'[r] = "unlogged" => fate[r] = "unlogged"
      BY <1>9 DEF InsertEventsFails, BatchFails, Meet
    <2>3. \/ ~full /\ UNCHANGED <<writer, batch, recovering, reason>>
          \/ /\ full /\ ~recovering /\ writer' = "aggregate" /\ reason' = "full"
             /\ UNCHANGED <<batch, recovering>>
          \/ /\ ~(full /\ ~recovering)
             /\ batch' = {} /\ writer' \in {"loop", "aggregate"}
      BY <1>9 DEF InsertEventsFails, Again, BatchFails, BatchEnds, Flush
    <2> QED BY <1>a, <1>b, <2>1, <2>2, <2>3
  <1>10. CASE Aggregate
    <2>1. /\ UNCHANGED <<Queued, batch, recovering, reason, mem, eventLog, history>>
          /\ writer = "aggregate" /\ writer' = "truncate"
          /\ stats'[r] = stats[r] + mem[r]
      BY <1>10 DEF Aggregate, Succeeds, Aggregated, Queued, TypeOK
    <2> QED BY <1>a, <1>b, <2>1
  <1>11. CASE Truncate
    <2>1. /\ UNCHANGED <<Queued, batch, stats, eventLog, history>>
          /\ writer = "truncate" /\ mem'[r] = 0
          /\ \/ writer' = "insertStats" /\ recovering'
             \/ reason # "full" /\ writer' \in {"loop", "aggregate", "ended"}
      BY <1>11 DEF Truncate, Succeeds, FlushDone, BatchEnds, Flush, NoRows, Queued
    <2> QED BY <1>a, <1>b, <2>1
  <1>c. ASSUME FlushRaised
        PROVE  /\ UNCHANGED recovering
               /\ fate'[r] = "unlogged" => fate[r] = "unlogged"
               /\ \/ batch' = {} /\ reason = "full"
                  \/ UNCHANGED batch /\ reason # "full"
               /\ writer' \in {"loop", "aggregate", "ended"}
    BY <1>c DEF FlushRaised, BatchEnds, Flush, Meet
  <1>12. ASSUME NEW applied \in BOOLEAN, NEW full \in BOOLEAN,
                AggregateFails(applied, full)
         PROVE  Row(r)'
    <2>1. /\ UNCHANGED <<Queued, mem, eventLog, rewritten>> /\ writer = "aggregate"
          /\ \/ UNCHANGED <<stats, doubtful>>
             \/ UNCHANGED stats[r] /\ doubtful \subseteq doubtful'
             \/ r \in doubtful' /\ mem[r] > 0 /\ doubtful \subseteq doubtful'
      BY <1>12, <1>b DEF AggregateFails, Aggregated, InMemory, Queued, TypeOK
    <2>2. \/ UNCHANGED <<writer, batch, recovering, reason, fate>>
          \/ FlushRaised
      BY <1>12 DEF AggregateFails, Again
    <2>3. CASE UNCHANGED <<writer, batch, recovering, reason, fate>>
      BY <1>a, <1>b, <2>1, <2>3
    <2>4. CASE FlushRaised
      BY <1>a, <1>b, <1>c, <2>1, <2>4
    <2> QED BY <2>2, <2>3, <2>4
  <1>13. ASSUME NEW applied \in BOOLEAN, TruncateFails(applied)
         PROVE  Row(r)'
    <2>1. /\ UNCHANGED <<Queued, stats, eventLog, rewritten>> /\ writer = "truncate"
          /\ mem'[r] \in {0, mem[r]}
      BY <1>13, <1>b DEF TruncateFails, NoRows, Queued, history
    <2>2. \/ UNCHANGED <<writer, batch, recovering, reason, fate, doubtful>>
          \/ /\ FlushRaised /\ doubtful \subseteq doubtful'
             /\ r \notin doubtful' => mem'[r] = 0
      <3>1. CASE Again /\ UNCHANGED <<flushDue, batch, recovering, reason, history>>
        BY <3>1 DEF Again
      <3>2. CASE /\ Raised(FALSE) /\ FlushRaised
                 /\ doubtful' = doubtful \cup (IF applied THEN {} ELSE InMemory)
        <4>1. applied => mem'[r] = 0
          BY <1>13 DEF TruncateFails, NoRows
        <4>2. ~applied => mem' = mem
          BY <1>13 DEF TruncateFails
        <4> QED BY <1>b, <3>2, <4>1, <4>2 DEF InMemory
      <3> QED BY <1>13, <3>1, <3>2 DEF TruncateFails
    <2>3. CASE UNCHANGED <<writer, batch, recovering, reason, fate, doubtful>>
      BY <1>a, <1>b, <2>1, <2>3
    <2>4. CASE /\ FlushRaised /\ doubtful \subseteq doubtful'
               /\ r \notin doubtful' => mem'[r] = 0
      BY <1>a, <1>b, <1>c, <2>1, <2>4
    <2> QED BY <2>2, <2>3, <2>4
  <1>14. ASSUME NEW s \in Run, LogPluginRun(s)
         PROVE  Row(r)'
    <2>1. Queued' \subseteq Queued \cup {s}
      BY <1>14, QueuedAfterAppend DEF LogPluginRun, Queued
    <2>2. /\ fate[s] = "unlogged" /\ fate'[s] # "unlogged"
          /\ r # s => fate'[r] = fate[r]
      BY <1>14 DEF LogPluginRun, TypeOK
    <2>3. UNCHANGED <<writer, batch, recovering, reason, tables, doubtful, rewritten>>
      BY <1>14 DEF LogPluginRun
    <2> QED BY <1>a, <2>1, <2>2, <2>3
  <1>15. CASE Shutdown
    <2>1. UNCHANGED Queued
      BY <1>15, QueuedAfterAppend DEF Shutdown, Queued
    <2> QED BY <1>a, <1>15, <2>1 DEF Shutdown
  <1>17. CASE ProcessRestarts
    <2>1. Queued' = {} /\ batch' = {} /\ writer' = "connect"
      BY <1>17 DEF ProcessRestarts, Queued
    <2>2. fate'[r] = "unlogged" => fate[r] = "unlogged"
      BY <1>17 DEF ProcessRestarts, Meet
    <2>3. /\ UNCHANGED <<tables, rewritten>> /\ doubtful \subseteq doubtful'
          /\ writer = "truncate" /\ r \notin doubtful' => mem[r] = 0
      BY <1>17, <1>b DEF ProcessRestarts, InMemory
    <2> QED BY <1>a, <1>b, <2>1, <2>2, <2>3
  <1>18. CASE ServerRestarts
    <2>1. /\ UNCHANGED <<Queued, writer, batch, recovering, reason, stats, eventLog>>
          /\ UNCHANGED <<doubtful, rewritten>> /\ mem'[r] = 0
          /\ fate'[r] = "unlogged" => fate[r] = "unlogged"
      BY <1>18 DEF ServerRestarts, Meet, NoRows, Queued
    <2> QED BY <1>a, <1>b, <2>1
  <1> HIDE DEF Row
  <1> QED
    BY <1>1, <1>2, <1>3, <1>4, <1>5, <1>6, <1>7, <1>8, <1>9, <1>10, <1>11,
       <1>12, <1>13, <1>14, <1>15, <1>17, <1>18
    DEF Next, WriterThread, WriteBatch, FlushToDisk

\* The part of the invariant that counts rows is kept by every step.
LEMMA CountStep == TypeOK /\ CountInv /\ [Next]_vars => CountInv'
  BY QueuedOnceStep, RowStep DEF CountInv

-----------------------------------------------------------------------------
(* No accepted run is lost without a report *)

LossInv == NoUnreportedLoss /\ BatchReached /\ MemoryAggregated

\* At the start no run is open and the MEMORY table is empty.
LEMMA LossInit == Init => LossInv
  BY DEF Init, LossInv, NoUnreportedLoss, BatchReached, MemoryAggregated, NoRows,
         InMemory

\* A step that keeps every open run where it can be found keeps it accounted for.
LEMMA OpenRunsKept ==
    ASSUME NoUnreportedLoss,
           NEW r \in Run, fate'[r] = "open" => fate[r] = "open",
           r \in Queued \cup batch => r \in Queued' \cup batch' \/ fate'[r] # "open",
           Reached(r) => Reached(r)' \/ fate'[r] # "open",
           eventLog[r] > 0 => eventLog'[r] > 0
    PROVE  fate'[r] = "open" =>
              \/ OnItsWay(r)'
              \/ Reached(r)' /\ (r \in EventRuns => eventLog'[r] > 0)
  BY DEF NoUnreportedLoss, OnItsWay, Reached

\* A batch that is reported leaves no open run behind.
LEMMA ReportedRuns ==
    ASSUME TypeOK,
           \/ UNCHANGED <<batch, fate>>
           \/ batch' = {} /\ Meet(batch, "reported")
    PROVE  \A r \in Run : /\ fate'[r] = "open" => fate[r] = "open"
                          /\ r \in batch => r \in batch' \/ fate'[r] # "open"
  BY DEF TypeOK, Meet

\* Every step keeps the open runs accounted for, and what insertEvents and truncate
\* rely on.
LEMMA LossStep == TypeOK /\ CountInv /\ LossInv /\ [Next]_vars => LossInv'
  <1> SUFFICES ASSUME TypeOK, CountInv, LossInv, [Next]_vars PROVE LossInv'
    OBVIOUS
  <1>a. /\ mem \in [Run -> Nat] /\ stats \in [Run -> Nat]
        /\ eventLog \in [Run -> Nat]
        /\ batch \subseteq Run
    BY DEF TypeOK
  <1>b. NoUnreportedLoss /\ BatchReached /\ MemoryAggregated
    BY DEF LossInv
  <1>c. SUFFICES (NoUnreportedLoss /\ BatchReached /\ MemoryAggregated)'
    BY DEF LossInv
  <1>1. CASE UNCHANGED vars
    BY <1>1, <1>b DEF Queued, InMemory, NoUnreportedLoss, BatchReached,
       MemoryAggregated, OnItsWay, Reached
  <1>2. CASE Connect \/ LoopTop \/ Collected \/ FlushIntervalElapses
    <2>1. /\ writer' \notin {"insertEvents", "truncate"} \/ UNCHANGED writer
          /\ UNCHANGED <<queue, batch, tables, fate>>
      BY <1>2 DEF Connect, LoopTop, Collected, FlushIntervalElapses, Flush
    <2> QED BY <2>1, <1>b DEF Queued, InMemory, NoUnreportedLoss, BatchReached,
       MemoryAggregated, OnItsWay, Reached
  <1>4. CASE Get
    <2>1. Queued \cup batch = Queued' \cup batch'
      BY <1>4, QueuedAfterTail DEF Get
    <2>2. writer = "collect" /\ UNCHANGED <<writer, tables, fate>>
      BY <1>4 DEF Get
    <2> QED BY <2>1, <2>2, <1>b DEF NoUnreportedLoss, BatchReached,
       MemoryAggregated, OnItsWay, Reached
  <1>6. CASE InsertStats
    <2>1. UNCHANGED Queued
      BY <1>6 DEF InsertStats, Queued
    <2>2. \A r \in Run : /\ mem[r] > 0 => mem'[r] > 0
                         /\ r \in batch => mem'[r] > 0
      BY <1>6, <1>a DEF InsertStats, Insert
    <2>3. /\ writer' = "insertEvents"
          /\ UNCHANGED <<batch, stats, eventLog, fate>>
      BY <1>6 DEF InsertStats
    <2>4. NoUnreportedLoss'
      BY <2>1, <2>2, <2>3, <1>b, OpenRunsKept DEF NoUnreportedLoss, Reached
    <2>5. BatchReached' /\ MemoryAggregated'
      BY <2>2, <2>3, <1>a DEF BatchReached, MemoryAggregated, Reached
    <2> QED BY <2>4, <2>5
  <1>7. CASE InsertEvents
    <2>1. UNCHANGED Queued
      BY <1>7 DEF InsertEvents, Queued
    <2>2. \A r \in Run : /\ eventLog[r] > 0 => eventLog'[r] > 0
                         /\ r \in batch \cap EventRuns => eventLog'[r] > 0
      BY <1>7, <1>a DEF InsertEvents, Insert
    <2>3. /\ writer = "insertEvents" /\ writer' \in {"loop", "aggregate"}
          /\ batch' = {} /\ UNCHANGED <<mem, stats, fate>>
      BY <1>7 DEF InsertEvents, Succeeds, BatchEnds, Flush
    <2>4. NoUnreportedLoss'
      BY <2>1, <2>2, <2>3, <1>b
      DEF NoUnreportedLoss, BatchReached, Reached, OnItsWay
    <2>5. BatchReached' /\ MemoryAggregated'
      BY <2>3 DEF BatchReached, MemoryAggregated
    <2> QED BY <2>4, <2>5
  <1>8. ASSUME NEW S \in SUBSET batch, NEW full \in BOOLEAN,
               InsertStatsFails(S, full)
        PROVE  (NoUnreportedLoss /\ BatchReached /\ MemoryAggregated)'
    <2>1. UNCHANGED <<Queued, stats, eventLog>>
      BY <1>8 DEF InsertStatsFails, Queued
    <2>2. \A r \in Run : mem[r] > 0 => mem'[r] > 0
      BY <1>8, <1>a DEF InsertStatsFails, Insert
    <2>3. writer' \notin {"insertEvents", "truncate"}
      BY <1>8 DEF InsertStatsFails, Again, BatchFails, BatchEnds, Flush
    <2>4. \/ UNCHANGED <<batch, fate>>
          \/ batch' = {} /\ Meet(batch, "reported")
      BY <1>8 DEF InsertStatsFails, BatchFails
    <2>5. NoUnreportedLoss'
      BY <2>1, <2>2, <2>4, <1>b, ReportedRuns, OpenRunsKept
      DEF NoUnreportedLoss, Reached
    <2> QED BY <2>3, <2>5 DEF BatchReached, MemoryAggregated
  <1>9. ASSUME NEW S \in SUBSET (batch \cap EventRuns), NEW full \in BOOLEAN,
               InsertEventsFails(S, full)
        PROVE  (NoUnreportedLoss /\ BatchReached /\ MemoryAggregated)'
    <2>1. UNCHANGED <<Queued, mem, stats>>
      BY <1>9 DEF InsertEventsFails, Queued
    <2>2. \A r \in Run : eventLog[r] > 0 => eventLog'[r] > 0
      BY <1>9, <1>a DEF InsertEventsFails, Insert
    <2>3. /\ writer = "insertEvents" /\ writer' # "truncate"
          /\ writer' = "insertEvents" => UNCHANGED <<batch, fate>>
      BY <1>9 DEF InsertEventsFails, Again, BatchFails, BatchEnds, Flush
    <2>4. \/ UNCHANGED <<batch, fate>>
          \/ batch' = {} /\ Meet(batch, "reported")
      BY <1>9 DEF InsertEventsFails, BatchFails
    <2>5. NoUnreportedLoss'
      BY <2>1, <2>2, <2>4, <1>b, ReportedRuns, OpenRunsKept
      DEF NoUnreportedLoss, Reached
    <2> QED BY <2>1, <2>3, <2>5, <1>b DEF BatchReached, MemoryAggregated, Reached
  <1>10. CASE Aggregate
    <2>1. UNCHANGED <<Queued, batch, mem, eventLog, fate>>
      BY <1>10 DEF Aggregate, Queued
    <2>2. \A r \in Run : /\ stats[r] > 0 => stats'[r] > 0
                         /\ mem[r] > 0 => stats'[r] > 0
      BY <1>10, <1>a DEF Aggregate, Aggregated
    <2>3. writer' = "truncate"
      BY <1>10 DEF Aggregate
    <2>4. NoUnreportedLoss'
      BY <2>1, <2>2, <1>b, OpenRunsKept DEF NoUnreportedLoss, Reached
    <2> QED BY <2>1, <2>2, <2>3, <2>4 DEF BatchReached, MemoryAggregated, InMemory
  <1>11. CASE Truncate
    <2>1. UNCHANGED <<Queued, stats, eventLog, fate>>
      BY <1>11 DEF Truncate, Queued
    <2>2. \A r \in Run : Reached(r) => stats[r] > 0
      BY <1>11, <1>b DEF Truncate, Succeeds, MemoryAggregated, InMemory, Reached
    <2>3. writer' \notin {"insertEvents", "truncate"} /\ UNCHANGED batch
      BY <1>11 DEF Truncate, FlushDone, BatchEnds, Flush
    <2>4. NoUnreportedLoss'
      BY <2>1, <2>2, <2>3, <1>b, OpenRunsKept DEF NoUnreportedLoss, Reached
    <2> QED BY <2>3, <2>4 DEF BatchReached, MemoryAggregated
  <1>12. ASSUME NEW applied \in BOOLEAN, NEW full \in BOOLEAN,
                AggregateFails(applied, full)
         PROVE  (NoUnreportedLoss /\ BatchReached /\ MemoryAggregated)'
    <2>1. UNCHANGED <<Queued, mem, eventLog>>
      BY <1>12 DEF AggregateFails, Queued
    <2>2. \A r \in Run : stats[r] > 0 => stats'[r] > 0
      BY <1>12, <1>a DEF AggregateFails, Aggregated
    <2>3. writer' \notin {"insertEvents", "truncate"}
      BY <1>12 DEF AggregateFails, Again, FlushRaised, BatchEnds, Flush
    <2>4. \/ UNCHANGED <<batch, fate>>
          \/ batch' = {} /\ Meet(batch, "reported")
      BY <1>12 DEF AggregateFails, FlushRaised
    <2>5. NoUnreportedLoss'
      BY <2>1, <2>2, <2>4, <1>b, ReportedRuns, OpenRunsKept
      DEF NoUnreportedLoss, Reached
    <2> QED BY <2>3, <2>5 DEF BatchReached, MemoryAggregated
  <1>13. ASSUME NEW applied \in BOOLEAN, TruncateFails(applied)
         PROVE  (NoUnreportedLoss /\ BatchReached /\ MemoryAggregated)'
    <2>1. UNCHANGED <<Queued, stats, eventLog>>
      BY <1>13 DEF TruncateFails, Queued
    <2>2. \A r \in Run : Reached(r) => stats[r] > 0
      BY <1>13, <1>b DEF TruncateFails, MemoryAggregated, InMemory, Reached
    <2>3. \A r \in Run : mem'[r] > 0 => mem[r] > 0
      BY <1>13, <1>a DEF TruncateFails, NoRows
    <2>4. writer' # "insertEvents"
      BY <1>13 DEF TruncateFails, Again, FlushRaised, BatchEnds, Flush
    <2>5. \/ UNCHANGED <<batch, fate>>
          \/ batch' = {} /\ Meet(batch, "reported")
      BY <1>13 DEF TruncateFails, FlushRaised
    <2>6. NoUnreportedLoss'
      BY <2>1, <2>2, <2>5, <1>b, ReportedRuns, OpenRunsKept
      DEF NoUnreportedLoss, Reached
    <2> QED
      BY <2>1, <2>2, <2>3, <2>4, <2>6
      DEF BatchReached, MemoryAggregated, InMemory, Reached
  <1>14. ASSUME NEW r \in Run, LogPluginRun(r)
         PROVE  (NoUnreportedLoss /\ BatchReached /\ MemoryAggregated)'
    <2>1. /\ fate[r] = "unlogged"
          /\ fate'[r] = IF HasRoom THEN "open" ELSE "dropped"
          /\ \A s \in Run \ {r} : fate'[s] = fate[s]
      BY <1>14 DEF LogPluginRun, TypeOK
    <2>2. UNCHANGED <<writer, batch, tables>>
      BY <1>14 DEF LogPluginRun
    <2>3. Queued \subseteq Queued' /\ (HasRoom => r \in Queued')
      <3>1. CASE HasRoom
        <4>1. queue' = Append(queue, r) /\ r # Wakeup
          BY <1>14, <3>1 DEF LogPluginRun, Run, Wakeup
        <4> QED BY <4>1, QueuedAfterAppend
      <3>2. CASE ~HasRoom
        BY <1>14, <3>2 DEF LogPluginRun, Queued
      <3> QED BY <3>1, <3>2
    <2>4. NoUnreportedLoss'
      BY <2>1, <2>2, <2>3, <1>b DEF NoUnreportedLoss, OnItsWay
    <2>5. \A s \in batch : fate'[s] = "open" => fate[s] = "open" \/ s = r
      BY <2>1, <1>a
    <2>6. r \notin batch
      BY <2>1 DEF CountInv, RowInv, UntouchedSoFar, OnItsWay
    <2> QED
      BY <2>2, <2>4, <2>5, <2>6, <1>b
      DEF BatchReached, MemoryAggregated, InMemory, Reached
  <1>15. CASE Shutdown
    <2>1. UNCHANGED Queued
      BY <1>15, QueuedAfterAppend DEF Shutdown, Queued
    <2>2. UNCHANGED <<writer, batch, tables, fate>>
      BY <1>15 DEF Shutdown
    <2> QED
      BY <2>1, <2>2, <1>b DEF NoUnreportedLoss, BatchReached, MemoryAggregated,
         InMemory, Reached, OnItsWay
  <1>17. CASE ProcessRestarts
    <2>1. writer' = "connect" /\ UNCHANGED tables
      BY <1>17 DEF ProcessRestarts
    <2>2. \A r \in Run : fate'[r] = "open" =>
              fate[r] = "open" /\ r \notin Queued \cup batch
      BY <1>17 DEF ProcessRestarts, Meet
    <2> QED
      BY <2>1, <2>2, <1>b
      DEF NoUnreportedLoss, BatchReached, MemoryAggregated, OnItsWay
  <1>18. CASE ServerRestarts
    <2>1. UNCHANGED <<Queued, batch, stats, eventLog, writer>>
      BY <1>18 DEF ServerRestarts, Queued
    <2>2. \A r \in Run : fate'[r] = "open" =>
              fate[r] = "open" /\ (Reached(r) => stats[r] > 0)
      BY <1>18, <1>a DEF ServerRestarts, Meet, InMemory, Reached
    <2>3. InMemory' = {}
      BY <1>18 DEF ServerRestarts, InMemory, NoRows
    <2>4. NoUnreportedLoss'
      BY <2>1, <2>2, <1>b, OpenRunsKept DEF NoUnreportedLoss, Reached
    <2> QED
      BY <2>1, <2>2, <2>3, <2>4, <1>a, <1>b
      DEF BatchReached, MemoryAggregated, Reached
  <1> QED
    BY <1>1, <1>2, <1>4, <1>6, <1>7, <1>8, <1>9, <1>10, <1>11, <1>12, <1>13,
       <1>14, <1>15, <1>17, <1>18
    DEF Next, WriterThread, WriteBatch, FlushToDisk

\* The inductive invariant: types, what a flush and a batch rely on, and that a run
\* is in one place only (DatabaseLogger).
THEOREM LoggerInvariant == Spec => []IInv
  <1>1. IInv <=> TypeOK /\ LossInv /\ CountInv
    BY DEF IInv, LossInv, CountInv, RowInv
  <1>2. Init => IInv
    BY <1>1, TypeInit, LossInit, CountInit
  <1>3. IInv /\ [Next]_vars => IInv'
    <2> SUFFICES ASSUME IInv, [Next]_vars PROVE IInv'
      OBVIOUS
    <2>1. TypeOK' /\ LossInv' /\ CountInv'
      BY <1>1, TypeStep, LossStep, CountStep
    <2> QED BY <2>1 DEF IInv, LossInv, CountInv, RowInv
  <1> QED BY <1>2, <1>3, PTL DEF Spec

\* A run that log_plugin_run accepted is queued, in the writer's batch, or in one of
\* the tables with its event row, unless it was reported or a process or server
\* ended with it.
THEOREM NoRunLostSilently == Spec => []NoUnreportedLoss
  <1>1. IInv => NoUnreportedLoss
    BY DEF IInv
  <1> QED BY LoggerInvariant, <1>1, PTL

\* Whatever is retried, recovered, flushed early or left over by an earlier process,
\* a run is counted once and its event row written once.  There are three exceptions:
\* the runs whose statistics a recovery repeats because their event rows met a full
\* table are counted twice at most (_recover_table_full, db_logger.py:556); and
\* nothing is said of the runs of which a failing statement had written rows, or
\* that stayed in the MEMORY table after they had been aggregated.
THEOREM DoublesAreExplained == Spec => []NoUnexplainedDouble
  <1>1. IInv => NoUnexplainedDouble
    BY DEF IInv
  <1> QED BY LoggerInvariant, <1>1, PTL

================================================================================
