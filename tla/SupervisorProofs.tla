------------------------- MODULE SupervisorProofs --------------------------
(***************************************************************************)
(* Theorems about Supervisor for every value of its constants: for any     *)
(* number of supervisors and of pids, and whatever the budgets of signals, *)
(* crashes and reloads are.                                                *)
(*                                                                         *)
(* SupInv is inductive. Its parts, in the order of this module: the types  *)
(* of the state; the budgets, which only shrink, so that a listing of the  *)
(* processes that is reliable now was reliable before; LockInv, who holds  *)
(* a supervisor's lock and at which step; and, from an account of what a   *)
(* step can do to the daemons, the parts that speak of them: PurgeInv, the *)
(* daemons left between the purge and the launch, and ReloadInv, those     *)
(* left after a reload was heeded. The four safety properties of the runs  *)
(* are read off it at the end.                                             *)
(***************************************************************************)
EXTENDS Supervisor, FiniteSetTheorems, TLAPS

USE SupervisorAssumption DEF vars

-----------------------------------------------------------------------------
(* Types *)

\* The records that processes, supervisors and operations start from.
LEMMA FreshRecords ==
    /\ Gone \in DaemonProcess /\ Idle \in Operation
    /\ \A st \in {"off", "checked", "up", "stopped", "dead"} : NoSup(st) \in SupProcess
<1> QED BY DEF Gone, Idle, NoSup, None, DaemonProcess, DaemonStates, Operation, SupProcess

\* Every way in which a step may change the daemon processes.
DaemonChange ==
    \/ daemon' = daemon
    \/ \E p \in Pid : \/ Exec(p) \/ Boot(p) \/ WritePid(p) \/ HandleTerm(p)
                      \/ Exit(p) \/ Die(p) \/ Crash(p) \/ FallSilent(p) \/ Resume(p)
    \/ \E T : SigTerm(T)
    \/ \E T : SigKill(T)
    \/ \E a \in Actors : PurgeList(a)
    \/ ManualStart
    \/ \E s \in Sups : Launch(s)

\* Every step is one of those changes.
LEMMA DaemonChanges ==
    ASSUME TypeOK, [Next]_vars
    PROVE  DaemonChange
<1>0. DOMAIN helper = Pid \cup {None}
  BY DEF TypeOK
<1>1. ASSUME NEW p \in Pid,
             \/ Exec(p) \/ Boot(p) \/ WritePid(p) \/ HandleTerm(p) \/ Exit(p) \/ Die(p)
                \/ Crash(p) \/ FallSilent(p) \/ Resume(p)
      PROVE  DaemonChange
  BY <1>1 DEF DaemonChange, Exec, Boot, WritePid, HandleTerm, Exit, Die, Crash,
     FallSilent, Resume
<1>2. ASSUME NEW r \in Sups, Launch(r)
      PROVE  DaemonChange
  BY <1>2 DEF DaemonChange, Launch
<1>3. ASSUME ManualStart
      PROVE  DaemonChange
  BY <1>3 DEF DaemonChange, ManualStart
<1>4. ASSUME NEW h \in Pid \cup {None}, HelperTerm(h)
      PROVE  DaemonChange
  BY <1>4 DEF DaemonChange, HelperTerm
<1>5. ASSUME NEW a \in Actors, PurgeList(a) \/ PurgeRead(a) \/ PurgeTerm(a)
      PROVE  DaemonChange
  BY <1>5 DEF DaemonChange, PurgeRead, PurgeTerm
<1>6. ASSUME NEW a \in Actors, PurgeKill(a)
      PROVE  DaemonChange
  BY <1>6 DEF DaemonChange, PurgeKill
<1>7. ASSUME NEW r \in Sups, StopRead(r)
      PROVE  DaemonChange
  BY <1>7 DEF DaemonChange, StopRead
<1>8. ASSUME NEW r \in Sups, StopKill(r)
      PROVE  DaemonChange
  BY <1>8 DEF DaemonChange, StopKill
<1>9. ASSUME NEW r \in Sups, HungKill(r)
      PROVE  DaemonChange
  BY <1>9 DEF DaemonChange, HungKill
<1>10. ASSUME NEW r \in Sups, DupEnd(r)
       PROVE  DaemonChange
  BY <1>10 DEF DaemonChange, DupEnd
<1>11. ASSUME NEW r \in Sups, WatchCheck(r)
       PROVE  DaemonChange
  BY <1>11 DEF WatchStart, DaemonChange, WatchCheck
<1>12. ASSUME NEW r \in Sups, WatchHung(r)
       PROVE  DaemonChange
  BY <1>12 DEF DaemonChange, WatchHung
<1>13. ASSUME NEW h \in Pid \cup {None},
              \/ HelperRead(h) \/ HelperEnd(h)
       PROVE  DaemonChange
  BY <1>13 DEF DaemonChange, HelperRead, HelperEnd
<1>14. ASSUME NEW r \in Sups,
              \/ SupUp(r) \/ MainReload(r) \/ MainLock(r) \/ MainLeave(r)
                 \/ MainExit(r) \/ PurgeSups(r) \/ StartReturns(r) \/ Confirmed(r)
                 \/ NotConfirmed(r) \/ Polled(r) \/ StopDone(r) \/ StopEnd(r)
                 \/ HungEnd(r) \/ BackoffOver(r) \/ StartTimeout(r) \/ SupStart(r)
                 \/ SupCrash(r)
       PROVE  DaemonChange
  BY <1>14 DEF DaemonChange, SupUp, MainReload, MainLock, MainLeave, MainExit,
     PurgeSups, StartReturns, Confirmed, NotConfirmed, Polled, StopDone, StopEnd,
     HungEnd, BackoffOver, StartTimeout, SupStart, SupCrash
<1>15. ASSUME NEW a \in Actors, PurgeEnd(a)
       PROVE  DaemonChange
  BY <1>15 DEF DaemonChange, PurgeEnd
<1>16. ASSUME NEW r \in Sups, NEW q \in Sups, MutualPurge(q, r)
       PROVE  DaemonChange
  BY <1>16 DEF DaemonChange, MutualPurge
<1>17. ASSUME \/ CliStart \/ CliTerm \/ CliGone \/ CliKill \/ ManualStop \/ Pull
       PROVE  DaemonChange
  BY <1>17 DEF DaemonChange, CliStart, CliTerm, CliGone, CliKill, ManualStop, Pull
<1>18. ASSUME UNCHANGED vars PROVE DaemonChange
  BY <1>18 DEF DaemonChange
<1> QED BY <1>1, <1>2, <1>3, <1>4, <1>5, <1>6, <1>7, <1>8, <1>9, <1>10, <1>11,
     <1>12, <1>13, <1>14, <1>15, <1>16, <1>17, <1>18, <1>0 DEF Next, DaemonStep,
     HelperStep, MainStep, LockedStep, PurgeStep, CliStep, Actors

\* A signal leaves the daemon processes what they are.
LEMMA SignalTypes ==
    ASSUME daemon \in [Pid -> DaemonProcess], NEW T, SigTerm(T) \/ SigKill(T)
    PROVE  daemon' \in [Pid -> DaemonProcess]
<1>1. ASSUME NEW p \in Pid, NEW st \in DaemonStates PROVE As(p, st) \in DaemonProcess
  BY FreshRecords DEF As, DaemonProcess
<1>2. CASE SigTerm(T)
  BY <1>1, <1>2, FreshRecords DEF SigTerm, DaemonStates
<1>3. CASE SigKill(T)
  BY <1>1, <1>3 DEF SigKill, DaemonStates
<1> QED BY <1>2, <1>3

\* The daemon processes keep their type.
LEMMA DaemonTypes ==
    ASSUME TypeOK, [Next]_vars
    PROVE  daemon' \in [Pid -> DaemonProcess]
<1> USE DEF TypeOK
<1>1. ASSUME NEW p \in Pid, NEW q \in Pid, NEW st \in DaemonStates
      PROVE  /\ As(p, st) \in DaemonProcess
             /\ [daemon[p] EXCEPT !.st = st] \in DaemonProcess
  BY FreshRecords DEF As, DaemonProcess
<1>7. ASSUME NEW x \in DaemonProcess, NEW b \in BOOLEAN
      PROVE  [x EXCEPT !.slipped = b] \in DaemonProcess
  BY DEF DaemonProcess
<1>2. ASSUME NEW p \in Pid,
             \/ WritePid(p) \/ HandleTerm(p) \/ Exit(p) \/ Die(p)
             \/ Crash(p) \/ FallSilent(p) \/ Resume(p)
      PROVE  daemon' \in [Pid -> DaemonProcess]
  <2>1. \/ daemon' = [daemon EXCEPT ![p] = Gone]
        \/ \E st \in DaemonStates : daemon' = [daemon EXCEPT ![p].st = st]
    BY <1>2 DEF WritePid, HandleTerm, Exit, Die, Crash, FallSilent, Resume, DaemonStates
  <2> QED BY <1>1, <2>1, FreshRecords
<1>3. ASSUME NEW p \in Pid, Boot(p)
      PROVE  daemon' \in [Pid -> DaemonProcess]
  <2>1. \/ daemon' = [daemon EXCEPT ![p] = Gone]
        \/ \E st \in DaemonStates : daemon' = [daemon EXCEPT ![p].st = st]
        \/ \E q \in Pid :
              daemon' = [daemon EXCEPT ![p] = Gone, ![q] = [As(p, "forked") EXCEPT
                            !.slipped = As(p, "forked").slipped \/ Slipping(p)]]
    BY <1>3 DEF Boot, DaemonStates
  <2>2. ASSUME NEW x \in DaemonProcess, NEW y \in DaemonProcess, NEW q \in Pid,
               daemon' = [daemon EXCEPT ![p] = x, ![q] = y]
        PROVE  daemon' \in [Pid -> DaemonProcess]
    BY <2>2
  <2>3. ASSUME NEW x \in DaemonProcess, daemon' = [daemon EXCEPT ![p] = x]
        PROVE  daemon' \in [Pid -> DaemonProcess]
    BY <2>3
  <2>4. [As(p, "forked") EXCEPT !.slipped = As(p, "forked").slipped \/ Slipping(p)]
            \in DaemonProcess
    <3>1. As(p, "forked") \in DaemonProcess
      BY <1>1 DEF DaemonStates
    <3>2. (As(p, "forked").slipped \/ Slipping(p)) \in BOOLEAN
      OBVIOUS
    <3> QED BY <1>7, <3>1, <3>2
  <2> QED BY <1>1, <2>1, <2>2, <2>3, <2>4, FreshRecords
<1>4. ASSUME NEW p \in Pid, NEW st \in {"sudo", "boot"}, NEW byHand \in BOOLEAN,
             Spawn(p, st, byHand)
      PROVE  daemon' \in [Pid -> DaemonProcess]
  BY <1>4 DEF Spawn, DaemonProcess, DaemonStates
<1>8. ASSUME NEW p \in Pid, Exec(p)
      PROVE  daemon' \in [Pid -> DaemonProcess]
  <2>1. ASSUME NEW x \in DaemonProcess
        PROVE  [x EXCEPT !.st = "boot", !.ver = pulls] \in DaemonProcess
    BY DEF DaemonProcess, DaemonStates
  <2>2. daemon' = [daemon EXCEPT ![p] = [daemon[p] EXCEPT !.st = "boot", !.ver = pulls]]
    BY <1>8 DEF Exec
  <2> HIDE DEF DaemonProcess
  <2> QED BY <2>1, <2>2
<1>9. ASSUME NEW a \in Actors, PurgeList(a)
      PROVE  daemon' \in [Pid -> DaemonProcess]
  <2>1. ASSUME NEW p \in Pid
        PROVE  [daemon[p] EXCEPT !.slipped =
                   daemon[p].slipped \/ (a \in Sups /\ St(p) = "sudo")] \in DaemonProcess
    <3>1. (daemon[p].slipped \/ (a \in Sups /\ St(p) = "sudo")) \in BOOLEAN
      OBVIOUS
    <3> QED BY <1>7, <3>1
  <2> QED BY <1>9, <2>1 DEF PurgeList
<1>5. ASSUME NEW s \in Sups, Launch(s)
      PROVE  daemon' \in [Pid -> DaemonProcess]
  BY <1>4, <1>5 DEF Launch
<1>6. CASE ManualStart
  BY <1>4, <1>6 DEF ManualStart
<1> QED BY <1>2, <1>3, <1>5, <1>6, <1>8, <1>9, SignalTypes, DaemonChanges
        DEF DaemonChange


\* The values of the fields of supervisors and operations.
SupStates == {"off", "checked", "up", "stopped", "dead"}
Mains == {"none", "first", "launching", "loop", "waiting", "leave", "exit"}
Pcs == {"idle", "purgeSups", "purge", "purgeRead", "purgeTerm", "purgeWait",
        "purgeKilled", "spawn", "launched", "confirm", "stopRead", "stopWait",
        "stopKilled", "stopEnd", "hungWait", "hungKilled", "dupWait", "backoff", "cliTerm", "cliKill"}
Goals == {"none", "launch", "reload", "stop", "cli"}
SupFn == [Sups -> SupProcess]
OpFn == [Actors -> Operation]

\* Supervisors with one field changed.
LEMMA SupFields ==
    ASSUME NEW x \in SupFn, NEW s \in Sups
    PROVE  /\ \A st \in SupStates : [x EXCEPT ![s].st = st] \in SupFn
           /\ \A m \in Mains : [x EXCEPT ![s].main = m] \in SupFn
           /\ \A b \in BOOLEAN : [x EXCEPT ![s].hup = b] \in SupFn
           /\ \A b \in BOOLEAN : [x EXCEPT ![s].stopping = b] \in SupFn
           /\ \A t \in Pid \cup {None} : [x EXCEPT ![s].tracked = t] \in SupFn
           /\ \A t \in Pid \cup {None} : [x EXCEPT ![s].handle = t] \in SupFn
<1>1. x[s] \in SupProcess
  BY DEF SupFn
<1>2. ASSUME NEW e \in SupProcess PROVE [x EXCEPT ![s] = e] \in SupFn
  BY DEF SupFn
<1>3. \A st \in SupStates : [x[s] EXCEPT !.st = st] \in SupProcess
  BY <1>1 DEF SupProcess, SupStates
<1>4. \A m \in Mains : [x[s] EXCEPT !.main = m] \in SupProcess
  BY <1>1 DEF SupProcess, Mains
<1>5. \A b \in BOOLEAN : [x[s] EXCEPT !.hup = b] \in SupProcess
  BY <1>1 DEF SupProcess
<1>6. \A b \in BOOLEAN : [x[s] EXCEPT !.stopping = b] \in SupProcess
  BY <1>1 DEF SupProcess
<1>7. \A t \in Pid \cup {None} : [x[s] EXCEPT !.tracked = t] \in SupProcess
  BY <1>1 DEF SupProcess
<1>8. \A t \in Pid \cup {None} : [x[s] EXCEPT !.handle = t] \in SupProcess
  BY <1>1 DEF SupProcess
<1> QED BY <1>2, <1>3, <1>4, <1>5, <1>6, <1>7, <1>8

\* Operations with one field changed.
LEMMA OpFields ==
    ASSUME NEW x \in OpFn, NEW a \in Actors
    PROVE  /\ \A e \in Operation : [x EXCEPT ![a] = e] \in OpFn
           /\ \A pc \in Pcs : [x EXCEPT ![a].pc = pc] \in OpFn
           /\ \A T \in SUBSET (Pid \cup Sups) : [x EXCEPT ![a].targets = T] \in OpFn
           /\ \A p \in Pid \cup {None} : [x EXCEPT ![a].pid = p] \in OpFn
           /\ \A b \in BOOLEAN : [x EXCEPT ![a].ok = b] \in OpFn
<1>1. x[a] \in Operation
  BY DEF OpFn
<1>2. ASSUME NEW e \in Operation PROVE [x EXCEPT ![a] = e] \in OpFn
  BY DEF OpFn
<1>3. \A pc \in Pcs : [x[a] EXCEPT !.pc = pc] \in Operation
  BY <1>1 DEF Operation, Pcs
<1>4. \A T \in SUBSET (Pid \cup Sups) : [x[a] EXCEPT !.targets = T] \in Operation
  BY <1>1 DEF Operation
<1>5. \A p \in Pid \cup {None} : [x[a] EXCEPT !.pid = p] \in Operation
  BY <1>1 DEF Operation
<1>6. \A b \in BOOLEAN : [x[a] EXCEPT !.ok = b] \in Operation
  BY <1>1 DEF Operation
<1> QED BY <1>2, <1>3, <1>4, <1>5, <1>6

\* The operations that an actor may begin with.
LEMMA NewOperations ==
    ASSUME NEW pc \in Pcs, NEW who \in {"main", "wd"}, NEW goal \in Goals,
           NEW T \in SUBSET (Pid \cup Sups), NEW p \in Pid \cup {None}
    PROVE  /\ [Idle EXCEPT !.pc = pc, !.who = who, !.goal = goal] \in Operation
           /\ [Idle EXCEPT !.pc = pc, !.who = who, !.pid = p, !.targets = T] \in Operation
           /\ [Idle EXCEPT !.pc = pc, !.goal = goal, !.targets = T] \in Operation
           /\ [Idle EXCEPT !.pc = pc, !.who = who, !.goal = goal, !.pid = p]
                 \in Operation
<1> USE DEF Idle, Operation, Pcs, Goals, None
<1>1. [Idle EXCEPT !.pc = pc, !.who = who, !.goal = goal] \in Operation
  OBVIOUS
<1>2. [Idle EXCEPT !.pc = pc, !.who = who, !.pid = p, !.targets = T] \in Operation
  OBVIOUS
<1>3. [Idle EXCEPT !.pc = pc, !.goal = goal, !.targets = T] \in Operation
  OBVIOUS
<1>4. [Idle EXCEPT !.pc = pc, !.who = who, !.goal = goal, !.pid = p] \in Operation
  OBVIOUS
<1> QED BY <1>1, <1>2, <1>3, <1>4

\* The supervisor processes keep their type.
LEMMA SupTypes ==
    ASSUME TypeOK, [Next]_vars
    PROVE  sup' \in SupFn
<1>0. DOMAIN helper = Pid \cup {None} /\ sup \in SupFn
  BY DEF TypeOK, SupFn
<1>1. ASSUME NEW s \in Sups
      PROVE  /\ sup[s].main \in Mains /\ s \in Actors
             /\ op[s].pid \in Pid \cup {None} /\ sup[s].tracked \in Pid \cup {None}
  BY DEF TypeOK, SupProcess, Mains, Actors, Operation
<1>2. ASSUME NEW K PROVE KilledSups(K) \in SupFn
  BY <1>0, FreshRecords DEF KilledSups, SupFn
<1>3. ASSUME NEW s \in Sups, NEW st \in SupStates
      PROVE  [sup EXCEPT ![s] = NoSup(st)] \in SupFn
  BY <1>0, FreshRecords DEF SupFn, SupStates
<1>4. pidfile \in Pid \cup {None}
  BY DEF TypeOK
<1>5. /\ \A m \in {"none", "first", "launching", "loop", "waiting", "leave", "exit"} :
             m \in Mains
      /\ \A st \in {"checked", "up", "stopped", "dead"} : st \in SupStates
  BY DEF Mains, SupStates
<1>6. ASSUME NEW r \in Sups, PurgeSups(r)
      PROVE  sup' \in SupFn
  <2>1. PICK K : sup' = [KilledSups(K) EXCEPT ![r].main =
                    IF @ = "first" THEN "launching" ELSE @]
    BY <1>5, <1>6 DEF PurgeSups
  <2>2. KilledSups(K) \in SupFn
    BY <1>2
  <2>3. KilledSups(K)[r].main \in Mains
    BY <2>2 DEF SupFn, SupProcess, Mains
  <2>4. PICK m \in Mains : sup' = [KilledSups(K) EXCEPT ![r].main = m]
    BY <1>5, <2>1, <2>3
  <2> QED BY <2>2, <2>4, SupFields
<1>7. ASSUME NEW r \in Sups, NEW q \in Sups, MutualPurge(q, r)
      PROVE  sup' \in SupFn
  BY <1>7, <1>0, <1>5, ZenonT(30), <1>2 DEF MutualPurge
<1>8. ASSUME NEW r \in Sups, SupCrash(r)
      PROVE  sup' \in SupFn
  BY <1>8, <1>0, <1>5, ZenonT(30), <1>2 DEF SupCrash
<1>9. ASSUME CliKill
      PROVE  sup' \in SupFn
  BY <1>9, <1>0, <1>5, ZenonT(30), <1>2 DEF CliKill
<1>10. ASSUME CliTerm
       PROVE  sup' \in SupFn
  <2>1. ASSUME NEW s, s \notin Sups, sup' = [sup EXCEPT ![s].stopping = TRUE]
        PROVE  sup' \in SupFn
    BY <1>0, <2>1 DEF SupFn
  <2>2. ASSUME NEW s \in Sups, sup' = [sup EXCEPT ![s].stopping = TRUE]
        PROVE  sup' \in SupFn
    BY <1>0, <2>2, SupFields
  <2>3. PICK s : sup' = [sup EXCEPT ![s].stopping = TRUE] \/ sup' = KilledSups({s})
    BY <1>5, <1>10 DEF CliTerm
  <2> QED BY <1>2, <2>1, <2>2, <2>3
<1>11. ASSUME NEW r \in Sups, Launch(r)
       PROVE  sup' \in SupFn
  <2>1. PICK t \in Pid \cup {None} : sup' = [sup EXCEPT ![r].handle = t]
    BY <1>5, <1>11 DEF Launch
  <2> QED BY <1>0, <2>1, SupFields
<1>12. ASSUME NEW r \in Sups, StartTimeout(r)
       PROVE  sup' \in SupFn
  BY <1>12, <1>0, <1>5, ZenonT(30), <1>3 DEF StartTimeout
<1>13. ASSUME NEW r \in Sups, MainExit(r)
       PROVE  sup' \in SupFn
  BY <1>13, <1>0, <1>5, ZenonT(30), <1>3 DEF MainExit
<1>14. ASSUME NEW r \in Sups, Confirmed(r)
       PROVE  sup' \in SupFn
  BY <1>14, <1>0, <1>5, ZenonT(30), <1>1, <1>4, SupFields DEF Launched, Confirmed
<1>15. ASSUME NEW r \in Sups, NotConfirmed(r)
       PROVE  sup' \in SupFn
  BY <1>15, <1>0, <1>5, ZenonT(30), <1>1, <1>4, SupFields DEF Launched, NotConfirmed
<1>16. ASSUME NEW r \in Sups, Polled(r)
       PROVE  sup' \in SupFn
  BY <1>16, <1>0, <1>5, ZenonT(30), <1>1, <1>4, SupFields DEF Launched, Polled
<1>17. ASSUME NEW r \in Sups, StopRead(r)
       PROVE  sup' \in SupFn
  <2>1. \/ sup' = sup
        \/ sup' = [sup EXCEPT ![r].tracked = None, ![r].handle = None]
    BY <1>5, <1>17 DEF StopRead
  <2> QED BY <1>0, <2>1, SupFields
<1>18. ASSUME NEW r \in Sups, StopDone(r)
       PROVE  sup' \in SupFn
  BY <1>18, <1>0, <1>5, ZenonT(30), SupFields DEF StopDone
<1>19. ASSUME NEW r \in Sups, HungEnd(r)
       PROVE  sup' \in SupFn
  BY <1>19, <1>0, <1>5, ZenonT(30), SupFields DEF HungEnd
<1>20. ASSUME NEW r \in Sups, StopEnd(r)
       PROVE  sup' \in SupFn
  <2>1. \/ sup' = sup
        \/ \E m \in Mains : sup' = [sup EXCEPT ![r].main = m]
    BY <1>5, <1>1, <1>20 DEF StopEnd
  <2> QED BY <1>0, <2>1, SupFields
<1>21. ASSUME NEW r \in Sups, SupUp(r)
       PROVE  sup' \in SupFn
  BY <1>21, <1>0, <1>5, ZenonT(30), SupFields DEF SupUp
<1>22. ASSUME NEW r \in Sups, MainReload(r)
       PROVE  sup' \in SupFn
  BY <1>22, <1>0, <1>5, ZenonT(30), SupFields DEF MainReload
<1>23. ASSUME NEW r \in Sups, MainLock(r)
       PROVE  sup' \in SupFn
  BY <1>23, <1>0, <1>5, ZenonT(30), SupFields DEF MainLock
<1>24. ASSUME NEW r \in Sups, MainLeave(r)
       PROVE  sup' \in SupFn
  BY <1>24, <1>0, <1>5, ZenonT(30), SupFields DEF MainLeave
<1>25. ASSUME NEW r \in Sups, SupStart(r)
       PROVE  sup' \in SupFn
  <2>1. \/ sup' = [sup EXCEPT ![r] = NoSup("dead")]
        \/ sup' = [sup EXCEPT ![r].st = "checked"]
    BY <1>5, <1>25 DEF SupStart, Start
  <2> QED BY <1>0, <1>3, <1>5, <2>1, SupFields
<1>26. ASSUME NEW r \in Sups, WatchCheck(r)
       PROVE  sup' \in SupFn
  <2>1. \/ sup' = sup
        \/ \E t \in Pid \cup {None} : sup' = [sup EXCEPT ![r].tracked = t]
    BY <1>4, <1>26 DEF WatchCheck, WatchStart
  <2> QED BY <1>0, <2>1, SupFields
<1>27. ASSUME NEW r \in Sups, WatchHung(r)
       PROVE  sup' \in SupFn
  <2>1. \/ sup' = sup
        \/ \E t \in Pid : sup' = [sup EXCEPT ![r].tracked = t]
    BY <1>5, <1>27 DEF WatchHung
  <2> QED BY <1>0, <2>1, SupFields
<1>28. ASSUME NEW r \in Sups, DupEnd(r)
       PROVE  sup' \in SupFn
  BY <1>28, <1>0, <1>5, ZenonT(30), <1>1, SupFields DEF DupEnd
<1>29. ASSUME Pull
       PROVE  sup' \in SupFn
  BY <1>29, <1>0, <1>5, ZenonT(30), SupFields DEF Pull
<1>30. ASSUME NEW p \in Pid,
              \/ Exec(p) \/ Boot(p) \/ WritePid(p) \/ HandleTerm(p) \/ Exit(p) \/ Die(p)
                 \/ Crash(p) \/ FallSilent(p) \/ Resume(p)
       PROVE  sup' \in SupFn
  BY <1>30, <1>0, <1>5 DEF Exec, Boot, WritePid, HandleTerm, Exit, Die, Crash, FallSilent,
     Resume
<1>31. ASSUME NEW h \in Pid \cup {None},
              \/ HelperRead(h) \/ HelperTerm(h) \/ HelperEnd(h)
       PROVE  sup' \in SupFn
  BY <1>31, <1>0, <1>5 DEF HelperRead, HelperTerm, HelperEnd
<1>32. ASSUME NEW r \in Sups,
              \/ StartReturns(r) \/ StopKill(r) \/ HungKill(r) \/ BackoffOver(r)
       PROVE  sup' \in SupFn
  BY <1>32, <1>0, <1>5 DEF StartReturns, StopKill, HungKill, BackoffOver
<1>33. ASSUME NEW a \in Actors,
              \/ PurgeList(a) \/ PurgeRead(a) \/ PurgeTerm(a) \/ PurgeKill(a)
                 \/ PurgeEnd(a)
       PROVE  sup' \in SupFn
  BY <1>33, <1>0, <1>5 DEF PurgeList, PurgeRead, PurgeTerm, PurgeKill, Goto, PurgeEnd
<1>34. ASSUME \/ CliStart \/ CliGone \/ ManualStart \/ ManualStop
       PROVE  sup' \in SupFn
  BY <1>34, <1>0, <1>5 DEF CliStart, CliGone, ManualStart, ManualStop
<1>35. ASSUME UNCHANGED vars PROVE sup' \in SupFn
  BY <1>35, <1>0, <1>5
<1> QED BY <1>6, <1>7, <1>8, <1>9, <1>10, <1>11, <1>12, <1>13, <1>14, <1>15, <1>16,
     <1>17, <1>18, <1>19, <1>20, <1>21, <1>22, <1>23, <1>24, <1>25, <1>26, <1>27,
     <1>28, <1>29, <1>30, <1>31, <1>32, <1>33, <1>34, <1>35, <1>0 DEF Next,
     DaemonStep, HelperStep, MainStep, LockedStep, PurgeStep, CliStep, Actors

\* The operations keep their type.
LEMMA OpTypes ==
    ASSUME TypeOK, [Next]_vars
    PROVE  op' \in OpFn
<1>0. DOMAIN helper = Pid \cup {None} /\ op \in OpFn /\ Idle \in Operation
  BY FreshRecords DEF TypeOK, OpFn
<1>1. ASSUME NEW K PROVE KilledOps(K) \in OpFn
  BY <1>0 DEF KilledOps, OpFn
<1>2. ASSUME NEW s \in Sups PROVE s \in Actors
  BY DEF Actors
<1>3. Cli \in Actors /\ pidfile \in Pid \cup {None} /\ supfile \in Sups \cup {None}
  BY DEF TypeOK, Actors
<1>4. \A pc \in {"purgeSups", "purge", "purgeRead", "purgeTerm", "purgeWait",
                 "purgeKilled", "spawn", "launched", "confirm", "stopRead", "stopWait",
                 "stopKilled", "stopEnd", "hungWait", "hungKilled", "dupWait", "backoff", "cliTerm",
                 "cliKill"} : pc \in Pcs
  BY DEF Pcs
<1>5. ASSUME NEW r \in Sups, PurgeSups(r)
      PROVE  op' \in OpFn
  <2>1. PICK K : \E pc \in Pcs : op' = [KilledOps(K) EXCEPT ![r].pc = pc]
    BY <1>4, <1>5 DEF PurgeSups
  <2>2. KilledOps(K) \in OpFn
    BY <1>1
  <2>3. PICK pc \in Pcs : op' = [KilledOps(K) EXCEPT ![r].pc = pc]
    BY <2>1
  <2> QED BY <1>2, <2>2, <2>3, OpFields
<1>6. ASSUME NEW r \in Sups, NEW q \in Sups, MutualPurge(q, r)
      PROVE  op' \in OpFn
  BY <1>6, <1>0, <1>4, ZenonT(30), <1>1 DEF MutualPurge
<1>7. ASSUME NEW r \in Sups, SupCrash(r)
      PROVE  op' \in OpFn
  BY <1>7, <1>0, <1>4, ZenonT(30), <1>1 DEF SupCrash
<1>8. ASSUME NEW r \in Sups, MainExit(r)
      PROVE  op' \in OpFn
  BY <1>8, <1>0, <1>4, ZenonT(30), <1>1 DEF MainExit
<1>9. ASSUME CliKill
      PROVE  op' \in OpFn
  BY <1>9, <1>0, <1>4, ZenonT(30), <1>1 DEF CliKill
<1>10. ASSUME NEW a \in Actors, PurgeList(a) \/ PurgeRead(a)
       PROVE  op' \in OpFn
  <2>1. op[a].targets \in SUBSET (Pid \cup Sups)
    BY <1>0 DEF OpFn, Operation
  <2>2. \E T \in SUBSET (Pid \cup Sups), pc \in Pcs :
            op' = [op EXCEPT ![a].pc = pc, ![a].targets = T]
    <3>1. CASE PurgeList(a)
      BY <1>4, <3>1 DEF PurgeList
    <3>2. CASE PurgeRead(a)
      BY <1>4, <2>1, <3>2 DEF PurgeRead, Alive
    <3> QED BY <1>10, <3>1, <3>2
  <2>3. PICK T \in SUBSET (Pid \cup Sups), pc \in Pcs :
            op' = [op EXCEPT ![a].pc = pc, ![a].targets = T]
    BY <2>2
  <2> QED BY <1>0, <2>3, OpFields
<1>39. ASSUME NEW a \in Actors, PurgeTerm(a)
       PROVE  op' \in OpFn
  BY <1>39, <1>0, <1>4, ZenonT(30), OpFields DEF Goto, PurgeTerm
<1>11. ASSUME NEW a \in Actors, PurgeKill(a)
       PROVE  op' \in OpFn
  BY <1>11, <1>0, <1>4, ZenonT(30), OpFields DEF Goto, PurgeKill
<1>12. ASSUME NEW a \in Actors, PurgeEnd(a)
       PROVE  op' \in OpFn
  BY <1>12, <1>0, <1>4, ZenonT(30), OpFields DEF PurgeEnd
<1>13. ASSUME NEW r \in Sups, Launch(r)
       PROVE  op' \in OpFn
  <2>1. PICK p \in Pid : op' = [op EXCEPT ![r].pc = "launched", ![r].pid = p]
    BY <1>4, <1>13 DEF Launch
  <2> QED BY <1>0, <1>2, <1>4, <2>1, OpFields
<1>14. ASSUME NEW r \in Sups, StopKill(r)
       PROVE  op' \in OpFn
  BY <1>14, <1>0, <1>4, ZenonT(30), <1>2, OpFields DEF Goto, Release, None, StopKill
<1>15. ASSUME NEW r \in Sups, HungKill(r)
       PROVE  op' \in OpFn
  BY <1>15, <1>0, <1>4, ZenonT(30), <1>2, OpFields DEF Goto, Release, None, HungKill
<1>16. ASSUME NEW r \in Sups, HungEnd(r)
       PROVE  op' \in OpFn
  BY <1>16, <1>0, <1>4, ZenonT(30), <1>2, OpFields DEF Goto, Release, None, HungEnd
<1>17. ASSUME NEW r \in Sups, BackoffOver(r)
       PROVE  op' \in OpFn
  <2>1. op' = [op EXCEPT ![r].pc = "purgeSups"] \/ op' = [op EXCEPT ![r] = Idle]
    BY <1>4, <1>17 DEF BackoffOver, Goto, Release
  <2> QED BY <1>0, <1>2, <1>4, <2>1, OpFields
<1>18. ASSUME NEW r \in Sups, StartReturns(r)
       PROVE  op' \in OpFn
  BY <1>18, <1>0, <1>4, ZenonT(30), <1>2, OpFields DEF Goto, Release, None,
     StartReturns
<1>19. ASSUME NEW r \in Sups, StartTimeout(r)
       PROVE  op' \in OpFn
  BY <1>19, <1>0, <1>4, ZenonT(30), <1>2, OpFields DEF Launched, Release,
     StartTimeout
<1>20. ASSUME NEW r \in Sups, Confirmed(r)
       PROVE  op' \in OpFn
  BY <1>20, <1>0, <1>4, ZenonT(30), <1>2, OpFields DEF Launched, Release, Confirmed
<1>21. ASSUME NEW r \in Sups, NotConfirmed(r)
       PROVE  op' \in OpFn
  BY <1>21, <1>0, <1>4, ZenonT(30), <1>2, OpFields DEF Launched, Release,
     NotConfirmed
<1>22. ASSUME NEW r \in Sups, Polled(r)
       PROVE  op' \in OpFn
  BY <1>22, <1>0, <1>4, ZenonT(30), <1>2, OpFields DEF Launched, Release, Polled
<1>23. ASSUME NEW r \in Sups, DupEnd(r)
       PROVE  op' \in OpFn
  BY <1>23, <1>0, <1>4, ZenonT(30), <1>2, OpFields DEF Launched, Release, DupEnd
<1>24. ASSUME NEW r \in Sups, StopRead(r)
       PROVE  op' \in OpFn
  <2>1. \/ op' = [op EXCEPT ![r].pc = "purge", ![r].ok = TRUE]
        \/ \E p \in Pid : op' = [op EXCEPT ![r].pc = "stopWait", ![r].pid = p]
    BY <1>4, <1>24 DEF StopRead, Alive
  <2> QED BY <1>0, <1>2, <1>4, <2>1, OpFields
<1>25. ASSUME NEW r \in Sups, StopDone(r)
       PROVE  op' \in OpFn
  BY <1>25, <1>0, <1>4, ZenonT(30), <1>2, OpFields DEF None, StopDone
<1>26. ASSUME NEW r \in Sups, StopEnd(r)
       PROVE  op' \in OpFn
  <2>1. \/ op' = [op EXCEPT ![r] = [Idle EXCEPT !.pc = "purgeSups", !.who = "main",
                                               !.goal = "launch"]]
        \/ op' = [op EXCEPT ![r] = Idle]
    BY <1>4, <1>26 DEF StopEnd, Begin, Release
  <2>2. [Idle EXCEPT !.pc = "purgeSups", !.who = "main", !.goal = "launch"] \in Operation
    BY NewOperations DEF Goals, Pcs
  <2> QED BY <1>0, <1>2, <2>1, <2>2, OpFields
<1>27. ASSUME NEW r \in Sups, SupUp(r)
       PROVE  op' \in OpFn
  BY <1>27, <1>0, <1>4, ZenonT(30), <1>2, OpFields, NewOperations DEF Goals, None,
     Begin, Release, SupUp
<1>28. ASSUME NEW r \in Sups, MainLock(r)
       PROVE  op' \in OpFn
  BY <1>28, <1>0, <1>4, ZenonT(30), <1>2, OpFields, NewOperations DEF Goals, None,
     Begin, Release, MainLock
<1>29. ASSUME NEW r \in Sups, MainLeave(r)
       PROVE  op' \in OpFn
  BY <1>29, <1>0, <1>4, ZenonT(30), <1>2, OpFields, NewOperations DEF Goals, None,
     Begin, Release, MainLeave
<1>30. ASSUME NEW r \in Sups, WatchCheck(r)
       PROVE  op' \in OpFn
  <2>1. ASSUME NEW p \in Pid, NEW T \in SUBSET Pid
        PROVE  [Idle EXCEPT !.pc = "dupWait", !.who = "wd", !.pid = p, !.targets = T]
                    \in Operation
    BY NewOperations DEF Goals, Pcs
  <2>2. [Idle EXCEPT !.pc = "backoff", !.who = "wd", !.goal = "launch"] \in Operation
    BY NewOperations DEF Goals, Pcs
  <2>3. \/ op' = op
        \/ op' = [op EXCEPT ![r] = [Idle EXCEPT !.pc = "backoff", !.who = "wd",
                                               !.goal = "launch"]]
        \/ \E p \in Pid, T \in SUBSET Pid :
              op' = [op EXCEPT ![r] = [Idle EXCEPT !.pc = "dupWait", !.who = "wd",
                                                   !.pid = p, !.targets = T]]
    BY <1>4, <1>30 DEF WatchCheck, WatchStart, Begin
  <2>4. \A e \in Operation : [op EXCEPT ![r] = e] \in OpFn
    BY <1>0, <1>2, OpFields
  <2> QED BY <1>0, <2>1, <2>2, <2>3, <2>4
<1>31. ASSUME NEW r \in Sups, WatchHung(r)
       PROVE  op' \in OpFn
  <2>1. PICK p \in Pid :
           op' = [op EXCEPT ![r] = [Idle EXCEPT !.pc = "hungWait", !.who = "wd",
                                                !.goal = "launch", !.pid = p]]
    BY <1>4, <1>31 DEF WatchHung
  <2>2. [Idle EXCEPT !.pc = "hungWait", !.who = "wd", !.goal = "launch", !.pid = p]
            \in Operation
    BY NewOperations, ZenonT(60) DEF Goals, Pcs
  <2> QED BY <1>0, <1>2, <2>1, <2>2, OpFields
<1>32. ASSUME CliStart
       PROVE  op' \in OpFn
  <2>1. \/ op' = [op EXCEPT ![Cli] = [Idle EXCEPT !.pc = "purge", !.who = "main",
                                               !.goal = "cli"]]
        \/ \E s \in Sups :
              op' = [op EXCEPT ![Cli] = [Idle EXCEPT !.pc = "cliTerm", !.goal = "cli",
                                                     !.targets = {s}]]
    BY <1>3, <1>32 DEF CliStart, Begin
  <2>2. [Idle EXCEPT !.pc = "purge", !.who = "main", !.goal = "cli"] \in Operation
    BY NewOperations DEF Goals, Pcs
  <2>3. ASSUME NEW s \in Sups
        PROVE  [Idle EXCEPT !.pc = "cliTerm", !.goal = "cli", !.targets = {s}]
                    \in Operation
    <3>1. {s} \in SUBSET (Pid \cup Sups)
      OBVIOUS
    <3> QED BY <3>1, NewOperations DEF Goals, Pcs
  <2>4. \A e \in Operation : [op EXCEPT ![Cli] = e] \in OpFn
    BY <1>0, <1>3, OpFields
  <2> QED BY <2>1, <2>2, <2>3, <2>4
<1>33. ASSUME CliGone
       PROVE  op' \in OpFn
  BY <1>33, <1>0, <1>4, ZenonT(30), <1>3, OpFields, NewOperations DEF Goals, None,
     Begin, CliGone
<1>34. ASSUME NEW p \in Pid,
              \/ Exec(p) \/ Boot(p) \/ WritePid(p) \/ HandleTerm(p) \/ Exit(p) \/ Die(p)
                 \/ Crash(p) \/ FallSilent(p) \/ Resume(p)
       PROVE  op' \in OpFn
  BY <1>34, <1>0, <1>4 DEF Exec, Boot, WritePid, HandleTerm, Exit, Die, Crash, FallSilent,
     Resume
<1>35. ASSUME NEW h \in Pid \cup {None},
              \/ HelperRead(h) \/ HelperTerm(h) \/ HelperEnd(h)
       PROVE  op' \in OpFn
  BY <1>35, <1>0, <1>4 DEF HelperRead, HelperTerm, HelperEnd
<1>36. ASSUME NEW r \in Sups,
              \/ MainReload(r) \/ SupStart(r)
       PROVE  op' \in OpFn
  BY <1>36, <1>0, <1>4 DEF MainReload, SupStart
<1>37. ASSUME \/ CliTerm \/ ManualStart \/ ManualStop \/ Pull
       PROVE  op' \in OpFn
  BY <1>37, <1>0, <1>4 DEF CliTerm, ManualStart, ManualStop, Pull
<1>38. ASSUME UNCHANGED vars PROVE op' \in OpFn
  BY <1>38, <1>0, <1>4
<1> QED BY <1>5, <1>6, <1>7, <1>8, <1>9, <1>10, <1>11, <1>12, <1>13, <1>14, <1>15,
     <1>16, <1>17, <1>18, <1>19, <1>20, <1>21, <1>22, <1>23, <1>24, <1>25, <1>26,
     <1>27, <1>28, <1>29, <1>30, <1>31, <1>32, <1>33, <1>34, <1>35, <1>36, <1>37,
     <1>38, <1>39, <1>0 DEF Next, DaemonStep, HelperStep, MainStep, LockedStep,
     PurgeStep, CliStep, Actors

\* The pid files keep their type.
LEMMA FileTypes ==
    ASSUME TypeOK, [Next]_vars
    PROVE  pidfile' \in Pid \cup {None} /\ supfile' \in Sups \cup {None}
<1> DEFINE Files == pidfile' \in Pid \cup {None} /\ supfile' \in Sups \cup {None}
<1>1. /\ DOMAIN helper = Pid \cup {None}
      /\ pidfile \in Pid \cup {None} /\ supfile \in Sups \cup {None}
      /\ \A s \in Sups : /\ op[s].pid \in Pid \cup {None}
                         /\ sup[s].tracked \in Pid \cup {None}
  BY DEF TypeOK, Actors, Operation, SupProcess
<1> HIDE DEF Files
<1>2. ASSUME NEW r \in Sups, WatchCheck(r)
      PROVE  Files
  BY <1>2, <1>1 DEF WatchStart, Files, WatchCheck
<1>3. ASSUME NEW r \in Sups, WatchHung(r)
      PROVE  Files
  BY <1>3, <1>1 DEF Files, WatchHung
<1>4. ASSUME NEW p \in Pid,
             \/ Exec(p) \/ Boot(p) \/ WritePid(p) \/ HandleTerm(p) \/ Exit(p) \/ Die(p)
                \/ Crash(p) \/ FallSilent(p) \/ Resume(p)
      PROVE  Files
  BY <1>4, <1>1 DEF Files, DelPid, DelSupPid, Start, Exec, Boot, WritePid, HandleTerm,
     Exit, Die, Crash, FallSilent, Resume
<1>5. ASSUME NEW h \in Pid \cup {None},
             \/ HelperRead(h) \/ HelperTerm(h) \/ HelperEnd(h)
      PROVE  Files
  BY <1>5, <1>1 DEF Files, DelPid, DelSupPid, Start, HelperRead, HelperTerm,
     HelperEnd
<1>6. ASSUME NEW r \in Sups,
             \/ SupUp(r) \/ MainReload(r) \/ MainLock(r) \/ MainLeave(r)
                \/ MainExit(r) \/ PurgeSups(r) \/ Launch(r) \/ StartReturns(r)
                \/ Confirmed(r) \/ NotConfirmed(r) \/ Polled(r) \/ StopRead(r)
                \/ StopKill(r) \/ StopDone(r) \/ StopEnd(r) \/ HungKill(r)
                \/ HungEnd(r) \/ DupEnd(r) \/ BackoffOver(r) \/ StartTimeout(r)
                \/ SupStart(r) \/ SupCrash(r)
      PROVE  Files
  BY <1>6, <1>1 DEF Files, DelPid, DelSupPid, Start, SupUp, MainReload, MainLock,
     MainLeave, MainExit, PurgeSups, Launch, StartReturns, Confirmed, NotConfirmed,
     Polled, StopRead, StopKill, StopDone, StopEnd, HungKill, HungEnd, DupEnd,
     BackoffOver, StartTimeout, SupStart, SupCrash
<1>7. ASSUME NEW a \in Actors,
             \/ PurgeList(a) \/ PurgeRead(a) \/ PurgeTerm(a) \/ PurgeKill(a)
                 \/ PurgeEnd(a)
      PROVE  Files
  BY <1>7, <1>1 DEF Files, DelPid, DelSupPid, Start, PurgeList, PurgeRead, PurgeTerm, PurgeKill, Goto, PurgeEnd
<1>8. ASSUME NEW r \in Sups, NEW q \in Sups, MutualPurge(q, r)
      PROVE  Files
  BY <1>8, <1>1 DEF Files, DelPid, DelSupPid, Start, MutualPurge
<1>9. ASSUME \/ CliStart \/ CliTerm \/ CliGone \/ CliKill \/ ManualStart
             \/ ManualStop \/ Pull
      PROVE  Files
  BY <1>9, <1>1 DEF Files, DelPid, DelSupPid, Start, CliStart, CliTerm, CliGone,
     CliKill, ManualStart, ManualStop, Pull
<1>10. ASSUME UNCHANGED vars PROVE Files
  BY <1>10, <1>1 DEF Files, DelPid, DelSupPid, Start
<1>11. Files
  BY <1>2, <1>3, <1>4, <1>5, <1>6, <1>7, <1>8, <1>9, <1>10, <1>1 DEF Next,
     DaemonStep, HelperStep, MainStep, LockedStep, PurgeStep, CliStep, Actors
<1> QED BY <1>11 DEF Files

\* The helpers keep their type.
LEMMA HelperTypes ==
    ASSUME TypeOK, [Next]_vars
    PROVE  helper' \in [Pid \cup {None} -> [pc : {"boot", "loop", "done"},
                                            target : Pid \cup {None}]]
<1> DEFINE HelperType == [pc : {"boot", "loop", "done"}, target : Pid \cup {None}]
           Helpers == helper' \in [Pid \cup {None} -> HelperType]
<1>1. /\ DOMAIN helper = Pid \cup {None} /\ helper \in [Pid \cup {None} -> HelperType]
      /\ pidfile \in Pid \cup {None} /\ NoHelper \in HelperType /\ None \in Pid \cup {None}
  BY DEF TypeOK, NoHelper
<1>2. ASSUME NEW h \in Pid \cup {None}, NEW e \in HelperType,
             helper' = [helper EXCEPT ![h] = e]
      PROVE  Helpers
  BY <1>1, <1>2
<1>3. ASSUME NEW h \in Pid \cup {None}, NEW pc \in {"boot", "loop", "done"},
             helper' = [helper EXCEPT ![h].pc = pc]
      PROVE  Helpers
  BY <1>1, <1>3
<1> HIDE DEF Helpers
<1>4. ASSUME NEW h \in Pid \cup {None}, HelperRead(h)
      PROVE  Helpers
  <2>1. [pc |-> "loop", target |-> pidfile] \in HelperType
    BY <1>1
  <2> HIDE DEF HelperType
  <2> QED BY <1>1, <1>2, <1>4, <2>1 DEF HelperRead
<1>5. ASSUME NEW h \in Pid \cup {None}, HelperEnd(h)
      PROVE  Helpers
  BY <1>5, <1>1, <1>2 DEF HelperEnd
<1>6. ASSUME ManualStop
      PROVE  Helpers
  BY <1>6, <1>1, <1>3 DEF ManualStop
<1>7. ASSUME NEW r \in Sups, StopRead(r)
      PROVE  Helpers
  <2>1. \A pid \in Pid : helper[pid].pc \in {"boot", "loop", "done"}
    BY <1>1
  <2>2. \/ helper' = helper
        \/ \E pid \in Pid, pc \in {"boot", "loop", "done"} :
              helper' = [helper EXCEPT ![pid].pc = pc]
    BY <2>1, <1>7 DEF StopRead, Alive
  <2> QED BY <1>1, <1>3, <2>2 DEF Helpers
<1>8. ASSUME NEW p \in Pid,
             \/ Exec(p) \/ Boot(p) \/ WritePid(p) \/ HandleTerm(p) \/ Exit(p) \/ Die(p)
                \/ Crash(p) \/ FallSilent(p) \/ Resume(p)
      PROVE  Helpers
  BY <1>8, <1>1 DEF Helpers, Exec, Boot, WritePid, HandleTerm, Exit, Die, Crash,
     FallSilent, Resume
<1>9. ASSUME NEW h \in Pid \cup {None}, HelperTerm(h)
      PROVE  Helpers
  BY <1>9, <1>1 DEF Helpers, HelperTerm
<1>10. ASSUME NEW r \in Sups,
              \/ SupUp(r) \/ MainReload(r) \/ MainLock(r) \/ MainLeave(r)
                 \/ MainExit(r) \/ PurgeSups(r) \/ Launch(r) \/ StartReturns(r)
                 \/ Confirmed(r) \/ NotConfirmed(r) \/ Polled(r) \/ StopKill(r)
                 \/ StopDone(r) \/ StopEnd(r) \/ HungKill(r) \/ HungEnd(r)
                 \/ DupEnd(r) \/ BackoffOver(r) \/ StartTimeout(r) \/ WatchCheck(r)
                 \/ WatchHung(r) \/ SupStart(r) \/ SupCrash(r)
       PROVE  Helpers
  BY <1>10, <1>1 DEF Helpers, SupUp, MainReload, MainLock, MainLeave, MainExit,
     PurgeSups, Launch, StartReturns, Confirmed, NotConfirmed, Polled, StopKill,
     StopDone, StopEnd, HungKill, HungEnd, DupEnd, BackoffOver, StartTimeout,
     WatchCheck, WatchHung, SupStart, SupCrash
<1>11. ASSUME NEW a \in Actors,
              \/ PurgeList(a) \/ PurgeRead(a) \/ PurgeTerm(a) \/ PurgeKill(a)
                 \/ PurgeEnd(a)
       PROVE  Helpers
  BY <1>11, <1>1 DEF Helpers, PurgeList, PurgeRead, PurgeTerm, PurgeKill, Goto, PurgeEnd
<1>12. ASSUME NEW r \in Sups, NEW q \in Sups, MutualPurge(q, r)
       PROVE  Helpers
  BY <1>12, <1>1 DEF Helpers, MutualPurge
<1>13. ASSUME \/ CliStart \/ CliTerm \/ CliGone \/ CliKill \/ ManualStart \/ Pull
       PROVE  Helpers
  BY <1>13, <1>1 DEF Helpers, CliStart, CliTerm, CliGone, CliKill, ManualStart, Pull
<1>14. ASSUME UNCHANGED vars PROVE Helpers
  BY <1>14, <1>1 DEF Helpers
<1>15. Helpers
  BY <1>4, <1>5, <1>6, <1>7, <1>8, <1>9, <1>10, <1>11, <1>12, <1>13,
     <1>14, <1>1 DEF Next, DaemonStep, HelperStep, MainStep, LockedStep, PurgeStep,
     CliStep, Actors
<1> QED BY <1>15 DEF Helpers

\* What a step takes from the bounds.
Kinds == {"faults", "ps", "starts", "kills", "stops", "pulls", "sups"}
BudgetUse ==
    /\ mode' = mode
    /\ saved' = saved \/ saved' = TRUE
    /\ \/ pulls' = pulls /\ UNCHANGED budget
       \/ pulls' = pulls /\ \E what \in Kinds \ {"pulls"} : Spend(what)
       \/ Pull

\* Every step spends at most one budget, or pulls new code.
LEMMA BudgetUses ==
    ASSUME TypeOK, [Next]_vars
    PROVE  BudgetUse
<1>1. DOMAIN helper = Pid \cup {None} /\ \A k \in Kinds \ {"pulls"} : k \in Kinds
  BY DEF TypeOK
<1>2. \A k \in {"faults", "ps", "starts", "kills", "stops", "sups"} :
          k \in Kinds \ {"pulls"}
  BY DEF Kinds
<1>3. ASSUME NEW r \in Sups, PurgeSups(r)
      PROVE  BudgetUse
  BY <1>3, <1>1, <1>2 DEF BudgetUse, PurgeSups
<1>4. ASSUME NEW a \in Actors, PurgeList(a)
      PROVE  BudgetUse
  BY <1>4, <1>1, <1>2 DEF BudgetUse, Ps, PurgeList
<1>5. ASSUME NEW r \in Sups, StopDone(r)
      PROVE  BudgetUse
  BY <1>5, <1>1, <1>2 DEF BudgetUse, HelperWaited, StopDone
<1>6. ASSUME NEW r \in Sups, StopEnd(r)
      PROVE  BudgetUse
  BY <1>6, <1>1, <1>2 DEF BudgetUse, Ps, StopEnd
<1>7. ASSUME NEW r \in Sups, WatchCheck(r)
      PROVE  BudgetUse
  BY <1>7, <1>1, <1>2 DEF BudgetUse, Ps, WatchCheck
<1>8. ASSUME CliKill
      PROVE  BudgetUse
  BY <1>8, <1>1, <1>2 DEF BudgetUse, CliKill
<1>9. ASSUME NEW r \in Sups, SupStart(r)
      PROVE  BudgetUse
  BY <1>9, <1>1, <1>2 DEF BudgetUse, SupStart
<1>10. ASSUME NEW r \in Sups, NotConfirmed(r)
       PROVE  BudgetUse
  BY <1>10, <1>1, <1>2 DEF BudgetUse, NotConfirmed
<1>11. ASSUME NEW p \in Pid,
              \/ Exec(p) \/ Boot(p) \/ WritePid(p) \/ HandleTerm(p) \/ Exit(p) \/ Die(p)
                 \/ Crash(p) \/ FallSilent(p) \/ Resume(p)
       PROVE  BudgetUse
  BY <1>11, <1>1, <1>2 DEF BudgetUse, Exec, Boot, WritePid, HandleTerm, Exit, Die, Crash,
     FallSilent, Resume
<1>12. ASSUME NEW h \in Pid \cup {None},
              \/ HelperRead(h) \/ HelperTerm(h) \/ HelperEnd(h)
       PROVE  BudgetUse
  BY <1>12, <1>1, <1>2 DEF BudgetUse, HelperRead, HelperTerm, HelperEnd
<1>13. ASSUME NEW r \in Sups,
              \/ SupUp(r) \/ MainReload(r) \/ MainLock(r) \/ MainLeave(r)
                 \/ MainExit(r) \/ Launch(r) \/ StartReturns(r) \/ Confirmed(r)
                 \/ Polled(r) \/ StopRead(r) \/ StopKill(r) \/ HungKill(r)
                 \/ HungEnd(r) \/ DupEnd(r) \/ BackoffOver(r) \/ StartTimeout(r)
                 \/ WatchHung(r) \/ SupCrash(r)
       PROVE  BudgetUse
  BY <1>13, <1>1, <1>2 DEF BudgetUse, SupUp, MainReload, MainLock, MainLeave,
     MainExit, Launch, StartReturns, Confirmed, Polled, StopRead, StopKill,
     HungKill, HungEnd, DupEnd, BackoffOver, StartTimeout, WatchHung, SupCrash
<1>14. ASSUME NEW a \in Actors,
              \/ PurgeRead(a) \/ PurgeTerm(a) \/ PurgeKill(a) \/ PurgeEnd(a)
       PROVE  BudgetUse
  BY <1>14, <1>1, <1>2 DEF BudgetUse, PurgeRead, PurgeTerm, PurgeKill, PurgeEnd
<1>15. ASSUME NEW r \in Sups, NEW q \in Sups, MutualPurge(q, r)
       PROVE  BudgetUse
  BY <1>15, <1>1, <1>2 DEF BudgetUse, MutualPurge
<1>16. ASSUME \/ CliStart \/ CliTerm \/ CliGone \/ ManualStart \/ ManualStop
              \/ Pull
       PROVE  BudgetUse
  BY <1>16, <1>1, <1>2 DEF BudgetUse, CliStart, CliTerm, CliGone, ManualStart,
     ManualStop, Pull
<1>17. ASSUME UNCHANGED vars PROVE BudgetUse
  BY <1>17, <1>1, <1>2 DEF BudgetUse
<1> QED BY <1>3, <1>4, <1>5, <1>6, <1>7, <1>8, <1>9, <1>10, <1>11, <1>12, <1>13,
     <1>14, <1>15, <1>16, <1>17, <1>1 DEF Next, DaemonStep, HelperStep, MainStep,
     LockedStep, PurgeStep, CliStep, Actors

\* The bounds count down: an update of the code costs one, and so does a call of ps
\* that fails.
LEMMA BudgetStep ==
    ASSUME TypeOK, BudgetInv, [Next]_vars
    PROVE  /\ budget' \in [Kinds \cup {"all"} -> Nat]
           /\ pulls' \in 0 .. MaxPulls /\ BudgetInv' /\ mode' = mode
           /\ PsReliable' => PsReliable
<1>1. budget \in [Kinds \cup {"all"} -> Nat] /\ pulls \in Nat
  BY DEF TypeOK, Kinds
<1>2. ASSUME NEW what \in Kinds, Spend(what)
      PROVE  /\ budget' \in [Kinds \cup {"all"} -> Nat]
             /\ budget'["ps"] =< budget["ps"]
             /\ budget'["pulls"] = budget["pulls"] - (IF what = "pulls" THEN 1 ELSE 0)
  BY <1>1, <1>2 DEF Spend, Kinds
<1>3. /\ budget["ps"] \in Nat /\ budget["pulls"] \in Nat
      /\ budget["pulls"] + pulls =< MaxPulls /\ budget["ps"] =< MaxPsFaults
  BY <1>1 DEF BudgetInv, Kinds
<1>8. mode' = mode
  BY BudgetUses DEF BudgetUse
<1>4. CASE pulls' = pulls /\ UNCHANGED budget
  BY <1>1, <1>3, <1>4, <1>8 DEF BudgetInv, PsReliable
<1>5. ASSUME NEW what \in Kinds \ {"pulls"}, pulls' = pulls, Spend(what)
      PROVE  BudgetInv' /\ pulls' \in 0 .. MaxPulls /\ (PsReliable' => PsReliable)
  <2>1. /\ budget'["ps"] =< budget["ps"] /\ budget'["pulls"] = budget["pulls"]
        /\ budget'["ps"] \in Nat
    BY <1>2, <1>3, <1>5 DEF Kinds
  <2> QED BY <1>1, <1>3, <1>5, <2>1 DEF BudgetInv, PsReliable
<1>6. ASSUME pulls' = pulls + 1, Spend("pulls")
      PROVE  BudgetInv' /\ pulls' \in 0 .. MaxPulls /\ (PsReliable' => PsReliable)
  <2>1. /\ budget'["ps"] =< budget["ps"] /\ budget'["pulls"] = budget["pulls"] - 1
        /\ budget'["ps"] \in Nat /\ budget'["pulls"] \in Nat
    BY <1>2, <1>3, <1>6 DEF Kinds
  <2> QED BY <1>1, <1>3, <1>6, <2>1 DEF BudgetInv, PsReliable
<1>7. "pulls" \in Kinds
  BY DEF Kinds
<1> QED BY <1>2, <1>4, <1>5, <1>6, <1>7, <1>8, BudgetUses DEF BudgetUse, Pull

\* Every step keeps the types.
LEMMA Types ==
    ASSUME TypeOK, BudgetInv, [Next]_vars
    PROVE  TypeOK'
<1>1. budget' \in [{"faults", "ps", "starts", "kills", "stops", "pulls", "sups",
                    "all"} -> Nat]
  BY BudgetStep DEF Kinds
<1>2. saved' \in BOOLEAN
  BY BudgetUses DEF BudgetUse, TypeOK
<1> QED BY <1>1, <1>2, DaemonTypes, FileTypes, SupTypes, OpTypes, HelperTypes,
        BudgetStep DEF TypeOK, SupFn, OpFn


-----------------------------------------------------------------------------
(* Who holds the lock of a supervisor, and where *)

\* The part of LockInv that says nothing about daemons, for one supervisor.
Locked(s) ==
    /\ Pc(s) # "idle" => sup[s].st = "up"
    /\ sup[s].main # "none" => sup[s].st = "up"
    /\ sup[s].main = "first" => Pc(s) = "purgeSups"
    /\ sup[s].main = "exit" => Pc(s) = "idle" /\ sup[s].stopping
    /\ op[s].goal = "stop" => Pc(s) # "idle" /\ sup[s].stopping

\* Where a purge is between its listing and its SIGKILL.
Purging == {"purgeRead", "purgeTerm", "purgeWait"}

\* A purge in progress forgets nothing that it has listed.
PurgesOn(s) ==
    /\ Pc(s) \in Purging /\ op'[s].pc \in Purging
    /\ op[s].targets \subseteq op'[s].targets

\* By which steps supervisor s gets to the places that the invariants speak of.
Entered(s) ==
    /\ op'[s].pc \in Purging => PurgeList(s) \/ PurgesOn(s)
    /\ op'[s].pc = "purgeWait" =>
          \/ Pc(s) = "purgeWait" /\ op'[s].targets = op[s].targets
          \/ PurgeTerm(s)
    /\ op'[s].pc = "purgeKilled" => Pc(s) = "purgeKilled" \/ PurgeKill(s)
    /\ op'[s].pc \in {"stopEnd", "spawn"} => op'[s].pc = Pc(s) \/ PurgeEnd(s)
    /\ sup'[s].main = "exit" => sup[s].main = "exit" \/ Pc(s) = "stopEnd"
    /\ sup'[s].st = "stopped" => sup[s].st = "stopped" \/ sup[s].main = "exit"
    /\ sup'[s].st = "off" => sup[s].st = "off"
    /\ Active(s)' => Active(s) \/ PurgeSups(s)
    /\ /\ sup'[s].main \in {"launching", "loop"} /\ ~sup'[s].hup
       /\ op'[s].pc \in SettledPcs \cup Purging
       => /\ sup[s].main \in {"launching", "loop"} /\ ~sup[s].hup
          /\ \/ PurgeList(s) \/ PurgeKill(s) \/ PurgeEnd(s)
             \/ Pc(s) \in SettledPcs /\ op'[s].pc \in SettledPcs
             \/ PurgesOn(s)

\* What a step keeps of supervisor s.
Controlled(s) == Locked(s)' /\ Entered(s)

\* Every step leaves the lock of every supervisor in order, and no supervisor gets
\* to one of those places by another step.
LEMMA Control ==
    ASSUME TypeOK, LockInv, [Next]_vars, NEW s \in Sups
    PROVE  Controlled(s)
<1>1. /\ DOMAIN helper = Pid \cup {None} /\ s \in Actors /\ Cli \in Actors
      /\ op \in OpFn /\ sup \in SupFn /\ Sups \subseteq Actors /\ s # Cli
  BY DEF TypeOK, OpFn, SupFn, Actors
<1>2. Locked(s)
  BY DEF LockInv, Locked
<1> USE DEF Controlled, Locked, Entered, Purging, PurgesOn, Active, SettledPcs, Pc, OpFn, SupFn, Operation,
            SupProcess, Idle, NoSup
<1>3. ASSUME NEW r \in Sups, PurgeSups(r)
      PROVE  Controlled(s)
  <2>1. PICK K \in {{q \in Sups \ {r} : SupAlive(q)}, {}} :
           /\ sup' = [KilledSups(K) EXCEPT ![r].main =
                        IF KilledSups(K)[r].main = "first" THEN "launching"
                        ELSE KilledSups(K)[r].main]
           /\ op' = [KilledOps(K) EXCEPT ![r].pc =
                        IF op[r].goal = "launch" THEN "purge" ELSE "stopRead"]
    BY <1>3 DEF PurgeSups
  <2>2. Pc(r) = "purgeSups" /\ r \notin K /\ sup[r].st = "up"
    BY <1>3, <2>1 DEF PurgeSups, LockInv
  <2>3. CASE s = r
    <3>1. /\ op'[s] = [op[s] EXCEPT !.pc = IF op[s].goal = "launch" THEN "purge"
                                           ELSE "stopRead"]
          /\ sup'[s] = [sup[s] EXCEPT !.main = IF sup[s].main = "first" THEN "launching"
                                               ELSE sup[s].main]
      BY <1>1, <2>1, <2>2, <2>3 DEF KilledSups, KilledOps
    <3>2. PurgeSups(s)
      BY <1>3, <2>3
    <3>3. op[s] \in Operation /\ sup[s] \in SupProcess
      BY <1>1
    <3> QED BY <1>2, <2>2, <2>3, <3>1, <3>2, <3>3
  <2>4. CASE s # r
    <3>1. \/ op'[s] = op[s] /\ sup'[s] = sup[s]
          \/ op'[s] = Idle /\ sup'[s] = NoSup("dead")
      BY <1>1, <2>1, <2>4 DEF KilledSups, KilledOps
    <3> QED BY <1>2, <3>1
  <2> QED BY <2>3, <2>4
<1>4. ASSUME NEW r \in Sups, NEW q \in Sups, MutualPurge(q, r)
      PROVE  Controlled(s)
  BY <1>4, <1>1, <1>2 DEF KilledSups, KilledOps, MutualPurge
<1>5. ASSUME NEW a \in Actors, PurgeTerm(a)
      PROVE  Controlled(s)
  <2>1. /\ Pc(a) = "purgeTerm" /\ UNCHANGED sup
        /\ op' = [op EXCEPT ![a].pc = "purgeWait"]
    BY <1>5 DEF PurgeTerm, Goto
  <2>2. CASE s = a
    <3>1. PurgeTerm(s)
      BY <1>5, <2>2
    <3>2. /\ op'[s].pc = "purgeWait" /\ op'[s].goal = op[s].goal
          /\ op'[s].targets = op[s].targets
          /\ Pc(s) = "purgeTerm" /\ sup'[s] = sup[s]
      BY <1>1, <2>1, <2>2
    <3> QED BY <1>2, <3>1, <3>2
  <2>3. CASE s # a
    <3>1. op'[s] = op[s] /\ sup'[s] = sup[s]
      BY <1>1, <2>1, <2>3
    <3> QED BY <1>2, <3>1
  <2> QED BY <2>2, <2>3
<1>40. ASSUME NEW a \in Actors, PurgeList(a)
       PROVE  Controlled(s)
  <2>1. /\ Pc(a) = "purge" /\ UNCHANGED sup
        /\ \E T : op' = [op EXCEPT ![a].pc = "purgeRead", ![a].targets = T]
    BY <1>40 DEF PurgeList
  <2>2. CASE s = a
    <3>1. PurgeList(s)
      BY <1>40, <2>2
    <3>2. PICK T : op' = [op EXCEPT ![s].pc = "purgeRead", ![s].targets = T]
      BY <2>1, <2>2
    <3>3. /\ op'[s].pc = "purgeRead" /\ op'[s].goal = op[s].goal /\ Pc(s) = "purge"
          /\ sup'[s] = sup[s]
      BY <1>1, <2>1, <2>2, <3>2
    <3> QED BY <1>2, <3>1, <3>3
  <2>3. CASE s # a
    <3>1. op'[s] = op[s] /\ sup'[s] = sup[s]
      BY <1>1, <2>1, <2>3
    <3> QED BY <1>2, <3>1
  <2> QED BY <2>2, <2>3
<1>41. ASSUME NEW a \in Actors, PurgeRead(a)
       PROVE  Controlled(s)
  <2>1. /\ Pc(a) = "purgeRead" /\ UNCHANGED sup
        /\ \E T : /\ op' = [op EXCEPT ![a].pc = "purgeTerm", ![a].targets = T]
                  /\ op[a].targets \subseteq T
    BY <1>41 DEF PurgeRead
  <2>2. CASE s = a
    <3>1. PICK T : /\ op' = [op EXCEPT ![s].pc = "purgeTerm", ![s].targets = T]
                   /\ op[s].targets \subseteq T
      BY <2>1, <2>2
    <3>2. /\ op'[s].pc = "purgeTerm" /\ op'[s].goal = op[s].goal
          /\ op'[s].targets = T /\ Pc(s) = "purgeRead" /\ sup'[s] = sup[s]
      BY <1>1, <2>1, <2>2, <3>1
    <3> QED BY <1>2, <3>1, <3>2
  <2>3. CASE s # a
    <3>1. op'[s] = op[s] /\ sup'[s] = sup[s]
      BY <1>1, <2>1, <2>3
    <3> QED BY <1>2, <3>1
  <2> QED BY <2>2, <2>3
<1>6. ASSUME NEW a \in Actors, PurgeKill(a)
      PROVE  Controlled(s)
  <2>1. /\ Pc(a) = "purgeWait" /\ UNCHANGED sup
        /\ op' = [op EXCEPT ![a].pc = "purgeKilled"]
    BY <1>6 DEF PurgeKill, Goto
  <2>2. CASE s = a
    <3>1. PurgeKill(s)
      BY <1>6, <2>2
    <3>2. /\ op'[s].pc = "purgeKilled" /\ op'[s].goal = op[s].goal
          /\ Pc(s) = "purgeWait" /\ sup'[s] = sup[s]
      BY <1>1, <2>1, <2>2
    <3> QED BY <1>2, <3>1, <3>2
  <2>3. CASE s # a
    <3>1. op'[s] = op[s] /\ sup'[s] = sup[s]
      BY <1>1, <2>1, <2>3
    <3> QED BY <1>2, <3>1
  <2> QED BY <2>2, <2>3
<1>7. ASSUME NEW a \in Actors, PurgeEnd(a)
      PROVE  Controlled(s)
  BY <1>7, <1>1, <1>2 DEF PurgeEnd
<1>8. ASSUME NEW r \in Sups, Launch(r)
      PROVE  Controlled(s)
  BY <1>8, <1>1, <1>2 DEF Launch
<1>9. ASSUME NEW r \in Sups, StartReturns(r)
      PROVE  Controlled(s)
  BY <1>9, <1>1, <1>2 DEF StartReturns
<1>10. ASSUME NEW r \in Sups, StartTimeout(r)
       PROVE  Controlled(s)
  BY <1>10, <1>1, <1>2 DEF Release, StartTimeout
<1>11. ASSUME NEW r \in Sups, Confirmed(r)
       PROVE  Controlled(s)
  BY <1>11, <1>1, <1>2 DEF Launched, Release, Confirmed
<1>12. ASSUME NEW r \in Sups, NotConfirmed(r)
       PROVE  Controlled(s)
  BY <1>12, <1>1, <1>2 DEF Launched, Release, NotConfirmed
<1>13. ASSUME NEW r \in Sups, Polled(r)
       PROVE  Controlled(s)
  BY <1>13, <1>1, <1>2 DEF Launched, Release, Polled
<1>14. ASSUME NEW r \in Sups, StopRead(r)
       PROVE  Controlled(s)
  <2>1. \/ /\ sup' = [sup EXCEPT ![r].tracked = None, ![r].handle = None]
           /\ op' = [op EXCEPT ![r].pc = "purge", ![r].ok = TRUE]
        \/ /\ UNCHANGED sup
           /\ \E p : op' = [op EXCEPT ![r].pc = "stopWait", ![r].pid = p]
    BY <1>14 DEF StopRead
  <2>2. Pc(r) = "stopRead"
    BY <1>14 DEF StopRead
  <2>3. CASE /\ sup' = [sup EXCEPT ![r].tracked = None, ![r].handle = None]
             /\ op' = [op EXCEPT ![r].pc = "purge", ![r].ok = TRUE]
    BY <1>1, <1>2, <2>2, <2>3
  <2>4. ASSUME NEW p, UNCHANGED sup,
               op' = [op EXCEPT ![r].pc = "stopWait", ![r].pid = p]
        PROVE  Controlled(s)
    BY <1>1, <1>2, <2>2, <2>4
  <2> QED BY <2>1, <2>3, <2>4
<1>15. ASSUME NEW r \in Sups, StopKill(r)
       PROVE  Controlled(s)
  BY <1>15, <1>1, <1>2 DEF Goto, StopKill
<1>16. ASSUME NEW r \in Sups, StopDone(r)
       PROVE  Controlled(s)
  BY <1>16, <1>1, <1>2 DEF StopDone
<1>17. ASSUME NEW r \in Sups, StopEnd(r)
       PROVE  Controlled(s)
  <2>1. /\ Pc(r) = "stopEnd"
        /\ \/ /\ op' = [op EXCEPT ![r] = [Idle EXCEPT !.pc = "purgeSups",
                                              !.who = "main", !.goal = "launch"]]
              /\ UNCHANGED sup
           \/ /\ op' = [op EXCEPT ![r] = Idle]
              /\ sup' = [sup EXCEPT ![r].main = IF op[r].goal = "stop" THEN "exit" ELSE @]
    BY <1>17 DEF StopEnd, Begin, Release
  <2>2. CASE s = r
    <3>1. CASE /\ op' = [op EXCEPT ![r] = [Idle EXCEPT !.pc = "purgeSups",
                                              !.who = "main", !.goal = "launch"]]
               /\ UNCHANGED sup
      BY <1>1, <1>2, <2>1, <2>2, <3>1
    <3>2. CASE /\ op' = [op EXCEPT ![r] = Idle]
               /\ sup' = [sup EXCEPT ![r].main = IF op[r].goal = "stop" THEN "exit" ELSE @]
      BY <1>1, <1>2, <2>1, <2>2, <3>2
    <3> QED BY <2>1, <3>1, <3>2
  <2>3. CASE s # r
    <3>1. op'[s] = op[s] /\ sup'[s] = sup[s]
      BY <1>1, <2>1, <2>3
    <3> QED BY <1>2, <3>1
  <2> QED BY <2>2, <2>3
<1>18. ASSUME NEW r \in Sups, SupUp(r)
       PROVE  Controlled(s)
  BY <1>18, <1>1, <1>2 DEF Begin, SupUp
<1>19. ASSUME NEW r \in Sups, MainReload(r)
       PROVE  Controlled(s)
  BY <1>19, <1>1, <1>2 DEF MainReload
<1>20. ASSUME NEW r \in Sups, MainLock(r)
       PROVE  Controlled(s)
  BY <1>20, <1>1, <1>2 DEF Begin, MainLock
<1>21. ASSUME NEW r \in Sups, MainLeave(r)
       PROVE  Controlled(s)
  BY <1>21, <1>1, <1>2 DEF Begin, MainLeave
<1>22. ASSUME NEW r \in Sups, MainExit(r)
       PROVE  Controlled(s)
  BY <1>22, <1>1, <1>2 DEF KilledOps, MainExit
<1>23. ASSUME NEW r \in Sups, SupStart(r)
       PROVE  Controlled(s)
  <2>1. /\ sup[r].st = "off" /\ UNCHANGED op
        /\ \/ sup' = [sup EXCEPT ![r] = NoSup("dead")]
           \/ sup' = [sup EXCEPT ![r].st = "checked"]
    BY <1>23 DEF SupStart, Start
  <2>2. CASE s = r
    <3>1. CASE sup' = [sup EXCEPT ![r] = NoSup("dead")]
      BY <1>1, <1>2, <2>1, <2>2, <3>1
    <3>2. CASE sup' = [sup EXCEPT ![r].st = "checked"]
      BY <1>1, <1>2, <2>1, <2>2, <3>2
    <3> QED BY <2>1, <3>1, <3>2
  <2>3. CASE s # r
    <3>1. op'[s] = op[s] /\ sup'[s] = sup[s]
      BY <1>1, <2>1, <2>3
    <3> QED BY <1>2, <3>1
  <2> QED BY <2>2, <2>3
<1>24. ASSUME NEW r \in Sups, SupCrash(r)
       PROVE  Controlled(s)
  BY <1>24, <1>1, <1>2 DEF KilledSups, KilledOps, SupAlive, SupCrash
<1>25. ASSUME NEW r \in Sups, WatchCheck(r)
       PROVE  Controlled(s)
  <2>1. /\ sup[r].main \in {"loop", "waiting", "leave", "exit"} /\ Pc(r) = "idle"
        /\ ~sup[r].stopping /\ ~sup[r].hup
        /\ UNCHANGED sup \/ \E t : sup' = [sup EXCEPT ![r].tracked = t]
        /\ \/ UNCHANGED op
           \/ op' = [op EXCEPT ![r] = [Idle EXCEPT !.pc = "backoff", !.who = "wd",
                                                   !.goal = "launch"]]
           \/ \E p, T : op' = [op EXCEPT ![r] = [Idle EXCEPT !.pc = "dupWait",
                                              !.who = "wd", !.pid = p, !.targets = T]]
    BY <1>25 DEF WatchCheck, WatchdogTurn, WatchStart, Begin
  <2>2. CASE s = r
    <3>1. /\ sup'[s].st = sup[s].st /\ sup'[s].main = sup[s].main
          /\ sup'[s].hup = sup[s].hup /\ sup'[s].stopping = sup[s].stopping
      <4>1. CASE UNCHANGED sup
        BY <4>1
      <4>2. ASSUME NEW t, sup' = [sup EXCEPT ![s].tracked = t]
            PROVE  /\ sup'[s].st = sup[s].st /\ sup'[s].main = sup[s].main
                   /\ sup'[s].hup = sup[s].hup /\ sup'[s].stopping = sup[s].stopping
        <5>1. sup'[s] = [sup[s] EXCEPT !.tracked = t]
          BY <1>1, <4>2
        <5>2. sup[s] \in SupProcess
          BY <1>1
        <5> QED BY <5>1, <5>2
      <4> QED BY <2>1, <2>2, <4>1, <4>2
    <3>2. CASE UNCHANGED op
      BY <1>2, <2>1, <2>2, <3>1, <3>2
    <3>3. CASE op' = [op EXCEPT ![r] = [Idle EXCEPT !.pc = "backoff", !.who = "wd",
                                                    !.goal = "launch"]]
      <4>1. op'[s].pc = "backoff" /\ op'[s].goal = "launch"
        BY <1>1, <2>2, <3>3
      <4> QED BY <1>2, <2>1, <2>2, <3>1, <4>1
    <3>4. ASSUME NEW p, NEW T,
                 op' = [op EXCEPT ![r] = [Idle EXCEPT !.pc = "dupWait", !.who = "wd",
                                                      !.pid = p, !.targets = T]]
          PROVE  Controlled(s)
      <4>1. op'[s].pc = "dupWait" /\ op'[s].goal = "none"
        BY <1>1, <2>2, <3>4
      <4> QED BY <1>2, <2>1, <2>2, <3>1, <4>1
    <3> QED BY <2>1, <3>2, <3>3, <3>4
  <2>3. CASE s # r
    <3>1. op'[s] = op[s] /\ sup'[s] = sup[s]
      BY <1>1, <2>1, <2>3
    <3> QED BY <1>2, <3>1
  <2> QED BY <2>2, <2>3
<1>26. ASSUME NEW r \in Sups, WatchHung(r)
       PROVE  Controlled(s)
  BY <1>26, <1>1, <1>2 DEF WatchdogTurn, WatchHung
<1>27. ASSUME NEW r \in Sups, HungKill(r)
       PROVE  Controlled(s)
  BY <1>27, <1>1, <1>2 DEF Goto, HungKill
<1>28. ASSUME NEW r \in Sups, HungEnd(r)
       PROVE  Controlled(s)
  BY <1>28, <1>1, <1>2 DEF HungEnd
<1>29. ASSUME NEW r \in Sups, DupEnd(r)
       PROVE  Controlled(s)
  BY <1>29, <1>1, <1>2 DEF Release, DupEnd
<1>30. ASSUME NEW r \in Sups, BackoffOver(r)
       PROVE  Controlled(s)
  BY <1>30, <1>1, <1>2 DEF Goto, Release, BackoffOver
<1>31. ASSUME CliStart
       PROVE  Controlled(s)
  BY <1>31, <1>1, <1>2 DEF Begin, CliStart
<1>32. ASSUME CliTerm
       PROVE  Controlled(s)
  <2>1. PICK r : /\ UNCHANGED op
                 /\ \/ sup' = [sup EXCEPT ![r].stopping = TRUE]
                    \/ sup' = KilledSups({r}) /\ sup[r].st = "checked"
    BY <1>32 DEF CliTerm
  <2>2. op'[s] = op[s] /\ sup[s] \in SupProcess
    BY <1>1, <2>1
  <2>3. CASE sup' = [sup EXCEPT ![r].stopping = TRUE] /\ s = r
    <3>1. /\ sup'[s].st = sup[s].st /\ sup'[s].main = sup[s].main
          /\ sup'[s].hup = sup[s].hup /\ sup'[s].stopping
      BY <1>1, <2>3
    <3> QED BY <1>2, <2>2, <3>1
  <2>4. CASE sup' = KilledSups({r}) /\ sup[r].st = "checked" /\ s = r
    <3>1. sup'[s] = NoSup("dead")
      BY <1>1, <2>4 DEF KilledSups
    <3> QED BY <1>2, <2>2, <2>4, <3>1
  <2>5. CASE s # r
    <3>1. sup'[s] = sup[s]
      BY <1>1, <2>1, <2>5 DEF KilledSups
    <3> QED BY <1>2, <2>2, <3>1
  <2> QED BY <2>1, <2>3, <2>4, <2>5
<1>33. ASSUME CliGone
       PROVE  Controlled(s)
  BY <1>33, <1>1, <1>2 DEF Begin, CliGone
<1>34. ASSUME CliKill
       PROVE  Controlled(s)
  BY <1>34, <1>1, <1>2 DEF KilledSups, KilledOps, CliKill
<1>35. ASSUME Pull
       PROVE  Controlled(s)
  BY <1>35, <1>1, <1>2 DEF Pull
<1>36. ASSUME NEW p \in Pid,
              \/ Exec(p) \/ Boot(p) \/ WritePid(p) \/ HandleTerm(p) \/ Exit(p) \/ Die(p)
                 \/ Crash(p) \/ FallSilent(p) \/ Resume(p)
       PROVE  Controlled(s)
  BY <1>36, <1>1, <1>2 DEF Exec, Boot, WritePid, HandleTerm, Exit, Die, Crash, FallSilent,
     Resume
<1>37. ASSUME NEW h \in Pid \cup {None},
              \/ HelperRead(h) \/ HelperTerm(h) \/ HelperEnd(h)
       PROVE  Controlled(s)
  BY <1>37, <1>1, <1>2 DEF HelperRead, HelperTerm, HelperEnd
<1>38. ASSUME \/ ManualStart \/ ManualStop
       PROVE  Controlled(s)
  BY <1>38, <1>1, <1>2 DEF ManualStart, ManualStop
<1>39. ASSUME UNCHANGED vars PROVE Controlled(s)
  BY <1>39, <1>1, <1>2
<1> QED BY <1>3, <1>4, <1>5, <1>6, <1>7, <1>8, <1>9, <1>10, <1>11, <1>12, <1>13,
     <1>14, <1>15, <1>16, <1>17, <1>18, <1>19, <1>20, <1>21, <1>22, <1>23, <1>24,
     <1>25, <1>26, <1>27, <1>28, <1>29, <1>30, <1>31, <1>32, <1>33, <1>34, <1>35,
     <1>36, <1>37, <1>38, <1>39, <1>40, <1>41, <1>1 DEF Next, DaemonStep, HelperStep, MainStep,
     LockedStep, PurgeStep, CliStep, Actors

-----------------------------------------------------------------------------
(* What a step does to the daemons *)

\* A process that SIGTERM ends at once, because no handler is installed yet.
Starting == {"sudo", "boot", "forked"}

\* Process p stays what it is, or goes: no step revives a dead or a killed one, and
\* the code it runs is the one it has or the one on disk.
GoesOn(p) ==
    daemon'[p].st # "dead" =>
        /\ St(p) # "dead" /\ daemon'[p].ver \in {daemon[p].ver, pulls}
        /\ daemon'[p].byHand = daemon[p].byHand
        /\ daemon[p].slipped => daemon'[p].slipped
        /\ St(p) = "killed" => daemon'[p].st = "killed"
        /\ daemon'[p].st \in Starting => St(p) \in Starting
AllGoOn == \A p \in Pid : GoesOn(p)

\* Process p forks and q goes on in its place.
Forks(p, q) ==
    /\ St(p) = "boot" /\ NewPid(q) /\ UNCHANGED <<sup, op, pulls>>
    /\ daemon' = [daemon EXCEPT ![p] = Gone,
          ![q] = [As(p, "forked") EXCEPT !.slipped = @ \/ Slipping(p)]]

\* What a step may do to the daemons.
DaemonEffect ==
    \/ AllGoOn
    \/ \E p, q \in Pid : Forks(p, q)
    \/ \E p \in Pid : Spawn(p, "boot", TRUE) /\ UNCHANGED <<sup, op, pulls>>
    \/ \E s \in Sups, p \in Pid : Spawn(p, "sudo", FALSE) /\ Launch(s)

\* Signals end processes and change nothing else about them.
LEMMA SignalEffect ==
    ASSUME TypeOK, NEW T
    PROVE  /\ SigTerm(T) => AllGoOn
           /\ SigTerm(T) => \A p \in Pid \cap T : daemon'[p].st \notin Starting
           /\ SigKill(T) => AllGoOn
           /\ SigKill(T) => \A p \in Pid \cap T : daemon'[p].st \in {"dead", "killed"}
<1> USE DEF AllGoOn, GoesOn, St, Starting
<1>1. \A p \in Pid : daemon[p] \in DaemonProcess
  BY DEF TypeOK
<1>2. ASSUME NEW p \in Pid, NEW st \in DaemonStates \ {"dead"}
      PROVE  /\ As(p, st).st = st /\ As(p, st).ver = daemon[p].ver
             /\ As(p, st).byHand = daemon[p].byHand
             /\ daemon[p].slipped => As(p, st).slipped
  BY <1>1, <1>2 DEF As, DaemonProcess
<1>3. Gone.st = "dead"
  BY DEF Gone
<1>4. "termed" \in DaemonStates \ {"dead"} /\ "killed" \in DaemonStates \ {"dead"}
  BY DEF DaemonStates
<1>5. ASSUME SigTerm(T), NEW p \in Pid
      PROVE  GoesOn(p) /\ (p \in T => daemon'[p].st \notin Starting)
  <2>1. \/ daemon'[p] = daemon[p] /\ (p \in T => St(p) \notin Starting)
        \/ St(p) \in Starting /\ daemon'[p] = Gone
        \/ St(p) \in {"up", "silent"} /\ daemon'[p] = As(p, "termed")
    BY <1>5 DEF SigTerm
  <2> QED BY <1>2, <1>3, <1>4, <2>1
<1>6. ASSUME SigKill(T), NEW p \in Pid
      PROVE  GoesOn(p) /\ (p \in T => daemon'[p].st \in {"dead", "killed"})
  <2>1. \/ daemon'[p] = daemon[p] /\ (p \in T => St(p) = "dead")
        \/ St(p) # "dead" /\ daemon'[p] = As(p, "killed")
    BY <1>6 DEF SigKill, Alive
  <2> QED BY <1>2, <1>4, <2>1
<1> QED BY <1>5, <1>6

\* Every step does one of those things to the daemons.
LEMMA DaemonEffects ==
    ASSUME TypeOK, [Next]_vars
    PROVE  DaemonEffect
<1>1. \A p \in Pid : daemon[p] \in DaemonProcess
  BY DEF TypeOK
<1>2. ASSUME NEW p \in Pid, NEW st \in DaemonStates \ (Starting \cup {"dead"}),
             daemon' = [daemon EXCEPT ![p].st = st], St(p) \notin {"dead", "killed"}
      PROVE  AllGoOn
  <2>1. \A q \in Pid \ {p} : daemon'[q] = daemon[q]
    BY <1>2 DEF TypeOK
  <2>2. /\ daemon'[p].st = st /\ daemon'[p].ver = daemon[p].ver
        /\ daemon'[p].byHand = daemon[p].byHand
        /\ daemon[p].slipped => daemon'[p].slipped
    BY <1>1, <1>2 DEF TypeOK, DaemonProcess
  <2> QED BY <1>2, <2>1, <2>2 DEF AllGoOn, GoesOn, St
<1>3. ASSUME NEW p \in Pid, daemon' = [daemon EXCEPT ![p] = Gone]
      PROVE  AllGoOn
  <2>1. \A q \in Pid : daemon'[q] = IF q = p THEN Gone ELSE daemon[q]
    BY <1>3 DEF TypeOK
  <2> QED BY <2>1 DEF AllGoOn, GoesOn, St, Gone
<1>4. ASSUME NEW p \in Pid,
             \/ WritePid(p) \/ HandleTerm(p) \/ Exit(p) \/ Die(p)
             \/ Crash(p) \/ FallSilent(p) \/ Resume(p)
      PROVE  AllGoOn
  <2>1. \/ daemon' = [daemon EXCEPT ![p] = Gone]
        \/ /\ St(p) \notin {"dead", "killed"}
           /\ \E st \in DaemonStates \ (Starting \cup {"dead"}) :
                 daemon' = [daemon EXCEPT ![p].st = st]
    BY <1>4 DEF WritePid, HandleTerm, Exit, Die, Crash, FallSilent, Resume, DaemonStates,
       Starting
  <2> QED BY <1>2, <1>3, <2>1
<1>5. ASSUME NEW p \in Pid, Boot(p)
      PROVE  DaemonEffect
  <2>1. \/ daemon' = [daemon EXCEPT ![p] = Gone]
        \/ daemon' = [daemon EXCEPT ![p].st = "up"] /\ St(p) = "boot"
        \/ \E q \in Pid : Forks(p, q)
    BY <1>5 DEF Boot, Forks
  <2>2. "up" \in DaemonStates \ (Starting \cup {"dead"})
    BY DEF DaemonStates, Starting
  <2> QED BY <1>2, <1>3, <2>1, <2>2 DEF DaemonEffect
<1>6. ASSUME NEW s \in Sups, Launch(s)
      PROVE  DaemonEffect
  <2>1. PICK p \in Pid : Spawn(p, "sudo", FALSE)
    BY <1>6 DEF Launch
  <2> QED BY <1>6, <2>1 DEF DaemonEffect
<1>7. CASE ManualStart
  BY <1>7 DEF ManualStart, DaemonEffect
<1>8. CASE daemon' = daemon
  BY <1>8 DEF DaemonEffect, AllGoOn, GoesOn, St
<1>9. ASSUME NEW p \in Pid, Exec(p)
      PROVE  AllGoOn
  <2>1. \A q \in Pid \ {p} : daemon'[q] = daemon[q]
    BY <1>9 DEF Exec, TypeOK
  <2>2. /\ daemon'[p].st = "boot" /\ daemon'[p].ver = pulls /\ St(p) = "sudo"
        /\ daemon'[p].byHand = daemon[p].byHand
        /\ daemon[p].slipped => daemon'[p].slipped
    BY <1>1, <1>9 DEF Exec, TypeOK, DaemonProcess
  <2> QED BY <2>1, <2>2 DEF AllGoOn, GoesOn, St, Starting
<1>10. ASSUME NEW a \in Actors, PurgeList(a)
       PROVE  AllGoOn
  <2>1. ASSUME NEW x \in DaemonProcess, NEW b
        PROVE  /\ [x EXCEPT !.slipped = b].st = x.st
               /\ [x EXCEPT !.slipped = b].ver = x.ver
               /\ [x EXCEPT !.slipped = b].byHand = x.byHand
               /\ [x EXCEPT !.slipped = b].slipped = b
    BY DEF DaemonProcess
  <2>2. ASSUME NEW p \in Pid
        PROVE  GoesOn(p)
    <3>1. daemon'[p] = [daemon[p] EXCEPT !.slipped =
                           daemon[p].slipped \/ (a \in Sups /\ St(p) = "sudo")]
      BY <1>10 DEF PurgeList
    <3>2. /\ daemon'[p].st = daemon[p].st /\ daemon'[p].ver = daemon[p].ver
          /\ daemon'[p].byHand = daemon[p].byHand
          /\ daemon'[p].slipped = (daemon[p].slipped \/ (a \in Sups /\ St(p) = "sudo"))
      BY <1>1, <2>1, <3>1
    <3>3. daemon[p].slipped => daemon'[p].slipped
      BY <3>2
    <3> QED BY <3>2, <3>3 DEF GoesOn, St
  <2> QED BY <2>2 DEF AllGoOn
<1> QED BY <1>4, <1>5, <1>6, <1>7, <1>8, <1>9, <1>10, SignalEffect, DaemonChanges
        DEF DaemonChange, DaemonEffect

\* A fork hands on what the process was, under an id that no purge has listed, and
\* has slipped if the process was listed; a new process has the code on disk.
ForksInto(p, q) ==
    /\ \A x \in Pid \ {p, q} : daemon'[x] = daemon[x]
    /\ p # q /\ daemon'[p].st = "dead" /\ daemon'[q].st = "forked"
    /\ daemon'[q].ver = daemon[p].ver
    /\ daemon'[q].byHand = daemon[p].byHand
    /\ daemon[p].slipped \/ Slipping(p) => daemon'[q].slipped
    /\ \A s \in Sups : q \notin op[s].targets
SpawnsAs(p, st, byHand) ==
    /\ \A x \in Pid \ {p} : daemon'[x] = daemon[x]
    /\ daemon'[p].st = st /\ daemon'[p].ver = pulls
    /\ daemon'[p].byHand = byHand
    /\ \A s \in Sups : p \notin op[s].targets

LEMMA NewProcesses ==
    ASSUME TypeOK
    PROVE  /\ \A p, q \in Pid : Forks(p, q) => ForksInto(p, q)
           /\ \A p \in Pid, st \in {"sudo", "boot"}, byHand \in BOOLEAN :
                Spawn(p, st, byHand) => SpawnsAs(p, st, byHand)
<1>1. /\ \A p \in Pid : daemon[p] \in DaemonProcess
      /\ \A s \in Sups : s \in Actors
      /\ daemon \in [Pid -> DaemonProcess]
  BY DEF TypeOK, Actors
<1>2. ASSUME NEW q \in Pid, NewPid(q)
      PROVE  St(q) = "dead" /\ \A s \in Sups : q \notin op[s].targets
  BY <1>1, <1>2 DEF NewPid, Alive, Referenced
<1>3. ASSUME NEW p \in Pid, NEW q \in Pid, Forks(p, q)
      PROVE  ForksInto(p, q)
  <2> DEFINE slips == daemon[p].slipped \/ Slipping(p)
             child == [[daemon[p] EXCEPT !.st = "forked"] EXCEPT !.slipped = slips]
  <2>1. NewPid(q) /\ St(p) = "boot"
    BY <1>3 DEF Forks
  <2>2. /\ p # q /\ \A s \in Sups : q \notin op[s].targets
    BY <1>2, <2>1
  <2>3. /\ [daemon[p] EXCEPT !.st = "forked"].slipped = daemon[p].slipped
        /\ \A b : /\ [[daemon[p] EXCEPT !.st = "forked"] EXCEPT !.slipped = b].st = "forked"
                  /\ [[daemon[p] EXCEPT !.st = "forked"] EXCEPT !.slipped = b].ver
                        = daemon[p].ver
                  /\ [[daemon[p] EXCEPT !.st = "forked"] EXCEPT !.slipped = b].byHand
                        = daemon[p].byHand
                  /\ [[daemon[p] EXCEPT !.st = "forked"] EXCEPT !.slipped = b].slipped = b
    BY <1>1 DEF DaemonProcess
  <2>4. daemon' = [daemon EXCEPT ![p] = Gone, ![q] = child]
    BY <1>3, <2>3 DEF Forks, As
  <2>5. child.st = "forked" /\ child.ver = daemon[p].ver /\ child.byHand = daemon[p].byHand
    BY <2>3
  <2>6. child.slipped = slips
    BY <2>3
  <2> HIDE DEF child, slips
  <2>7. /\ \A x \in Pid \ {p, q} : daemon'[x] = daemon[x]
        /\ daemon'[p] = Gone /\ daemon'[q] = child
    BY <1>1, <2>2, <2>4
  <2>8. slips => daemon'[q].slipped
    BY <2>6, <2>7
  <2>9. Gone.st = "dead"
    BY DEF Gone
  <2>10. daemon[p].slipped \/ Slipping(p) => daemon'[q].slipped
    BY <2>8 DEF slips
  <2> QED BY <2>2, <2>5, <2>7, <2>9, <2>10 DEF ForksInto
<1>4. ASSUME NEW p \in Pid, NEW st \in {"sudo", "boot"}, NEW byHand \in BOOLEAN,
             Spawn(p, st, byHand)
      PROVE  SpawnsAs(p, st, byHand)
  <2>1. NewPid(p)
    BY <1>4 DEF Spawn
  <2>2. /\ \A x \in Pid \ {p} : daemon'[x] = daemon[x]
        /\ daemon'[p].st = st /\ daemon'[p].ver = pulls
        /\ daemon'[p].byHand = byHand
    BY <1>1, <1>4 DEF Spawn
  <2> QED BY <1>2, <2>1, <2>2 DEF SpawnsAs
<1> QED BY <1>3, <1>4


-----------------------------------------------------------------------------
(* The parts of the invariant, one after the other *)

\* What a purge has signalled still cannot fork.
LEMMA LockStays ==
    ASSUME TypeOK, LockInv, [Next]_vars
    PROVE  LockInv'
<1>1. ASSUME NEW s \in Sups, op'[s].pc = "purgeWait", NEW p \in Pid,
             p \in op'[s].targets
      PROVE  daemon'[p].st \notin Starting
  <2>1. CASE PurgeTerm(s)
    <3>1. s \in Actors /\ op \in [Actors -> Operation]
      BY DEF TypeOK, Actors
    <3>2. SigTerm(op[s].targets) /\ op' = [op EXCEPT ![s].pc = "purgeWait"]
      BY <2>1 DEF PurgeTerm, Goto
    <3>3. op'[s].targets = op[s].targets
      BY <3>1, <3>2 DEF Operation
    <3> QED BY <1>1, <3>2, <3>3, SignalEffect
  <2>2. CASE Pc(s) = "purgeWait" /\ op'[s].targets = op[s].targets
    <3>1. p \in op[s].targets /\ St(p) \notin Starting
      BY <1>1, <2>2 DEF LockInv, Starting
    <3>2. CASE AllGoOn
      BY <3>1, <3>2 DEF AllGoOn, GoesOn, Starting
    <3>3. ASSUME NEW x \in Pid, NEW y \in Pid, Forks(x, y)
          PROVE  daemon'[p].st \notin Starting
      <4>0. ForksInto(x, y)
        BY <3>3, NewProcesses
      <4>1. p # y
        BY <3>1, <4>0 DEF ForksInto
      <4>2. p = x \/ daemon'[p] = daemon[p]
        BY <4>0, <4>1 DEF ForksInto
      <4> QED BY <3>1, <4>0, <4>2 DEF ForksInto, St, Starting
    <3>4. ASSUME NEW x \in Pid, NEW st \in {"sudo", "boot"}, NEW byHand \in BOOLEAN,
                 Spawn(x, st, byHand)
          PROVE  daemon'[p].st \notin Starting
      <4>0. SpawnsAs(x, st, byHand)
        BY <3>4, NewProcesses
      <4>1. p # x
        BY <3>1, <4>0 DEF SpawnsAs
      <4>2. daemon'[p] = daemon[p]
        BY <4>0, <4>1 DEF SpawnsAs
      <4> QED BY <3>1, <4>2 DEF St
    <3> QED BY <3>2, <3>3, <3>4, DaemonEffects DEF DaemonEffect
  <2>3. Entered(s)
    BY Control DEF Controlled
  <2> QED BY <1>1, <2>1, <2>2, <2>3 DEF Entered
<1>2. \A s \in Sups : Locked(s)'
  BY Control DEF Controlled
<1> QED BY <1>1, <1>2 DEF LockInv, Locked, Pc, St, Starting

\* A supervisor that purges leaves no other one up, unless ps fails.
LEMMA PurgeKillsOthers ==
    ASSUME TypeOK, BudgetInv, NEW s \in Sups, PurgeSups(s), PsReliable',
           NEW r \in Sups \ {s}
    PROVE  sup'[r].st # "up"
<1>1. budget["ps"] \in Nat /\ budget["ps"] =< MaxPsFaults /\ sup \in [Sups -> SupProcess]
  BY DEF TypeOK, BudgetInv
<1>2. PICK K \in {{q \in Sups \ {s} : SupAlive(q)}, {}} :
         /\ IF K = {} /\ \E q \in Sups \ {s} : SupAlive(q)
            THEN Spend("ps") ELSE UNCHANGED budget
         /\ sup' = [KilledSups(K) EXCEPT ![s].main =
                        IF @ = "first" THEN "launching" ELSE @]
  BY DEF PurgeSups
<1>3. ~Spend("ps")
  <2>1. budget \in [{"faults", "ps", "starts", "kills", "stops", "pulls", "sups",
                     "all"} -> Nat]
    BY DEF TypeOK
  <2>2. ASSUME Spend("ps") PROVE budget'["ps"] = budget["ps"] - 1
    BY <2>1, <2>2 DEF Spend
  <2> QED BY <1>1, <2>2 DEF PsReliable
<1>4. sup'[r] = IF r \in K THEN NoSup("dead") ELSE sup[r]
  BY <1>1, <1>2 DEF KilledSups
<1>5. r \notin K => ~SupAlive(r)
  BY <1>2, <1>3
<1> QED BY <1>4, <1>5 DEF SupAlive, NoSup

\* Two supervisors never run daemons at once: the later one has killed the other.
LEMMA OneActive ==
    ASSUME TypeOK, BudgetInv, LockInv, OneActiveSupervisor, [Next]_vars
    PROVE  OneActiveSupervisor'
<1> SUFFICES ASSUME PsReliable', NEW r \in Sups, NEW s \in Sups, r # s,
                    Active(r)', Active(s)'
             PROVE  FALSE
  BY DEF OneActiveSupervisor
<1>1. PsReliable
  BY BudgetStep
<1>2. Active(r) \/ PurgeSups(r)
  BY Control DEF Controlled, Entered
<1>3. Active(s) \/ PurgeSups(s)
  BY Control DEF Controlled, Entered
<1>4. CASE Active(r) /\ Active(s)
  BY <1>1, <1>4 DEF OneActiveSupervisor
<1>5. CASE PurgeSups(r)
  <2>1. sup'[s].st # "up"
    BY <1>5, PurgeKillsOthers
  <2> QED BY <2>1 DEF Active
<1>6. CASE PurgeSups(s)
  <2>1. sup'[r].st # "up"
    BY <1>6, PurgeKillsOthers
  <2> QED BY <2>1 DEF Active
<1> QED BY <1>2, <1>3, <1>4, <1>5, <1>6


\* A daemon of the supervisors that no purge has missed.
OnDuty(p) == AtWork(p) /\ ~daemon[p].slipped

\* Nothing comes on duty without a launch, except as the fork of what is on duty and
\* not listed by a purge.
LEMMA NothingNewOnDuty ==
    ASSUME TypeOK, [Next]_vars, ~ \E s \in Sups : Launch(s)
    PROVE  /\ NoneAtWork => NoneAtWork'
           /\ \A p \in Pid : OnDuty(p)' =>
                 \/ OnDuty(p)
                 \/ \E x \in Pid : Forks(x, p) /\ OnDuty(x) /\ ~Slipping(x)
<1> USE DEF OnDuty, AtWork, Running, St
<1>1. ASSUME NEW p \in Pid, OnDuty(p)'
      PROVE  OnDuty(p) \/ \E x \in Pid : Forks(x, p) /\ OnDuty(x) /\ ~Slipping(x)
  <2>1. CASE AllGoOn
    BY <1>1, <2>1 DEF AllGoOn, GoesOn
  <2>2. ASSUME NEW x \in Pid, NEW y \in Pid, Forks(x, y)
        PROVE  OnDuty(p) \/ \E z \in Pid : Forks(z, p) /\ OnDuty(z) /\ ~Slipping(z)
    <3>0. ForksInto(x, y)
      BY <2>2, NewProcesses
    <3>1. CASE p = y
      <4>1. St(x) = "boot"
        BY <2>2 DEF Forks
      <4>2. daemon[x].byHand = daemon'[p].byHand
        BY <3>0, <3>1 DEF ForksInto
      <4>3. ~daemon[x].slipped /\ ~Slipping(x)
        BY <1>1, <3>0, <3>1 DEF ForksInto
      <4>4. OnDuty(x)
        BY <1>1, <4>1, <4>2, <4>3
      <4> QED BY <2>2, <3>1, <4>3, <4>4
    <3>2. CASE p # y
      <4>1. p # x
        BY <1>1, <3>0 DEF ForksInto
      <4>2. daemon'[p] = daemon[p]
        BY <3>0, <3>2, <4>1 DEF ForksInto
      <4> QED BY <1>1, <4>2
    <3> QED BY <3>1, <3>2
  <2>3. ASSUME NEW x \in Pid, Spawn(x, "boot", TRUE)
        PROVE  OnDuty(p)
    <3>0. SpawnsAs(x, "boot", TRUE)
      BY <2>3, NewProcesses
    <3>1. p # x
      BY <1>1, <3>0 DEF SpawnsAs
    <3>2. daemon'[p] = daemon[p]
      BY <3>0, <3>1 DEF SpawnsAs
    <3> QED BY <1>1, <3>2
  <2> QED BY <2>1, <2>2, <2>3, DaemonEffects DEF DaemonEffect
<1>2. ASSUME NoneAtWork PROVE NoneAtWork'
  BY <1>1, <1>2 DEF NoneAtWork
<1> QED BY <1>1, <1>2

\* A launch puts one daemon on duty.
LEMMA OneNewOnDuty ==
    ASSUME TypeOK, NEW s \in Sups, NEW x \in Pid, Spawn(x, "sudo", FALSE)
    PROVE  \A p \in Pid : OnDuty(p)' => OnDuty(p) \/ p = x
<1> SUFFICES ASSUME NEW p \in Pid, OnDuty(p)', p # x PROVE OnDuty(p)
  OBVIOUS
<1>1. daemon'[p] = daemon[p]
  BY NewProcesses DEF SpawnsAs
<1> QED BY <1>1 DEF OnDuty, AtWork, Running, St

\* Whoever purges or launches is active.
LEMMA PurgersAreActive ==
    ASSUME LockInv, NEW s \in Sups, Pc(s) \notin {"idle", "purgeSups"}
    PROVE  Active(s)
<1> QED BY DEF LockInv, Active

\* One daemon of the supervisors at a time.
LEMMA OneLaunched ==
    ASSUME TypeOK, BudgetInv, [Next]_vars,
           PsReliable => OneLaunchedDaemon /\ \A s \in Sups : PurgeInv(s)
    PROVE  OneLaunchedDaemon'
<1> SUFFICES ASSUME PsReliable', NEW p \in Pid, NEW q \in Pid, OnDuty(p)', OnDuty(q)'
             PROVE  p = q
  BY DEF OneLaunchedDaemon, OnDuty, AtWork, Running, St
<1>1. PsReliable
  BY BudgetStep
<1>2. ASSUME NEW x \in Pid, NEW y \in Pid, OnDuty(x), OnDuty(y) PROVE x = y
  BY <1>1, <1>2 DEF OneLaunchedDaemon, OnDuty, AtWork
<1>3. CASE ~ \E s \in Sups : Launch(s)
  <2>1. ASSUME NEW x \in Pid, NEW y \in Pid, Forks(x, y), OnDuty(x), OnDuty(y)'
        PROVE  \A z \in Pid : OnDuty(z)' => z = y
    <3> SUFFICES ASSUME NEW z \in Pid, OnDuty(z)', z # y PROVE FALSE
      OBVIOUS
    <3>0. ForksInto(x, y)
      BY <2>1, NewProcesses
    <3>1. z # x
      BY <3>0 DEF ForksInto, OnDuty, AtWork, Running, St
    <3>2. daemon'[z] = daemon[z]
      BY <3>0, <3>1 DEF ForksInto
    <3>3. OnDuty(z)
      BY <3>2 DEF OnDuty, AtWork, Running, St
    <3> QED BY <1>2, <2>1, <3>1, <3>3
  <2>2. CASE OnDuty(p) /\ OnDuty(q)
    BY <1>2, <2>2
  <2> QED BY <1>3, <2>1, <2>2, NothingNewOnDuty
<1>4. ASSUME NEW s \in Sups, Launch(s) PROVE p = q
  <2>1. PICK x \in Pid : Spawn(x, "sudo", FALSE)
    BY <1>4 DEF Launch
  <2>2. NoneAtWork
    BY <1>1, <1>4 DEF Launch, PurgeInv
  <2> QED BY <2>1, <2>2, OneNewOnDuty DEF NoneAtWork, OnDuty
<1> QED BY <1>3, <1>4


\* What a purge has missed when ps has not failed.
LEMMA PurgeListsAll ==
    ASSUME TypeOK, BudgetInv, NEW s \in Sups, PurgeList(s), PsReliable',
           NEW p \in Pid, daemon'[p].st # "dead", ~daemon'[p].slipped
    PROVE  p \in op'[s].targets
<1>1. /\ s \in Actors /\ op \in [Actors -> Operation]
      /\ daemon[p] \in DaemonProcess
      /\ budget \in [{"faults", "ps", "starts", "kills", "stops", "pulls", "sups",
                      "all"} -> Nat]
  BY DEF TypeOK, Actors
<1>2. PICK listed :
         /\ Ps(listed)
         /\ op' = [op EXCEPT ![s].pc = "purgeRead", ![s].targets = listed]
  BY DEF PurgeList
<1>3. ~Spend("ps")
  <2>1. ASSUME Spend("ps") PROVE budget'["ps"] = budget["ps"] - 1
    BY <1>1, <2>1 DEF Spend
  <2>2. budget["ps"] \in Nat /\ budget["ps"] =< MaxPsFaults
    BY <1>1 DEF BudgetInv
  <2> QED BY <2>1, <2>2 DEF PsReliable
<1>4. op'[s].targets = Listable
  BY <1>1, <1>2, <1>3 DEF Ps, Operation
<1>5. daemon'[p] = [daemon[p] EXCEPT !.slipped =
                       daemon[p].slipped \/ (s \in Sups /\ St(p) = "sudo")]
  BY DEF PurgeList
<1>6. ASSUME NEW b
      PROVE  /\ [daemon[p] EXCEPT !.slipped = b].st = daemon[p].st
             /\ [daemon[p] EXCEPT !.slipped = b].slipped = b
  BY <1>1 DEF DaemonProcess
<1>7. daemon'[p].st = St(p)
  BY <1>5, <1>6 DEF St
<1>8. daemon'[p].slipped = (daemon[p].slipped \/ (s \in Sups /\ St(p) = "sudo"))
  BY <1>5, <1>6
<1>9. St(p) # "sudo"
  BY <1>8
<1> QED BY <1>4, <1>7, <1>9 DEF Listable, Running

\* A purge that ends leaves none of those it has signalled.
LEMMA PurgeEnds ==
    ASSUME NEW s \in Sups, PurgeEnd(s)
    PROVE  /\ daemon' = daemon
           /\ \/ Pc(s) = "purgeKilled"
              \/ Pc(s) = "purgeWait" /\ \A p \in Pid \cap op[s].targets : St(p) = "dead"
<1> QED BY DEF PurgeEnd, Alive

\* Whoever purges has everything at work under control until the launch.
LEMMA PurgeStays ==
    ASSUME TypeOK, BudgetInv, LockInv, [Next]_vars, PsReliable', OneActiveSupervisor,
           \A r \in Sups : PurgeInv(r), NEW s \in Sups
    PROVE  PurgeInv(s)'
<1>1. PsReliable
  BY BudgetStep
<1>2. \A r \in Sups : Entered(r)
  BY Control DEF Controlled
<1>3. ASSUME NEW r \in Sups, Launch(r)
      PROVE  /\ Active(r) /\ sup[r].st = "up" /\ Pc(r) = "spawn"
             /\ op'[r].pc = "launched"
  <2>1. r \in Actors /\ op \in [Actors -> Operation] /\ Pc(r) = "spawn"
    BY <1>3 DEF TypeOK, Actors, Launch
  <2>2. op'[r].pc = "launched"
    BY <1>3, <2>1 DEF Launch, Operation
  <2> QED BY <2>1, <2>2, PurgersAreActive DEF Active
<1>4. ASSUME Active(s), NEW r \in Sups, Launch(r) PROVE r = s
  BY <1>1, <1>3, <1>4 DEF OneActiveSupervisor
<1>5. ASSUME op'[s].pc \in Purging, NEW p \in Pid, OnDuty(p)'
      PROVE  p \in op'[s].targets
  <2>1. CASE PurgeList(s)
    BY <1>5, <2>1, PurgeListsAll DEF OnDuty, AtWork, Running, St
  <2>2. CASE PurgesOn(s)
    <3>1. ~ \E r \in Sups : Launch(r)
      BY <1>3, <1>4, <2>2, PurgersAreActive DEF PurgesOn, Purging
    <3>2. \A x \in Pid : OnDuty(x) => x \in op[s].targets
      BY <2>2 DEF PurgeInv, PurgesOn, Purging, OnDuty
    <3>3. ASSUME NEW x \in Pid, Forks(x, p), OnDuty(x), ~Slipping(x) PROVE FALSE
      <4>1. x \in op[s].targets /\ St(x) = "boot"
        BY <3>2, <3>3 DEF Forks
      <4>2. Pc(s) = "purgeWait"
        BY <2>2, <3>3, <4>1 DEF PurgesOn, Purging, Slipping
      <4> QED BY <4>1, <4>2 DEF LockInv
    <3>4. OnDuty(p)
      BY <1>5, <3>1, <3>3, NothingNewOnDuty
    <3> QED BY <2>2, <3>2, <3>4 DEF PurgesOn
  <2> QED BY <1>2, <1>5, <2>1, <2>2 DEF Entered
<1>6. ASSUME op'[s].pc \in {"purgeKilled", "stopEnd", "spawn"}
      PROVE  NoneAtWork'
  <2>1. CASE op'[s].pc = Pc(s)
    <3>1. NoneAtWork
      BY <1>6, <2>1 DEF PurgeInv
    <3>2. ~ \E r \in Sups : Launch(r)
      BY <1>3, <1>4, <1>6, <2>1, PurgersAreActive
    <3> QED BY <3>1, <3>2, NothingNewOnDuty
  <2>2. CASE PurgeKill(s)
    <3>1. Pc(s) = "purgeWait" /\ SigKill(op[s].targets)
      BY <2>2 DEF PurgeKill
    <3>2. ASSUME NEW p \in Pid, OnDuty(p)' PROVE FALSE
      <4>1. OnDuty(p)
        BY <3>1, <3>2, SignalEffect DEF AllGoOn, GoesOn, OnDuty, AtWork, Running, St
      <4>2. p \in op[s].targets
        BY <3>1, <4>1 DEF PurgeInv, OnDuty
      <4> QED BY <3>1, <3>2, <4>2, SignalEffect DEF OnDuty, AtWork, Running, St
    <3> QED BY <3>2 DEF NoneAtWork, OnDuty
  <2>3. CASE PurgeEnd(s)
    <3>1. NoneAtWork
      BY <2>3, PurgeEnds DEF PurgeInv, NoneAtWork, AtWork, Running
    <3> QED BY <2>3, <3>1, PurgeEnds DEF NoneAtWork, AtWork, Running, St
  <2> QED BY <1>2, <1>6, <2>1, <2>2, <2>3 DEF Entered
<1>7. ASSUME Alone(s)', sup'[s].main = "exit" \/ sup'[s].st = "stopped"
      PROVE  NoneAtWork'
  <2>1. Alone(s)
    BY <1>2, <1>7 DEF Alone, Entered
  <2>2. sup[s].main = "exit" \/ sup[s].st = "stopped" \/ Pc(s) = "stopEnd"
    BY <1>2, <1>7 DEF Entered
  <2>3. NoneAtWork
    BY <2>1, <2>2 DEF PurgeInv
  <2>4. ASSUME NEW r \in Sups, Launch(r) PROVE FALSE
    <3>1. r = s
      BY <1>3, <2>1, <2>4 DEF Alone
    <3> QED BY <1>3, <2>2, <2>4, <3>1 DEF LockInv
  <2> QED BY <2>3, <2>4, NothingNewOnDuty
<1> QED BY <1>5, <1>6, <1>7 DEF PurgeInv, Pc, Purging, OnDuty

\* A step keeps what is fresh, and whatever starts or forks is so, or has slipped.
LEMMA FreshStays ==
    ASSUME TypeOK, [Next]_vars, pulls' = pulls, NEW T,
           \A p \in Pid \cap T : St(p) # "boot" \/ Slipping(p),
           \A p \in Running : Fresh(p) \/ p \in T
    PROVE  \A p \in Pid : daemon'[p].st # "dead" => Fresh(p)' \/ p \in T
<1> USE DEF Fresh, Running, St
<1> SUFFICES ASSUME NEW p \in Pid, daemon'[p].st # "dead"
             PROVE  Fresh(p)' \/ p \in T
  OBVIOUS
<1>1. CASE AllGoOn
  BY <1>1 DEF AllGoOn, GoesOn
<1>2. ASSUME NEW x \in Pid, NEW y \in Pid, Forks(x, y) PROVE Fresh(p)' \/ p \in T
  <2>0. ForksInto(x, y)
    BY <1>2, NewProcesses
  <2>1. CASE p = y
    <3>1. St(x) = "boot"
      BY <1>2 DEF Forks
    <3>2. CASE daemon[x].slipped \/ Slipping(x)
      BY <2>0, <2>1, <3>2 DEF ForksInto
    <3>3. CASE ~(daemon[x].slipped \/ Slipping(x))
      <4>1. daemon[x].ver = pulls
        BY <3>1, <3>3
      <4> QED BY <2>0, <2>1, <4>1 DEF ForksInto
    <3> QED BY <3>2, <3>3
  <2>2. CASE p # y
    <3>1. p # x
      BY <2>0 DEF ForksInto
    <3>2. daemon'[p] = daemon[p]
      BY <2>0, <2>2, <3>1 DEF ForksInto
    <3> QED BY <3>2
  <2> QED BY <2>1, <2>2
<1>3. ASSUME NEW x \in Pid, NEW st \in {"sudo", "boot"}, NEW byHand \in BOOLEAN,
             Spawn(x, st, byHand)
      PROVE  Fresh(p)' \/ p \in T
  <2>0. SpawnsAs(x, st, byHand)
    BY <1>3, NewProcesses
  <2>1. CASE p = x
    BY <2>0, <2>1 DEF SpawnsAs
  <2>2. CASE p # x
    <3>1. daemon'[p] = daemon[p]
      BY <2>0, <2>2 DEF SpawnsAs
    <3> QED BY <3>1
  <2> QED BY <2>1, <2>2
<1> QED BY <1>1, <1>2, <1>3, DaemonEffects DEF DaemonEffect


\* A reload that was heeded replaces every daemon of older code.
LEMMA ReloadStays ==
    ASSUME TypeOK, BudgetInv, LockInv, [Next]_vars, PsReliable', NEW s \in Sups,
           ReloadInv(s)
    PROVE  ReloadInv(s)'
<1> SUFFICES ASSUME Heeded(s)', op'[s].pc \in SettledPcs \cup Purging
             PROVE  /\ op'[s].pc \in SettledPcs => \A p \in Running' : Fresh(p)'
                    /\ op'[s].pc \in Purging =>
                          \A p \in Running' : Fresh(p)' \/ p \in op'[s].targets
  BY DEF ReloadInv, Pc, Purging
<1>1. \A r \in Sups : Entered(r)
  BY Control DEF Controlled
<1>2. Heeded(s)
  BY <1>1 DEF Entered, Heeded, Alone
<1>3. pulls' = pulls
  <2>1. ASSUME Pull PROVE FALSE
    <3>1. supfile \in Sups /\ sup[supfile].st = "up" /\ sup' = [sup EXCEPT ![supfile].hup = TRUE]
      BY <2>1 DEF Pull
    <3>2. supfile = s
      BY <1>2, <3>1 DEF Heeded, Alone
    <3>3. sup \in [Sups -> SupProcess]
      BY DEF TypeOK
    <3>4. sup'[s].hup
      BY <3>1, <3>2, <3>3 DEF SupProcess
    <3> QED BY <3>4 DEF Heeded
  <2> QED BY <2>1, BudgetUses DEF BudgetUse
<1>4. Purging \cap SettledPcs = {} /\ "purgeKilled" \in SettledPcs
  BY DEF SettledPcs, Purging
<1>5. ASSUME NEW T, AllGoOn, \A p \in Running : Fresh(p) \/ p \in T, NEW p \in Running'
      PROVE  Fresh(p)' \/ p \in T
  BY <1>3, <1>5 DEF AllGoOn, GoesOn, Fresh, Running, St
<1>6. CASE PurgeList(s)
  <2>1. s \in Actors /\ op \in [Actors -> Operation]
    BY DEF TypeOK, Actors
  <2>2. op'[s].pc = "purgeRead"
    BY <1>6, <2>1 DEF PurgeList, Operation
  <2>3. ASSUME NEW p \in Running' PROVE Fresh(p)' \/ p \in op'[s].targets
    BY <1>6, <2>3, PurgeListsAll DEF Running, St, Fresh
  <2> QED BY <1>4, <2>2, <2>3 DEF Purging
<1>7. CASE PurgeKill(s)
  <2>1. Pc(s) = "purgeWait" /\ SigKill(op[s].targets) /\ s \in Actors
    BY <1>7 DEF PurgeKill, Actors
  <2>2. op'[s].pc = "purgeKilled"
    BY <1>7, <2>1 DEF PurgeKill, Goto, TypeOK, Operation
  <2>3. \A p \in Running : Fresh(p) \/ p \in op[s].targets
    BY <1>2, <2>1 DEF ReloadInv
  <2>4. AllGoOn /\ \A p \in Pid \cap op[s].targets : daemon'[p].st \in {"dead", "killed"}
    BY <2>1, SignalEffect
  <2>5. \A p \in Running' : Fresh(p)'
    BY <1>5, <2>3, <2>4 DEF Fresh, Running, St
  <2> QED BY <1>4, <2>2, <2>5
<1>8. CASE PurgeEnd(s)
  <2>1. \A p \in Running : Fresh(p)
    BY <1>2, <1>4, <1>8, PurgeEnds DEF ReloadInv, Running
  <2>2. \A p \in Running' : Fresh(p)'
    BY <1>3, <1>8, <2>1, PurgeEnds DEF Fresh, Running, St
  <2> QED BY <2>2
<1>9. CASE Pc(s) \in SettledPcs /\ op'[s].pc \in SettledPcs
  <2>1. \A p \in Running : Fresh(p) \/ p \in {}
    BY <1>2, <1>9 DEF ReloadInv
  <2>2. \A p \in Pid : daemon'[p].st # "dead" => Fresh(p)' \/ p \in {}
    BY <1>3, <2>1, FreshStays
  <2> QED BY <1>4, <1>9, <2>2 DEF Running, St
<1>10. CASE PurgesOn(s)
  <2>1. \A p \in Running : Fresh(p) \/ p \in op[s].targets
    BY <1>2, <1>10 DEF ReloadInv, PurgesOn, Purging
  <2>2. ASSUME NEW p \in Pid \cap op[s].targets PROVE St(p) # "boot" \/ Slipping(p)
    <3>1. CASE Pc(s) = "purgeWait"
      BY <3>1 DEF LockInv
    <3>2. CASE Pc(s) \in {"purgeRead", "purgeTerm"}
      BY <3>2 DEF Slipping
    <3> QED BY <1>10, <3>1, <3>2 DEF PurgesOn, Purging
  <2>3. \A p \in Pid : daemon'[p].st # "dead" => Fresh(p)' \/ p \in op[s].targets
    BY <1>3, <2>1, <2>2, FreshStays
  <2> QED BY <1>4, <1>10, <2>3 DEF Running, St, PurgesOn
<1> QED BY <1>1, <1>6, <1>7, <1>8, <1>9, <1>10 DEF Entered, Heeded

\* The initial state: nothing runs.
LEMMA Initially ==
    ASSUME NEW exists \in BOOLEAN, InitWith(exists)
    PROVE  SupInv
<1>1. /\ daemon = [p \in Pid |-> Gone] /\ sup = [s \in Sups |-> NoSup("off")]
      /\ op = [a \in Actors |-> Idle] /\ pulls = 0 /\ pidfile = None /\ supfile = None
      /\ helper = [p \in Pid \cup {None} |-> NoHelper] /\ mode \in Modes
      /\ saved \in BOOLEAN
  BY DEF InitWith
<1>2. Cardinality(Sups) \in Nat
  BY FS_CardinalityType
<1>3. /\ budget \in [{"faults", "ps", "starts", "kills", "stops", "pulls", "sups",
                      "all"} -> Nat]
      /\ budget["ps"] = MaxPsFaults /\ budget["pulls"] = MaxPulls
  BY <1>2 DEF InitWith
<1>4. TypeOK
  <2>1. mode \in {"start", "foreground"}
    BY <1>1
  <2>2. NoHelper \in [pc : {"boot", "loop", "done"}, target : Pid \cup {None}]
    BY DEF NoHelper
  <2>3. "off" \in {"off", "checked", "up", "stopped", "dead"}
    OBVIOUS
  <2>4. daemon \in [Pid -> DaemonProcess] /\ op \in [Actors -> Operation]
    BY <1>1, FreshRecords
  <2>5. sup \in [Sups -> SupProcess]
    BY <1>1, <2>3, FreshRecords
  <2> QED BY <1>1, <1>3, <2>1, <2>2, <2>4, <2>5 DEF TypeOK
<1>5. BudgetInv
  BY <1>1, <1>3 DEF BudgetInv
<1>6. /\ \A s \in Sups : s \in Actors /\ op[s] = Idle /\ sup[s] = NoSup("off")
      /\ \A p \in Pid : daemon[p] = Gone
  BY <1>1 DEF Actors
<1>7. LockInv
  BY <1>6 DEF LockInv, Pc, Idle, NoSup
<1>8. \A s \in Sups : PurgeInv(s)
  BY <1>6 DEF PurgeInv, Pc, Idle, NoSup
<1>9. Running = {}
  BY <1>6 DEF Running, St, Gone
<1>10. \A s \in Sups : ReloadInv(s)
  BY <1>9 DEF ReloadInv
<1>11. OneActiveSupervisor
  BY <1>6 DEF OneActiveSupervisor, Active, NoSup
<1>12. OneLaunchedDaemon
  BY <1>9 DEF OneLaunchedDaemon
<1> QED BY <1>4, <1>5, <1>7, <1>8, <1>10, <1>11, <1>12 DEF SupInv

\* Every step keeps the invariant.
LEMMA SupInvStep ==
    ASSUME SupInv, [Next]_vars
    PROVE  SupInv'
<1>1. TypeOK /\ BudgetInv /\ LockInv
  BY DEF SupInv
<1>2. TypeOK'
  BY <1>1, Types
<1>3. PsReliable' => PsReliable
  BY <1>1, BudgetStep
<1>4. LockInv'
  BY <1>1, LockStays
<1>5. ASSUME PsReliable'
      PROVE  /\ OneActiveSupervisor' /\ OneLaunchedDaemon'
             /\ \A s \in Sups : PurgeInv(s)' /\ ReloadInv(s)'
  <2>1. /\ OneActiveSupervisor /\ OneLaunchedDaemon
        /\ \A s \in Sups : PurgeInv(s) /\ ReloadInv(s)
    BY <1>3, <1>5 DEF SupInv
  <2>2. OneActiveSupervisor'
    BY <1>1, <2>1, OneActive
  <2>3. OneLaunchedDaemon'
    BY <1>1, <2>1, OneLaunched
  <2>4. \A s \in Sups : PurgeInv(s)'
    BY <1>1, <1>5, <2>1, PurgeStays
  <2>5. \A s \in Sups : ReloadInv(s)'
    BY <1>1, <1>5, <2>1, ReloadStays
  <2> QED BY <2>2, <2>3, <2>4, <2>5
<1>6. BudgetInv'
  BY <1>1, BudgetStep
<1> QED BY <1>2, <1>4, <1>5, <1>6 DEF SupInv

\* The inductive invariant of the supervisors: types, bounds, who holds a lock, and
\* what is under control until the launch (supervisor.py:338, 434).
THEOREM SupInvHolds == Spec => []SupInv
<1>1. Init => SupInv
  BY Initially DEF Init
<1>2. SupInv /\ [Next]_vars => SupInv'
  BY SupInvStep
<1> QED BY <1>1, <1>2, PTL DEF Spec

\* Two supervisors never run daemons at once, although both may pass the check of
\* the pid file (supervisor.py:441).
THEOREM OneSupervisorIsActive == Spec => []OneActiveSupervisor
<1>1. SupInv => OneActiveSupervisor
  BY DEF SupInv, OneActiveSupervisor
<1> QED BY <1>1, SupInvHolds, PTL

\* The supervisors never have two daemons at work, whichever thread of whichever
\* supervisor launches one, save those that slipped through a purge: still 'sudo ...'
\* at its listing, or forked between the listing and the SIGTERM (supervisor.py:346).
THEOREM OneDaemonIsLaunched == Spec => []OneLaunchedDaemon
<1>1. SupInv => OneLaunchedDaemon
  BY DEF SupInv, OneLaunchedDaemon
<1> QED BY <1>1, SupInvHolds, PTL

\* A stop leaves no daemon of the supervisor but one that slipped through a purge,
\* whatever the watchdog was doing when it arrived (supervisor.py:1147).
THEOREM StopIsClean == Spec => []CleanStop
<1>1. SupInv => CleanStop
  BY DEF SupInv, CleanStop, PurgeInv, Alone, NoneAtWork, AtWork, Running
<1> QED BY <1>1, SupInvHolds, PTL

\* No reload is lost, not even one that arrives during a reload or a relaunch, but
\* for a daemon that slipped through a purge (supervisor.py:1142).
THEOREM NoReloadIsLost == Spec => []NoLostReload
<1>1. SupInv => NoLostReload
  BY DEF SupInv, NoLostReload, ReloadInv, Heeded, Alone, SettledPcs, Fresh
<1> QED BY <1>1, SupInvHolds, PTL

=============================================================================
