----------------------------- MODULE RepairProofs ------------------------------
(***************************************************************************)
(* Theorems about Repair for every value of its constants: a repair at any *)
(* moment, beside any number of supervisors and daemons, keeps what the    *)
(* supervisors rely on.                                                    *)
(*                                                                         *)
(* A step of the supervisors leaves the snapshot of the repair alone       *)
(* (RepairFrame) and keeps SupInv by SupInvStep.  A step of the repair     *)
(* does less than what a supervisor does to itself: it ends processes, and *)
(* a supervisor that it touches ends, starts, or gets a reload request     *)
(* (Touched).  That is enough for SupInv, whatever the supervisors were    *)
(* doing (TouchKeeps), so that nothing has to be known of what the         *)
(* snapshot of the repair has become.                                      *)
(***************************************************************************)
EXTENDS Repair, SupervisorProofs

USE SupervisorAssumption, RepairAssumption DEF vars, fixVars

-----------------------------------------------------------------------------
(* Steps of the supervisors *)

\* No other process changes what the repair is at.
LEMMA RepairFrame ==
    ASSUME TypeOK, [Next]_vars
    PROVE  op'[Fix] = op[Fix]
<1>1. /\ DOMAIN helper = Pid \cup {None} /\ op \in OpFn /\ Fix \in Actors
      /\ Cli \in Actors /\ Cli # Fix
      /\ \A s \in Sups : s \in Actors /\ s # Fix
  BY DEF TypeOK, OpFn, Actors
<1>2. ASSUME NEW K, Fix \notin K PROVE KilledOps(K)[Fix] = op[Fix]
  BY <1>1, <1>2 DEF KilledOps
<1>3. ASSUME NEW r \in Sups, PurgeSups(r)
      PROVE  op'[Fix] = op[Fix]
  <2>1. PICK K \in {{q \in Sups \ {r} : SupAlive(q)}, {}} :
            \E pc \in {"purge", "stopRead"} : op' = [KilledOps(K) EXCEPT ![r].pc = pc]
    BY <1>3 DEF PurgeSups
  <2>2. op'[Fix] = KilledOps(K)[Fix]
    BY <1>1, <2>1 DEF KilledOps
  <2> QED BY <1>2, <2>1, <2>2
<1>4. ASSUME NEW a \in Sups \cup {Cli},
             \/ PurgeList(a) \/ PurgeRead(a) \/ PurgeTerm(a) \/ PurgeKill(a)
             \/ PurgeEnd(a)
      PROVE  op'[Fix] = op[Fix]
  BY <1>1, <1>4 DEF PurgeList, PurgeRead, PurgeTerm, PurgeKill, PurgeEnd, Goto, OpFn
<1>5. ASSUME NEW r \in Sups,
             \/ Launch(r) \/ StartReturns(r) \/ StartTimeout(r) \/ Confirmed(r)
             \/ NotConfirmed(r) \/ Polled(r) \/ StopRead(r) \/ StopKill(r)
             \/ StopDone(r) \/ StopEnd(r)
      PROVE  op'[Fix] = op[Fix]
  BY <1>1, <1>5 DEF Launch, StartReturns, StartTimeout, Confirmed, NotConfirmed,
     Polled, StopRead, StopKill, StopDone, StopEnd, Launched, Release, Goto, Begin,
     OpFn
<1>6. ASSUME NEW r \in Sups,
             \/ SupUp(r) \/ MainReload(r) \/ MainLock(r) \/ MainLeave(r)
             \/ SupStart(r) \/ HungKill(r) \/ HungEnd(r) \/ DupEnd(r)
             \/ BackoffOver(r) \/ WatchHung(r)
      PROVE  op'[Fix] = op[Fix]
  BY <1>1, <1>6 DEF SupUp, MainReload, MainLock, MainLeave, SupStart, HungKill,
     HungEnd, DupEnd, BackoffOver, WatchHung, Release, Goto, Begin, OpFn
<1>7. ASSUME NEW r \in Sups, WatchCheck(r)
      PROVE  op'[Fix] = op[Fix]
  BY <1>1, <1>7 DEF WatchCheck, WatchStart, Begin, OpFn
<1>8. ASSUME NEW r \in Sups, NEW q \in Sups,
             MutualPurge(q, r) \/ MainExit(r) \/ SupCrash(r)
      PROVE  op'[Fix] = op[Fix]
  <2>1. \E K \in SUBSET Sups : op' = KilledOps(K)
    BY <1>8 DEF MutualPurge, MainExit, SupCrash
  <2> QED BY <1>1, <1>2, <2>1
<1>9. ASSUME CliKill
      PROVE  op'[Fix] = op[Fix]
  <2>1. \E K \in SUBSET (Sups \cup {Cli}) : op' = KilledOps(K)
    <3>1. PICK K \in SUBSET Sups : op' = KilledOps(K \cup {Cli})
      BY <1>9 DEF CliKill
    <3>2. K \cup {Cli} \in SUBSET (Sups \cup {Cli})
      OBVIOUS
    <3> QED BY <3>1, <3>2
  <2> QED BY <1>1, <1>2, <2>1
<1>10. ASSUME CliStart \/ CliTerm \/ CliGone \/ ManualStart \/ ManualStop \/ Pull
       PROVE  op'[Fix] = op[Fix]
  BY <1>1, <1>10 DEF CliStart, CliTerm, CliGone, ManualStart, ManualStop, Pull, Begin,
     OpFn
<1>11. ASSUME NEW p \in Pid,
              \/ Exec(p) \/ Boot(p) \/ WritePid(p) \/ HandleTerm(p) \/ Exit(p)
              \/ Die(p) \/ Crash(p) \/ FallSilent(p) \/ Resume(p)
       PROVE  op'[Fix] = op[Fix]
  BY <1>11 DEF Exec, Boot, WritePid, HandleTerm, Exit, Die, Crash, FallSilent, Resume
<1>12. ASSUME NEW h \in Pid \cup {None}, HelperRead(h) \/ HelperTerm(h) \/ HelperEnd(h)
       PROVE  op'[Fix] = op[Fix]
  BY <1>12 DEF HelperRead, HelperTerm, HelperEnd
<1>13. CASE UNCHANGED vars
  BY <1>13
<1> QED BY <1>1, <1>3, <1>4, <1>5, <1>6, <1>7, <1>8, <1>9, <1>10, <1>11, <1>12, <1>13
        DEF Next, DaemonStep, HelperStep, MainStep, LockedStep, PurgeStep, CliStep

-----------------------------------------------------------------------------
(* Steps of the repair *)

\* What a repair may do to supervisor s: nothing, or nothing but ask for a reload; or
\* s ends, or is started, and then has no lock and has done nothing.
Touched(s) ==
    /\ sup'[s].st = "off" => sup[s].st = "off"
    /\ \/ /\ op'[s] = op[s] /\ sup'[s].st = sup[s].st /\ sup'[s].main = sup[s].main
          /\ sup'[s].stopping = sup[s].stopping /\ (sup[s].hup => sup'[s].hup)
       \/ /\ op'[s].pc = "idle" /\ op'[s].goal # "stop"
          /\ sup'[s].main = "none" /\ sup'[s].st \in {"checked", "dead"}

\* Whatever the supervisors were doing, such a step keeps their invariant.
LEMMA TouchKeeps ==
    ASSUME SupInv, TypeOK', UNCHANGED <<budget, pulls>>, AllGoOn,
           \A s \in Sups : Touched(s)
    PROVE  SupInv'
<1> USE DEF Touched
<1>1. TypeOK /\ BudgetInv /\ LockInv
  BY DEF SupInv
<1>2. BudgetInv' /\ PsReliable' = PsReliable
  BY <1>1 DEF BudgetInv, PsReliable
<1>3. \A p \in Pid : /\ OnDuty(p)' => OnDuty(p)
                     /\ p \in Running' => p \in Running
                     /\ p \in Running' /\ Fresh(p) => Fresh(p)'
  BY DEF AllGoOn, GoesOn, OnDuty, AtWork, Running, Fresh, St
<1>4. ASSUME NEW s \in Sups
      PROVE  /\ op'[s].pc # "idle" =>
                   op'[s] = op[s] /\ sup'[s].st = sup[s].st /\ sup'[s].main = sup[s].main
             /\ Active(s)' => Active(s)
             /\ Alone(s)' => Alone(s)
             /\ Heeded(s)' => Heeded(s) /\ op'[s] = op[s]
             /\ sup'[s].main = "exit" => sup[s].main = "exit"
             /\ sup'[s].st = "stopped" => sup[s].st = "stopped"
  BY DEF Active, Alone, Heeded
<1>5. LockInv'
  <2>1. \A s \in Sups : Locked(s)'
    BY <1>1 DEF LockInv, Locked, Pc
  <2>2. ASSUME NEW s \in Sups, op'[s].pc = "purgeWait", NEW p \in Pid \cap op'[s].targets
        PROVE  daemon'[p].st \notin Starting
    <3>1. op'[s] = op[s]
      BY <1>4, <2>2
    <3>2. St(p) \notin Starting
      BY <1>1, <2>2, <3>1 DEF LockInv, Pc, Starting
    <3> QED BY <3>2 DEF AllGoOn, GoesOn, Starting
  <2> QED BY <2>1, <2>2 DEF LockInv, Locked, Pc, St, Starting
<1>6. ASSUME PsReliable'
      PROVE  /\ OneActiveSupervisor' /\ OneLaunchedDaemon'
             /\ \A s \in Sups : PurgeInv(s)' /\ ReloadInv(s)'
  <2>1. /\ OneActiveSupervisor /\ OneLaunchedDaemon
        /\ \A s \in Sups : PurgeInv(s) /\ ReloadInv(s)
    BY <1>2, <1>6 DEF SupInv
  <2>2. OneActiveSupervisor'
    BY <1>2, <1>4, <1>6, <2>1 DEF OneActiveSupervisor
  <2>3. OneLaunchedDaemon'
    <3>1. \A p, q \in Pid : OnDuty(p) /\ OnDuty(q) => p = q
      BY <1>2, <1>6, <2>1 DEF OneLaunchedDaemon, OnDuty, AtWork
    <3>2. \A p, q \in Pid : OnDuty(p)' /\ OnDuty(q)' => p = q
      BY <1>3, <3>1
    <3> QED BY <3>2 DEF OneLaunchedDaemon, OnDuty, AtWork, Running, St
  <2>4. NoneAtWork => NoneAtWork'
    BY <1>3 DEF NoneAtWork, OnDuty
  <2>5. ASSUME NEW s \in Sups PROVE PurgeInv(s)'
    <3>1. op'[s].pc \in Purging => \A p \in Pid : OnDuty(p)' => p \in op'[s].targets
      BY <1>3, <1>4, <2>1 DEF PurgeInv, Pc, Purging, OnDuty
    <3>2. op'[s].pc \in {"purgeKilled", "stopEnd", "spawn"} => NoneAtWork'
      BY <1>4, <2>1, <2>4 DEF PurgeInv, Pc
    <3>3. Alone(s)' /\ (sup'[s].main = "exit" \/ sup'[s].st = "stopped") => NoneAtWork'
      BY <1>4, <2>1, <2>4 DEF PurgeInv
    <3> QED BY <3>1, <3>2, <3>3 DEF PurgeInv, Pc, Purging, OnDuty
  <2>6. ASSUME NEW s \in Sups PROVE ReloadInv(s)'
    <3> SUFFICES ASSUME Heeded(s)'
                 PROVE  /\ op'[s].pc \in SettledPcs => \A p \in Running' : Fresh(p)'
                        /\ op'[s].pc \in Purging =>
                              \A p \in Running' : Fresh(p)' \/ p \in op'[s].targets
      BY DEF ReloadInv, Pc, Purging
    <3>1. Heeded(s) /\ op'[s] = op[s]
      BY <1>4
    <3>2. \A p \in Running' : p \in Pid
      BY DEF Running
    <3> QED BY <1>3, <2>1, <3>1, <3>2 DEF ReloadInv, Pc, Purging
  <2> QED BY <2>2, <2>3, <2>5, <2>6
<1> QED BY <1>2, <1>5, <1>6 DEF SupInv

\* Every step of the repair is of that kind.
Gentle ==
    /\ TypeOK' /\ UNCHANGED <<budget, pulls>> /\ AllGoOn
    /\ \A s \in Sups : Touched(s)

\* A step that changes no process is, whatever it writes to the pid files and
\* notes of its own progress.
LEMMA GentleNotes ==
    ASSUME TypeOK, UNCHANGED <<mode, saved, daemon, sup, helper, pulls, budget>>,
           pidfile' \in Pid \cup {None}, supfile' \in Sups \cup {None},
           op' = op \/ \E e \in Operation : op' = [op EXCEPT ![Fix] = e]
    PROVE  Gentle
<1>1. Fix \in Actors /\ op \in OpFn /\ \A s \in Sups : s \in Actors /\ s # Fix
  BY DEF TypeOK, OpFn, Actors
<1>2. op' \in OpFn /\ \A s \in Sups : op'[s] = op[s]
  BY <1>1 DEF OpFn
<1>3. TypeOK'
  BY <1>2 DEF TypeOK, OpFn
<1>4. AllGoOn
  BY DEF AllGoOn, GoesOn, St
<1>5. \A s \in Sups : Touched(s)
  BY <1>2 DEF Touched
<1> QED BY <1>3, <1>4, <1>5 DEF Gentle

\* So is a signal to a daemon, ...
LEMMA GentleSignals ==
    ASSUME TypeOK, UNCHANGED <<mode, saved, pidfile, sup, supfile, op, helper, pulls, budget>>,
           NEW T, SigTerm(T) \/ SigKill(T)
    PROVE  Gentle
<1>1. daemon' \in [Pid -> DaemonProcess]
  BY SignalTypes DEF TypeOK
<1>2. TypeOK'
  BY <1>1 DEF TypeOK
<1>3. AllGoOn
  BY SignalEffect
<1>4. \A s \in Sups : Touched(s)
  BY DEF Touched
<1> QED BY <1>2, <1>3, <1>4 DEF Gentle

\* ... and SIGKILL to supervisors that are alive.
LEMMA GentleKills ==
    ASSUME TypeOK, UNCHANGED <<mode, saved, daemon, pidfile, supfile, helper, pulls, budget>>,
           NEW K, \A s \in K : SupAlive(s), sup' = KilledSups(K), op' = KilledOps(K)
    PROVE  Gentle
<1>1. \A s \in Sups : s \in Actors
  BY DEF Actors
<1>2. ASSUME NEW s \in Sups PROVE Touched(s)
  <2>1. CASE s \in K
    <3>1. sup'[s] = NoSup("dead") /\ op'[s] = Idle
      BY <1>1, <2>1 DEF KilledSups, KilledOps
    <3> QED BY <3>1 DEF Touched, NoSup, Idle
  <2>2. CASE s \notin K
    <3>1. sup'[s] = sup[s] /\ op'[s] = op[s]
      BY <1>1, <2>2 DEF KilledSups, KilledOps
    <3> QED BY <3>1 DEF Touched
  <2> QED BY <2>1, <2>2
<1>3. sup' \in [Sups -> SupProcess] /\ op' \in [Actors -> Operation]
  BY FreshRecords DEF TypeOK, KilledSups, KilledOps
<1>4. TypeOK'
  BY <1>3 DEF TypeOK
<1>5. AllGoOn
  BY DEF AllGoOn, GoesOn, St
<1> QED BY <1>2, <1>4, <1>5 DEF Gentle

\* What the snapshot and the repairs note in op[Fix].
LEMMA Notes ==
    ASSUME TypeOK
    PROVE  /\ op[Fix] \in Operation /\ Fix \in Actors /\ op \in OpFn
           /\ \A p \in Pid \cup {None}, T \in SUBSET Pid :
                [Idle EXCEPT !.pid = p, !.targets = T] \in Operation
           /\ \A T \in SUBSET (Pid \cup Sups) : [op[Fix] EXCEPT !.targets = T] \in Operation
<1>1. op[Fix] \in Operation /\ Fix \in Actors /\ op \in OpFn
  BY DEF TypeOK, Actors, OpFn
<1>2. Idle \in Operation
  BY FreshRecords
<1> QED BY <1>1, <1>2 DEF Operation

\* Every step of the repair.
LEMMA GentleRepair ==
    ASSUME SupInv, FixTypeOK, FixStep
    PROVE  Gentle
<1>1. TypeOK /\ LockInv
  BY DEF SupInv
<1>2. /\ pidfile \in Pid \cup {None} /\ supfile \in Sups \cup {None}
      /\ fix.keepSup \in Sups \cup {None} /\ KeepDaemon \in Pid \cup {None}
      /\ op[Fix].targets \in SUBSET (Pid \cup Sups)
  BY <1>1, Notes DEF TypeOK, FixTypeOK, KeepDaemon, Operation
<1>3. ASSUME FixStart
      PROVE  Gentle
  <2>1. /\ UNCHANGED <<mode, saved, daemon, pidfile, sup, supfile, helper, pulls, budget>>
        /\ \E p \in Pid \cup {None}, T \in SUBSET Pid :
              op' = [op EXCEPT ![Fix] = [Idle EXCEPT !.pid = p, !.targets = T]]
    BY <1>3 DEF FixStart, Listable, Running
  <2> QED BY <1>1, <1>2, <2>1, Notes, GentleNotes
<1>4. ASSUME NEW item \in Questions, Look(item) \/ Decline(item)
      PROVE  Gentle
  BY <1>1, <1>2, <1>4, GentleNotes DEF Look, Decline
<1>5. ASSUME FixSups
      PROVE  Gentle
  BY <1>1, <1>5, GentleKills DEF FixSups
<1>6. ASSUME FixDaemon
      PROVE  Gentle
  <2>1. PICK p \in ExtraDaemons :
           \/ SigTerm({p}) /\ UNCHANGED op
           \/ op' = [op EXCEPT ![Fix].targets = op[Fix].targets \ {p}] /\ UNCHANGED daemon
    BY <1>6 DEF FixDaemon
  <2>2. UNCHANGED <<mode, saved, pidfile, sup, supfile, helper, pulls, budget>>
    BY <1>6 DEF FixDaemon
  <2>3. CASE SigTerm({p}) /\ UNCHANGED op
    BY <1>1, <2>2, <2>3, GentleSignals
  <2>4. CASE op' = [op EXCEPT ![Fix].targets = op[Fix].targets \ {p}] /\ UNCHANGED daemon
    <3>1. PICK e \in Operation : op' = [op EXCEPT ![Fix] = e]
      <4>1. op' = [op EXCEPT ![Fix] = [op[Fix] EXCEPT !.targets = op[Fix].targets \ {p}]]
        BY <2>4
      <4>2. op[Fix].targets \ {p} \in SUBSET (Pid \cup Sups)
        BY <1>2
      <4> QED BY <1>1, <4>1, <4>2, Notes
    <3> QED BY <1>1, <1>2, <2>2, <2>4, <3>1, GentleNotes
  <2> QED BY <2>1, <2>3, <2>4
<1>7. ASSUME FixKill
      PROVE  Gentle
  BY <1>1, <1>7, GentleSignals DEF FixKill
<1>8. ASSUME FixStopped
      PROVE  Gentle
  <2>1. PICK e \in Operation : op' = [op EXCEPT ![Fix] = e]
    <3>1. op' = [op EXCEPT ![Fix] = [op[Fix] EXCEPT !.targets = op[Fix].targets \ {fix.cur}]]
      BY <1>8 DEF FixStopped
    <3>2. op[Fix].targets \ {fix.cur} \in SUBSET (Pid \cup Sups)
      BY <1>2
    <3> QED BY <1>1, <3>1, <3>2, Notes
  <2> QED BY <1>1, <1>2, <1>8, <2>1, GentleNotes DEF FixStopped
<1>9. ASSUME FixFile("dfile") \/ FixFile("sfile") \/ FixIdFile
      PROVE  Gentle
  BY <1>1, <1>2, <1>9, GentleNotes DEF FixFile, FixIdFile
<1>10. ASSUME FixHup
       PROVE  Gentle
  <2>1. /\ UNCHANGED <<mode, saved, daemon, pidfile, supfile, helper, pulls, budget>>
        /\ \/ /\ fix.keepSup \in Sups /\ sup[fix.keepSup].st = "up" /\ UNCHANGED op
              /\ sup' = [sup EXCEPT ![fix.keepSup].hup = TRUE]
           \/ /\ sup' = KilledSups({s \in {fix.keepSup} : SupAlive(s)})
              /\ op' = KilledOps({s \in {fix.keepSup} : SupAlive(s)})
    BY <1>10 DEF FixHup, SupAlive
  <2>2. ASSUME NEW r \in Sups, UNCHANGED op, sup' = [sup EXCEPT ![r].hup = TRUE]
        PROVE  Gentle
    <3>1. sup \in SupFn
      BY <1>1 DEF TypeOK, SupFn
    <3>2. sup' \in SupFn
      BY <2>2, <3>1, SupFields
    <3>3. TypeOK'
      BY <1>1, <2>1, <2>2, <3>2 DEF TypeOK, SupFn
    <3>4. \A s \in Sups : Touched(s)
      BY <2>2, <3>1 DEF Touched, SupFn, SupProcess
    <3>5. AllGoOn
      BY <2>1 DEF AllGoOn, GoesOn, St
    <3> QED BY <2>1, <3>3, <3>4, <3>5 DEF Gentle
  <2> QED BY <1>1, <2>1, <2>2, GentleKills
<1>11. ASSUME FixLaunch
       PROVE  Gentle
  <2>1. PICK r \in Sups : sup[r].st = "off" /\ Start(r)
    BY <1>11 DEF FixLaunch
  <2>2. UNCHANGED <<mode, saved, daemon, pidfile, op, helper, pulls, budget>>
    BY <1>11 DEF FixLaunch
  <2>3. /\ sup' = [sup EXCEPT ![r] = NoSup("dead")] \/ sup' = [sup EXCEPT ![r].st = "checked"]
        /\ supfile' \in Sups \cup {None} /\ sup \in SupFn
    BY <1>1, <1>2, <2>1 DEF Start, TypeOK, SupFn
  <2>4. sup' \in SupFn
    <3>1. NoSup("dead") \in SupProcess
      BY FreshRecords
    <3>2. CASE sup' = [sup EXCEPT ![r] = NoSup("dead")]
      BY <2>3, <3>1, <3>2 DEF SupFn
    <3>3. CASE sup' = [sup EXCEPT ![r].st = "checked"]
      BY <2>3, <3>3, SupFields DEF SupStates
    <3> QED BY <2>3, <3>2, <3>3
  <2>5. TypeOK'
    BY <1>1, <2>2, <2>3, <2>4 DEF TypeOK, SupFn
  <2>6. Pc(r) = "idle" /\ sup[r].main = "none" /\ op[r].goal # "stop"
    BY <1>1, <2>1 DEF LockInv
  <2>7. \A s \in Sups : Touched(s)
    <3>1. /\ \A s \in Sups \ {r} : sup'[s] = sup[s]
          /\ sup'[r].main = "none" /\ sup'[r].st \in {"checked", "dead"}
      BY <2>3, <2>6 DEF SupFn, SupProcess, NoSup
    <3> QED BY <2>2, <2>6, <3>1 DEF Touched, Pc
  <2>8. AllGoOn
    BY <2>2 DEF AllGoOn, GoesOn, St
  <2> QED BY <2>2, <2>5, <2>7, <2>8 DEF Gentle
<1> QED BY <1>3, <1>4, <1>5, <1>6, <1>7, <1>8, <1>9, <1>10, <1>11 DEF FixStep

-----------------------------------------------------------------------------
(* Where the repair is *)

Places == {"off", "sups", "daemons", "daemonWait", "daemonKilled", "dfile", "sfile",
           "idfile", "hup", "launch", "done"}
FixRecord ==
    [pc : Places, asked : BOOLEAN, keepSup : Sups \cup {None}, extraSups : SUBSET Sups,
     cur : Pid \cup {None}, problem : BOOLEAN, partial : BOOLEAN, calm : BOOLEAN]

\* The item that follows.
LEMMA NextItems == \A item \in Questions : NextItem(item) \in Places
<1>1. ASSUME NEW i \in 1 .. 7 PROVE NextItem(Items[i]) = Items[i + 1]
  <2>1. \A j \in 1 .. Len(Items) : Items[j] = Items[i] <=> j = i
    BY DEF Items
  <2>2. i \in 1 .. Len(Items)
    BY DEF Items
  <2>3. (CHOOSE j \in 1 .. Len(Items) : Items[j] = Items[i]) = i
    BY <2>1, <2>2
  <2> QED BY <2>3 DEF NextItem
<1>2. \A i \in 1 .. 7 : Items[i + 1] \in Places
  BY DEF Items, Places
<1>3. \A item \in Questions : \E i \in 1 .. 7 : item = Items[i]
  <2>1. /\ Items[1] = "sups" /\ Items[2] = "daemons" /\ Items[3] = "dfile"
        /\ Items[4] = "sfile" /\ Items[5] = "idfile" /\ Items[6] = "hup"
        /\ Items[7] = "launch"
    BY DEF Items
  <2> QED BY <2>1 DEF Questions
<1> QED BY <1>1, <1>2, <1>3

\* The fields of the repair, one at a time.
LEMMA FixFields ==
    ASSUME NEW x \in FixRecord
    PROVE  /\ \A pc \in Places : [x EXCEPT !.pc = pc] \in FixRecord
           /\ \A b \in BOOLEAN : [x EXCEPT !.asked = b] \in FixRecord
           /\ \A b \in BOOLEAN : [x EXCEPT !.problem = b] \in FixRecord
           /\ \A b \in BOOLEAN : [x EXCEPT !.partial = b] \in FixRecord
           /\ \A b \in BOOLEAN : [x EXCEPT !.calm = b] \in FixRecord
           /\ \A s \in Sups \cup {None} : [x EXCEPT !.keepSup = s] \in FixRecord
           /\ \A S \in SUBSET Sups : [x EXCEPT !.extraSups = S] \in FixRecord
           /\ \A p \in Pid \cup {None} : [x EXCEPT !.cur = p] \in FixRecord
  BY DEF FixRecord

\* What the repair does to its own variables: nothing but go on with its items,
\* unless it takes its snapshot or picks the daemon to stop.
Goes ==
    /\ fix.pc \in Questions
    /\ fix'.keepSup = fix.keepSup /\ fix'.extraSups = fix.extraSups
    /\ fix'.cur = fix.cur

\* Going past an item.
LEMMA PastGoes ==
    ASSUME FixTypeOK, NEW item \in Questions, NEW partial \in BOOLEAN, Past(item, partial),
           fix.pc = item
    PROVE  fix' \in FixRecord /\ Goes
<1>1. fix \in FixRecord
  BY DEF FixTypeOK, FixRecord, Places
<1>2. NextItem(item) \in Places
  BY NextItems
<1>3. (fix.partial \/ partial) \in BOOLEAN
  OBVIOUS
<1>4. (IF item = "idfile" THEN idfile = "bad" ELSE fix.problem) \in BOOLEAN
  BY <1>1 DEF FixRecord
<1>5. PICK pc \in Places, b \in BOOLEAN, c \in BOOLEAN :
        fix' = [fix EXCEPT !.pc = pc, !.asked = FALSE, !.problem = b, !.partial = c]
  BY <1>2, <1>3, <1>4 DEF Past
<1>6. fix' \in FixRecord
  BY <1>1, <1>5, FixFields
<1> QED BY <1>1, <1>5, <1>6 DEF Goes, FixRecord

\* What is kept is spared as long as the repair only goes on.
LEMMA GoesSpares ==
    ASSUME KeptAreSpared, Goes, op'[Fix] = op[Fix]
    PROVE  KeptAreSpared'
<1>1. fix.cur = None
  BY DEF Goes, KeptAreSpared, Questions
<1> QED BY <1>1 DEF Goes, KeptAreSpared, KeepDaemon, ExtraDaemons

\* The repair keeps its type, and spares what it keeps.
LEMMA RepairSteps ==
    ASSUME TypeOK, FixTypeOK, KeptAreSpared, FixStep
    PROVE  FixTypeOK' /\ KeptAreSpared'
<1>1. fix \in FixRecord /\ idfile \in {"good", "bad", "rebuilt"}
  BY DEF FixTypeOK, FixRecord, Places
<1>2. op \in OpFn /\ Fix \in Actors /\ op[Fix] \in Operation
  BY Notes
<1> DEFINE Fine == fix' \in FixRecord /\ KeptAreSpared'
<1>3. ASSUME FixStart
      PROVE  Fine
  <2>1. PICK s \in Sups \cup {None}, p \in Pid \cup {None}, S \in SUBSET Sups,
             b \in BOOLEAN :
          /\ s \notin S
          /\ fix' = [fix EXCEPT !.pc = "sups", !.keepSup = s, !.extraSups = S, !.calm = b]
          /\ op' = [op EXCEPT ![Fix] = [Idle EXCEPT !.pid = p,
                                                    !.targets = Listable \ {p}]]
    <3>1. PICK s \in {r \in Sups : SupAlive(r)} \cup {None}, p \in Listable \cup {None} :
            /\ fix' = [fix EXCEPT !.pc = "sups", !.keepSup = s,
                                  !.extraSups = {r \in Sups : SupAlive(r)} \ {s},
                                  !.calm = budget["all"] = 0]
            /\ op' = [op EXCEPT ![Fix] = [Idle EXCEPT !.pid = p,
                                                      !.targets = Listable \ {p}]]
      BY <1>3 DEF FixStart
    <3>2. /\ s \in Sups \cup {None} /\ p \in Pid \cup {None}
          /\ {r \in Sups : SupAlive(r)} \ {s} \in SUBSET Sups
          /\ s \notin {r \in Sups : SupAlive(r)} \ {s}
          /\ (budget["all"] = 0) \in BOOLEAN
      BY DEF Listable, Running
    <3> QED BY <3>1, <3>2
  <2>2. "sups" \in Places
    BY DEF Places
  <2>3. fix' \in FixRecord
    BY <1>1, <2>1, <2>2, FixFields
  <2>4. fix.cur = None
    BY <1>3 DEF FixStart, KeptAreSpared
  <2>5. fix'.keepSup = s /\ fix'.extraSups = S /\ fix'.cur = None
    BY <1>1, <2>1, <2>4 DEF FixRecord
  <2>6. op'[Fix].pid \notin op'[Fix].targets
    <3>1. op'[Fix] = [Idle EXCEPT !.pid = p, !.targets = Listable \ {p}]
      BY <1>2, <2>1 DEF OpFn
    <3> QED BY <3>1 DEF Idle
  <2> QED BY <2>1, <2>3, <2>5, <2>6 DEF KeptAreSpared, KeepDaemon, ExtraDaemons
<1>4. ASSUME NEW item \in Questions, Look(item)
      PROVE  Fine
  <2>1. fix.pc = item /\ UNCHANGED op
    BY <1>4 DEF Look
  <2>2. CASE Past(item, FALSE)
    BY <2>1, <2>2, PastGoes, GoesSpares
  <2>3. CASE fix' = [fix EXCEPT !.asked = TRUE,
                                !.problem = fix.problem \/ item = "idfile"]
    <3>1. (fix.problem \/ item = "idfile") \in BOOLEAN
      OBVIOUS
    <3>2. PICK b \in BOOLEAN : fix' = [fix EXCEPT !.asked = TRUE, !.problem = b]
      BY <2>3, <3>1
    <3>3. fix' \in FixRecord
      BY <1>1, <3>2, FixFields
    <3>4. Goes
      BY <1>1, <2>1, <3>2 DEF Goes, FixRecord
    <3> QED BY <2>1, <3>3, <3>4, GoesSpares
  <2> QED BY <1>4, <2>2, <2>3 DEF Look
<1>5. ASSUME NEW item \in Questions, Decline(item)
      PROVE  Fine
  BY <1>5, PastGoes, GoesSpares DEF Decline
<1>6. ASSUME FixSups
      PROVE  Fine
  <2>1. op'[Fix] = op[Fix]
    BY <1>2, <1>6 DEF FixSups, KilledOps, SupAlive
  <2>2. "sups" \in Questions /\ fix.pc = "sups"
    BY <1>6 DEF FixSups, Agreed, Questions
  <2>3. (\E s \in fix.extraSups : ~SupAlive(s)) \in BOOLEAN
    OBVIOUS
  <2>4. PICK b \in BOOLEAN : Past("sups", b)
    BY <1>6, <2>3 DEF FixSups
  <2> QED BY <2>1, <2>2, <2>4, PastGoes, GoesSpares
<1>7. ASSUME FixDaemon
      PROVE  Fine
  <2>1. fix.pc = "daemons" /\ fix.cur = None
    BY <1>7 DEF FixDaemon, Agreed, KeptAreSpared
  <2>2. ASSUME NEW p \in ExtraDaemons, Alive(p), UNCHANGED op,
               fix' = [fix EXCEPT !.pc = "daemonWait", !.asked = FALSE, !.cur = p]
        PROVE  Fine
    <3>1. fix' \in FixRecord
      <4>1. p \in Pid \cup {None} /\ "daemonWait" \in Places
        BY <2>2 DEF Alive, Places
      <4> QED BY <1>1, <2>2, <4>1, FixFields
    <3>2. /\ fix'.pc = "daemonWait" /\ fix'.cur = p
          /\ fix'.keepSup = fix.keepSup /\ fix'.extraSups = fix.extraSups
      BY <1>1, <2>2 DEF FixRecord
    <3> QED BY <2>2, <3>1, <3>2 DEF KeptAreSpared, KeepDaemon, ExtraDaemons
  <2>3. ASSUME NEW p \in ExtraDaemons,
               op' = [op EXCEPT ![Fix].targets = op[Fix].targets \ {p}],
               fix' = [fix EXCEPT !.asked = FALSE, !.partial = TRUE]
        PROVE  Fine
    <3>1. fix' \in FixRecord
      BY <1>1, <2>3, FixFields
    <3>2. /\ fix'.cur = None
          /\ fix'.keepSup = fix.keepSup /\ fix'.extraSups = fix.extraSups
      BY <1>1, <2>1, <2>3 DEF FixRecord
    <3>3. op'[Fix].pid = op[Fix].pid /\ op'[Fix].targets \subseteq op[Fix].targets
      BY <1>2, <2>3 DEF OpFn, Operation
    <3> QED BY <3>1, <3>2, <3>3 DEF KeptAreSpared, KeepDaemon, ExtraDaemons
  <2> QED BY <1>7, <2>2, <2>3 DEF FixDaemon
<1>8. ASSUME FixKill
      PROVE  Fine
  <2>1. fix' = [fix EXCEPT !.pc = "daemonKilled"] /\ UNCHANGED op
    BY <1>8 DEF FixKill
  <2>2. fix' \in FixRecord
    BY <1>1, <2>1, FixFields DEF Places
  <2>3. /\ fix'.cur = fix.cur /\ fix'.pc = "daemonKilled"
        /\ fix'.keepSup = fix.keepSup /\ fix'.extraSups = fix.extraSups
    BY <1>1, <2>1 DEF FixRecord
  <2> QED BY <2>1, <2>2, <2>3 DEF KeptAreSpared, KeepDaemon, ExtraDaemons
<1>9. ASSUME FixStopped
      PROVE  Fine
  <2>1. PICK b \in BOOLEAN :
           fix' = [fix EXCEPT !.pc = "daemons", !.cur = None, !.partial = b]
    <3>1. (fix.partial \/ Alive(fix.cur)) \in BOOLEAN
      OBVIOUS
    <3> QED BY <1>9, <3>1 DEF FixStopped
  <2>2. fix' \in FixRecord
    BY <1>1, <2>1, FixFields DEF Places
  <2>3. /\ fix'.cur = None
        /\ fix'.keepSup = fix.keepSup /\ fix'.extraSups = fix.extraSups
    BY <1>1, <2>1 DEF FixRecord
  <2>4. op'[Fix].pid = op[Fix].pid /\ op'[Fix].targets \subseteq op[Fix].targets
    <3>1. op' = [op EXCEPT ![Fix].targets = op[Fix].targets \ {fix.cur}]
      BY <1>9 DEF FixStopped
    <3> QED BY <1>2, <3>1 DEF OpFn, Operation
  <2> QED BY <2>2, <2>3, <2>4 DEF KeptAreSpared, KeepDaemon, ExtraDaemons
<1>10. ASSUME FixFile("dfile") \/ FixFile("sfile") \/ FixIdFile \/ FixLaunch
       PROVE  Fine
  <2>1. PICK item \in Questions : fix.pc = item /\ Past(item, FALSE) /\ UNCHANGED op
    BY <1>10 DEF FixFile, FixIdFile, FixLaunch, Agreed, Questions
  <2> QED BY <2>1, PastGoes, GoesSpares
<1>11. ASSUME FixHup
       PROVE  Fine
  <2>1. op'[Fix] = op[Fix]
    BY <1>2, <1>11 DEF FixHup, KilledOps, SupAlive
  <2>2. "hup" \in Questions /\ fix.pc = "hup"
    BY <1>11 DEF FixHup, Agreed, Questions
  <2>3. (~(SupAlive(fix.keepSup) /\ sup[fix.keepSup].st = "up")) \in BOOLEAN
    OBVIOUS
  <2>4. PICK b \in BOOLEAN : Past("hup", b)
    BY <1>11, <2>3 DEF FixHup
  <2> QED BY <2>1, <2>2, <2>4, PastGoes, GoesSpares
<1>12. idfile' \in {"good", "bad", "rebuilt"}
  BY <1>1 DEF FixStep, FixStart, Look, Decline, FixSups, FixDaemon, FixKill, FixStopped,
     FixFile, FixIdFile, FixHup, FixLaunch
<1>13. Fine
  <2> HIDE DEF Fine
  <2> QED BY <1>3, <1>4, <1>5, <1>6, <1>7, <1>8, <1>9, <1>10, <1>11 DEF FixStep
<1> QED BY <1>12, <1>13 DEF FixTypeOK, FixRecord, Places

-----------------------------------------------------------------------------
(* The theorems *)

\* A repair at any moment, on whatever it has observed before, keeps the invariant of
\* the supervisors, and spares the processes that it keeps (diagnose_daemon.py:1371).
THEOREM RepairInvHolds == FixSpec => []RepairInv
<1>1. FixInit => RepairInv
  <2> SUFFICES ASSUME FixInit PROVE RepairInv
    OBVIOUS
  <2>1. SupInv
    BY Initially DEF FixInit
  <2>2. fix.keepSup = None /\ fix.extraSups = {} /\ fix.cur = None /\ FixTypeOK
    BY DEF FixInit, FixTypeOK
  <2>3. op[Fix] = Idle
    BY DEF FixInit, InitWith, Actors
  <2> QED BY <2>1, <2>2, <2>3 DEF RepairInv, KeptAreSpared, KeepDaemon, ExtraDaemons, Idle
<1>2. ASSUME RepairInv, [FixNext]_fixVars PROVE RepairInv'
  <2>1. SupInv /\ TypeOK /\ FixTypeOK /\ KeptAreSpared
    BY <1>2 DEF RepairInv, SupInv
  <2>2. CASE [Next]_vars /\ UNCHANGED <<fix>> /\ idfile' \in {idfile, "good"}
    <3>1. SupInv'
      BY <2>1, <2>2, SupInvStep
    <3>2. op'[Fix] = op[Fix]
      BY <2>1, <2>2, RepairFrame
    <3>3. FixTypeOK'
      BY <2>1, <2>2 DEF FixTypeOK
    <3>4. KeptAreSpared'
      BY <2>1, <2>2, <3>2 DEF KeptAreSpared, KeepDaemon, ExtraDaemons
    <3> QED BY <3>1, <3>3, <3>4 DEF RepairInv
  <2>3. CASE FixStep
    <3>1. SupInv'
      BY <2>1, <2>3, GentleRepair, TouchKeeps DEF Gentle
    <3> QED BY <2>1, <2>3, <3>1, RepairSteps DEF RepairInv
  <2> QED BY <1>2, <2>2, <2>3 DEF FixNext, Save
<1> QED BY <1>1, <1>2, PTL DEF FixSpec

\* So the promises of the supervisors stand while the processes are repaired: no two
\* of them are active, and, but for daemons that slipped through a purge of theirs, no
\* two of their daemons are at work, a stop leaves none, and no reload is lost
\* (supervisor.py:441, 1142, 1147).
THEOREM RepairKeepsPromises ==
    FixSpec => [](OneActiveSupervisor /\ OneLaunchedDaemon /\ CleanStop /\ NoLostReload)
<1>1. SupInv => OneActiveSupervisor /\ OneLaunchedDaemon
  BY DEF SupInv, OneActiveSupervisor, OneLaunchedDaemon
<1>2. SupInv => CleanStop
  BY DEF SupInv, CleanStop, PurgeInv, Alone, NoneAtWork, AtWork, Running
<1>3. SupInv => NoLostReload
  BY DEF SupInv, NoLostReload, ReloadInv, Heeded, Alone, SettledPcs, Fresh
<1>4. RepairInv => SupInv
  BY DEF RepairInv
<1> QED BY <1>1, <1>2, <1>3, <1>4, RepairInvHolds, PTL

=============================================================================
