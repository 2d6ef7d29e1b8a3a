----------------------------- MODULE Supervisor -----------------------------
(***************************************************************************)
(* supervisor.py and daemonizer.py: one or more supervisors own the life   *)
(* cycle of the event daemon.  A supervisor has a main thread, which       *)
(* launches, reloads (SIGHUP) and finally stops the daemon, and a watchdog *)
(* thread, which relaunches a daemon that is gone, replaces a hung one and *)
(* terminates duplicates.  A lock lets one of the two act at a time, so    *)
(* op[s] is the program counter of the thread of s that holds the lock.    *)
(* Daemons, 'stop' helpers, the 'supervisor.py stop' command and a user    *)
(* who starts and stops daemons by hand run concurrently with all that;    *)
(* processes meet in the process table and in two pid files.               *)
(*                                                                         *)
(* Time is abstract: a wait with a deadline either sees what it waits for  *)
(* or gives up, at any moment the other has not happened yet.              *)
(***************************************************************************)
EXTENDS Naturals, FiniteSets

CONSTANTS
    NumPids,      \* process ids for daemons; one is reused once nothing names it
    Sups,         \* the supervisor processes that may be started, once each
    Cli,          \* the process of 'supervisor.py stop'
    Tools,        \* other programs that hold process ids (see Repair)
    Modes,        \* subset of {"start", "foreground"}: how daemons are launched
    MaxFaults,    \* bound on crashes, hangs, slow starts, mutual kills
    MaxPsFaults,  \* bound on calls of ps that fail
    MaxPulls,     \* bound on code updates, each announced by a SIGHUP
    MaxManual,    \* bound on daemons started, and on daemons stopped, by hand
    MaxStops,     \* bound on 'supervisor.py stop' commands
    MaxEvents     \* bound on all of these and on further supervisors together

None == 0
Pid == 1 .. NumPids
Actors == Sups \cup {Cli} \cup Tools

ASSUME SupervisorAssumption ==
    /\ NumPids \in Nat \ {0}
    /\ IsFiniteSet(Sups)
    /\ Sups # {} /\ None \notin Sups /\ Cli \notin Sups \cup Tools
    /\ Tools \cap Sups = {}
    /\ Modes # {} /\ Modes \subseteq {"start", "foreground"}
    /\ MaxFaults \in Nat /\ MaxPsFaults \in Nat /\ MaxPulls \in Nat
    /\ MaxManual \in Nat /\ MaxStops \in Nat /\ MaxEvents \in Nat

VARIABLES
    mode,      \* child_mode, the same for every supervisor
    daemon,    \* the daemon processes
    pidfile,   \* DAEMON_PID_FILE
    sup,       \* the supervisor processes and the fields of SupervisorDaemon
    supfile,   \* SUPERVISOR_PID_FILE
    op,        \* the life-cycle operation each actor is in
    helper,    \* helper[p]: 'shotgunEventDaemon.py stop' launched to stop p
    pulls,     \* version of the code on disk
    saved,     \* the event id file exists; settled when a daemon falls silent
    budget     \* what is left of the bounds

vars == <<mode, saved, daemon, pidfile, sup, supfile, op, helper, pulls, budget>>

\* sudo: 'sudo python ... start' has not come to the daemon's script yet; boot:
\* 'start' runs, not yet forked; forked: about to write the pid file;
\* silent: up, but its main loop no longer saves (hung, or waiting for Shotgun);
\* termed: SIGTERM pending; draining: its handler has run; killed: SIGKILL sent.
DaemonStates == {"dead", "sudo", "boot", "forked", "up", "silent", "termed",
                 "draining", "killed"}
\* slipped (history): a supervisor's purge missed it, in one of two moments: it was
\* still 'sudo ...' when the processes were listed, or its parent was listed and
\* forked it before the SIGTERM (see PurgeList, Boot).
Gone == [st |-> "dead", ver |-> 0, byHand |-> FALSE, slipped |-> FALSE]
NoHelper == [pc |-> "done", target |-> None]
Idle == [pc |-> "idle", who |-> "main", goal |-> "none", targets |-> {},
         pid |-> None, ok |-> TRUE]
NoSup(st) == [st |-> st, main |-> "none", hup |-> FALSE, stopping |-> FALSE,
              tracked |-> None, handle |-> None]

InitWith(exists) ==
    /\ mode \in Modes
    /\ saved = exists
    /\ daemon = [p \in Pid |-> Gone]
    /\ pidfile = None
    /\ sup = [s \in Sups |-> NoSup("off")]
    /\ supfile = None
    /\ op = [a \in Actors |-> Idle]
    /\ helper = [p \in Pid \cup {None} |-> NoHelper]
    /\ pulls = 0
    /\ budget = [faults |-> MaxFaults, ps |-> MaxPsFaults, starts |-> MaxManual,
                 kills |-> MaxManual, stops |-> MaxStops, pulls |-> MaxPulls,
                 sups |-> Cardinality(Sups), all |-> MaxEvents]

\* Every daemon that is up may have saved the file, so FALSE is no restriction.
Init == InitWith(FALSE)

-----------------------------------------------------------------------------
(* The process table, signals and the pid files                            *)

St(p) == daemon[p].st
Alive(p) == p \in Pid /\ St(p) # "dead"
Running == {p \in Pid : St(p) # "dead"}
SupAlive(s) == s \in Sups /\ sup[s].st \in {"checked", "up"}
As(p, st) == IF st = "dead" THEN Gone ELSE [daemon[p] EXCEPT !.st = st]

Spend(what) == /\ budget[what] > 0 /\ budget["all"] > 0
               /\ budget' = [budget EXCEPT ![what] = @ - 1, !["all"] = @ - 1]

\* _list_running_daemon_pids: the live processes whose command line does not begin
\* with sudo, or nothing if ps fails.
Listable == {p \in Running : St(p) # "sudo"}
Ps(listed) ==
    \/ listed = Listable /\ UNCHANGED budget
    \/ listed = {} /\ Listable # {} /\ Spend("ps")

\* SIGTERM before the handler is installed kills; afterwards it is handled in
\* a later step, and never by a process that is hung for good (deaf).
SigTerm(T) ==
    \E deaf \in SUBSET {p \in T : St(p) = "silent"} :
        daemon' = [p \in Pid |->
            IF p \notin T \/ p \in deaf THEN daemon[p]
            ELSE CASE St(p) \in {"sudo", "boot", "forked"} -> Gone
                   [] St(p) \in {"up", "silent"}   -> As(p, "termed")
                   [] OTHER                        -> daemon[p]]

\* SIGKILL: the process disappears in a later step (Die).
SigKill(T) ==
    daemon' = [p \in Pid |-> IF p \in T /\ Alive(p) THEN As(p, "killed")
                             ELSE daemon[p]]

\* Daemon._delpid of a daemon: keeps a file that names another live process.
DelPid(p) == IF pidfile = p \/ ~Alive(pidfile) THEN None ELSE pidfile

\* The same for a supervisor.
DelSupPid(s) == IF supfile = s \/ ~SupAlive(supfile) THEN None ELSE supfile

Referenced ==
    {pidfile} \cup {sup[s].tracked : s \in Sups} \cup {sup[s].handle : s \in Sups}
    \cup {op[a].pid : a \in Actors} \cup UNION {op[a].targets : a \in Actors}
    \cup {helper[h].target : h \in DOMAIN helper}
    \cup {h \in DOMAIN helper : helper[h].pc # "done"}

\* The smallest process id that is free and that nothing names.
NewPid(p) ==
    /\ p \in Pid /\ ~Alive(p) /\ p \notin Referenced
    /\ \A q \in 1 .. (p - 1) : Alive(q) \/ q \in Referenced

-----------------------------------------------------------------------------
(* Daemons                                                                 *)

Pc(a) == op[a].pc

\* A supervisor has listed p and not signalled it yet.
Slipping(p) ==
    \E s \in Sups : Pc(s) \in {"purgeRead", "purgeTerm"} /\ p \in op[s].targets

Spawn(p, st, byHand) ==
    /\ NewPid(p)
    /\ daemon' = [daemon EXCEPT ![p] =
           [st |-> st, ver |-> pulls, byHand |-> byHand, slipped |-> FALSE]]

\* sudo runs the script: from here on ps lists it, and the code is read from disk.
Exec(p) ==
    /\ St(p) = "sudo"
    /\ daemon' = [daemon EXCEPT ![p].st = "boot", ![p].ver = pulls]
    /\ UNCHANGED <<mode, saved, pidfile, sup, supfile, op, helper, pulls, budget>>

\* Daemon.start up to the double fork: refuse if the pid file names a live
\* process (it may even be this one), else remove a stale file.  The process
\* that goes on has another pid.  'foreground' neither forks nor writes a file.
Boot(p) ==
    /\ St(p) = "boot"
    /\ IF Alive(pidfile)
       THEN daemon' = [daemon EXCEPT ![p] = Gone] /\ UNCHANGED pidfile
       ELSE /\ pidfile' = None
            /\ \/ /\ mode = "start" \/ daemon[p].byHand
                  /\ \E q \in Pid :
                        /\ NewPid(q)
                        /\ daemon' = [daemon EXCEPT ![p] = Gone,
                             ![q] = [As(p, "forked") EXCEPT
                                        !.slipped = @ \/ Slipping(p)]]
               \/ /\ mode = "foreground" /\ ~daemon[p].byHand
                  /\ daemon' = [daemon EXCEPT ![p].st = "up"]
    /\ UNCHANGED <<mode, saved, sup, supfile, op, helper, pulls, budget>>

\* The end of _daemonize and the installation of the SIGTERM handler.
WritePid(p) ==
    /\ St(p) = "forked"
    /\ pidfile' = p
    /\ daemon' = [daemon EXCEPT ![p].st = "up"]
    /\ UNCHANGED <<mode, saved, sup, supfile, op, helper, pulls, budget>>

\* termHandler: the pid file goes first, the queues are drained afterwards.
HandleTerm(p) ==
    /\ St(p) = "termed"
    /\ pidfile' = DelPid(p)
    /\ daemon' = [daemon EXCEPT ![p].st = "draining"]
    /\ UNCHANGED <<mode, saved, sup, supfile, op, helper, pulls, budget>>

\* _run returns; the atexit handler is _delpid again.
Exit(p) ==
    /\ St(p) = "draining"
    /\ pidfile' = DelPid(p)
    /\ daemon' = [daemon EXCEPT ![p] = Gone]
    /\ UNCHANGED <<mode, saved, sup, supfile, op, helper, pulls, budget>>

\* SIGKILL takes effect.
Die(p) ==
    /\ St(p) = "killed"
    /\ daemon' = [daemon EXCEPT ![p] = Gone]
    /\ UNCHANGED <<mode, saved, pidfile, sup, supfile, op, helper, pulls, budget>>

\* The process ends by itself: killed by the system (the file stays) or by an
\* exception (the atexit handler runs).
Crash(p) ==
    /\ St(p) \in {"forked", "up", "draining"}
    /\ Spend("faults")
    /\ pidfile' \in {pidfile, DelPid(p)}
    /\ daemon' = [daemon EXCEPT ![p] = Gone]
    /\ UNCHANGED <<mode, saved, sup, supfile, op, helper, pulls>>

\* The main loop stops saving the event id file, maybe before it has ever saved it;
\* an outage ends by itself.
FallSilent(p) ==
    /\ St(p) = "up" /\ Spend("faults")
    /\ daemon' = [daemon EXCEPT ![p].st = "silent"]
    /\ saved' \in {saved, TRUE}
    /\ UNCHANGED <<mode, pidfile, sup, supfile, op, helper, pulls>>
Resume(p) ==
    /\ St(p) = "silent"
    /\ daemon' = [daemon EXCEPT ![p].st = "up"]
    /\ saved' = TRUE
    /\ UNCHANGED <<mode, pidfile, sup, supfile, op, helper, pulls, budget>>

-----------------------------------------------------------------------------
(* 'shotgunEventDaemon.py stop' (Daemon.stop) and 'start' by hand          *)

HelperRead(h) ==
    /\ helper[h].pc = "boot"
    /\ helper' = [helper EXCEPT ![h] =
                    IF pidfile = None THEN NoHelper
                    ELSE [pc |-> "loop", target |-> pidfile]]
    /\ UNCHANGED <<mode, saved, daemon, pidfile, sup, supfile, op, pulls, budget>>

\* SIGTERM every 0.1 s; a process that has handled it is not changed again.
HelperTerm(h) ==
    /\ helper[h].pc = "loop"
    /\ St(helper[h].target) \in {"boot", "forked", "up", "silent"}
    /\ SigTerm({helper[h].target})
    /\ UNCHANGED <<mode, saved, pidfile, sup, supfile, op, helper, pulls, budget>>

HelperEnd(h) ==
    /\ helper[h].pc = "loop" /\ ~Alive(helper[h].target)
    /\ pidfile' = None
    /\ helper' = [helper EXCEPT ![h] = NoHelper]
    /\ UNCHANGED <<mode, saved, daemon, sup, supfile, op, pulls, budget>>

ManualStart ==
    /\ Spend("starts")
    /\ \E p \in Pid : Spawn(p, "boot", TRUE)
    /\ UNCHANGED <<mode, saved, pidfile, sup, supfile, op, helper, pulls>>

ManualStop ==
    /\ helper[None].pc = "done" /\ Spend("kills")
    /\ helper' = [helper EXCEPT ![None].pc = "boot"]
    /\ UNCHANGED <<mode, saved, daemon, pidfile, sup, supfile, op, pulls>>

-----------------------------------------------------------------------------
(* Life-cycle operations, one step at a time; a is the actor               *)

Goto(a, pc) == op' = [op EXCEPT ![a].pc = pc]
Release(a) == op' = [op EXCEPT ![a] = Idle]
Begin(a, pc, who, goal) ==
    op' = [op EXCEPT ![a] = [Idle EXCEPT !.pc = pc, !.who = who, !.goal = goal]]

\* SIGKILL to supervisors: their threads and locks are gone.
KilledSups(K) == [s \in Sups |-> IF s \in K THEN NoSup("dead") ELSE sup[s]]
KilledOps(K) == [a \in Actors |-> IF a \in K THEN Idle ELSE op[a]]

\* The purge of other supervisors, left out.
PurgeSupsKeepsAll(s) ==
    /\ Pc(s) = "purgeSups"
    /\ \E K \in {{}} :
        /\ UNCHANGED budget
        /\ sup' = [KilledSups(K) EXCEPT ![s].main =
                        IF @ = "first" THEN "launching" ELSE @]
        /\ op' = [KilledOps(K) EXCEPT ![s].pc =
                        IF op[s].goal = "launch" THEN "purge" ELSE "stopRead"]
    /\ supfile' = s
    /\ UNCHANGED <<mode, saved, daemon, pidfile, helper, pulls>>

\* _purge_extra_supervisor_processes(keep_pid=self)
PurgeSups(s) ==
    /\ Pc(s) = "purgeSups"
    /\ \E K \in {{r \in Sups \ {s} : SupAlive(r)}, {}} :
        /\ IF K = {} /\ \E r \in Sups \ {s} : SupAlive(r)
           THEN Spend("ps") ELSE UNCHANGED budget
        /\ sup' = [KilledSups(K) EXCEPT ![s].main =
                        IF @ = "first" THEN "launching" ELSE @]
        /\ op' = [KilledOps(K) EXCEPT ![s].pc =
                        IF op[s].goal = "launch" THEN "purge" ELSE "stopRead"]
    /\ supfile' = s
    /\ UNCHANGED <<mode, saved, daemon, pidfile, helper, pulls>>

\* Two supervisors that purge at the same moment may each have listed the other.
MutualPurge(r, s) ==
    /\ r # s /\ Pc(r) = "purgeSups" /\ Pc(s) = "purgeSups" /\ Spend("faults")
    /\ sup' = KilledSups({r, s}) /\ op' = KilledOps({r, s})
    /\ UNCHANGED <<mode, saved, daemon, pidfile, supfile, helper, pulls>>

\* _purge_all_daemon_processes: the processes are listed, ...
PurgeList(a) ==
    /\ Pc(a) = "purge"
    /\ \E listed \in SUBSET Pid :
        /\ Ps(listed)
        /\ op' = [op EXCEPT ![a].pc = "purgeRead", ![a].targets = listed]
    /\ daemon' = [p \in Pid |-> [daemon[p] EXCEPT
                    !.slipped = @ \/ (a \in Sups /\ St(p) = "sudo")]]
    /\ UNCHANGED <<mode, saved, pidfile, sup, supfile, helper, pulls>>

\* ... the one in the pid file is added, ...
PurgeRead(a) ==
    /\ Pc(a) = "purgeRead"
    /\ op' = [op EXCEPT ![a].pc = "purgeTerm",
                        ![a].targets = @ \cup {p \in {pidfile} : Alive(p)}]
    /\ UNCHANGED <<mode, saved, daemon, pidfile, sup, supfile, helper, pulls, budget>>

\* ... SIGTERM goes to them, ...
PurgeTerm(a) ==
    /\ Pc(a) = "purgeTerm"
    /\ SigTerm(op[a].targets)
    /\ Goto(a, "purgeWait")
    /\ UNCHANGED <<mode, saved, pidfile, sup, supfile, helper, pulls, budget>>

\* SIGKILL only to the process that the pid file names.
PurgeKillsFiled(a) ==
    /\ Pc(a) = "purgeWait" /\ \E p \in op[a].targets : Alive(p)
    /\ SigKill(op[a].targets \cap {pidfile})
    /\ Goto(a, "purgeKilled")
    /\ UNCHANGED <<mode, saved, pidfile, sup, supfile, helper, pulls, budget>>

\* ... SIGKILL to those that outlast the grace period, ...
PurgeKill(a) ==
    /\ Pc(a) = "purgeWait" /\ \E p \in op[a].targets : Alive(p)
    /\ SigKill(op[a].targets)
    /\ Goto(a, "purgeKilled")
    /\ UNCHANGED <<mode, saved, pidfile, sup, supfile, helper, pulls, budget>>

\* The wait left out.
PurgeDoesNotWait(a) ==
    /\ Pc(a) \in {"purgeWait", "purgeKilled"}
    /\ pidfile' = None
    /\ op' = [op EXCEPT ![a].targets = {},
                        ![a].pc = CASE op[a].goal = "launch" -> "spawn"
                                    [] op[a].goal = "cli"    -> "cliKill"
                                    [] OTHER                 -> "stopEnd"]
    /\ UNCHANGED <<mode, saved, daemon, sup, supfile, helper, pulls, budget>>

\* ... and the pid file is removed, whoever is still alive.
PurgeEnd(a) ==
    /\ \/ Pc(a) = "purgeWait" /\ \A p \in op[a].targets : ~Alive(p)
       \/ Pc(a) = "purgeKilled"
    /\ pidfile' = None
    /\ op' = [op EXCEPT ![a].targets = {},
                        ![a].pc = CASE op[a].goal = "launch" -> "spawn"
                                    [] op[a].goal = "cli"    -> "cliKill"
                                    [] OTHER                 -> "stopEnd"]
    /\ UNCHANGED <<mode, saved, daemon, sup, supfile, helper, pulls, budget>>

\* _launch_child after the purges: Popen.
Launch(s) ==
    /\ Pc(s) = "spawn"
    /\ pidfile' = IF mode = "start" /\ ~Alive(pidfile) THEN None ELSE pidfile
    /\ \E p \in Pid :
        /\ Spawn(p, "sudo", FALSE)
        /\ op' = [op EXCEPT ![s].pc = "launched", ![s].pid = p]
        /\ sup' = [sup EXCEPT ![s].handle = IF mode = "start" THEN None ELSE p]
    /\ UNCHANGED <<mode, saved, supfile, helper, pulls, budget>>

\* The reload flag cleared at the end of a launch.
LaunchedClearsFlag(s, tracked) ==
    /\ sup' = [sup EXCEPT ![s].tracked = tracked, ![s].hup = FALSE,
                          ![s].main = IF @ = "launching" THEN "loop" ELSE @]
    /\ Release(s)

\* _launch_child returns; the first launch also starts the watchdog thread.
Launched(s, tracked) ==
    /\ sup' = [sup EXCEPT ![s].tracked = tracked,
                          ![s].main = IF @ = "launching" THEN "loop" ELSE @]
    /\ Release(s)

\* Popen.wait: the 'start' command has exited, or TimeoutExpired is raised; the
\* watchdog logs it, the main thread ends with it (atexit: _delpid).
StartReturns(s) ==
    /\ Pc(s) = "launched" /\ mode = "start" /\ ~Alive(op[s].pid)
    /\ op' = [op EXCEPT ![s].pc = "confirm", ![s].pid = None]
    /\ UNCHANGED <<mode, saved, daemon, pidfile, sup, supfile, helper, pulls, budget>>
StartTimeout(s) ==
    /\ Pc(s) = "launched" /\ mode = "start" /\ Alive(op[s].pid)
    /\ Spend("faults")
    /\ Release(s)
    /\ IF op[s].who = "wd" THEN UNCHANGED <<sup, supfile>>
       ELSE sup' = [sup EXCEPT ![s] = NoSup("dead")] /\ supfile' = DelSupPid(s)
    /\ UNCHANGED <<mode, saved, daemon, pidfile, helper, pulls>>

\* _confirm_daemon_started: any live process named in the pid file will do.
Confirmed(s) ==
    /\ Pc(s) = "confirm" /\ Alive(pidfile)
    /\ Launched(s, pidfile)
    /\ UNCHANGED <<mode, saved, daemon, pidfile, supfile, helper, pulls, budget>>
NotConfirmed(s) ==
    /\ Pc(s) = "confirm" /\ ~Alive(pidfile)
    /\ IF \E p \in Pid : St(p) = "forked" THEN Spend("faults")
       ELSE UNCHANGED budget
    /\ Launched(s, sup[s].tracked)
    /\ UNCHANGED <<mode, saved, daemon, pidfile, supfile, helper, pulls>>

\* A foreground child is polled once, 2 s after the launch.
Polled(s) ==
    /\ Pc(s) = "launched" /\ mode = "foreground"
    /\ Launched(s, IF Alive(op[s].pid) THEN op[s].pid ELSE None)
    /\ UNCHANGED <<mode, saved, daemon, pidfile, supfile, helper, pulls, budget>>

\* _stop_child: the pid to wait for is read once; the helper reads it again.
StopRead(s) ==
    LET pid == IF mode = "foreground" THEN sup[s].handle
               ELSE IF pidfile # None THEN pidfile ELSE sup[s].tracked IN
    /\ Pc(s) = "stopRead"
    /\ IF ~Alive(pid)
       THEN /\ pidfile' = IF mode = "start" THEN None ELSE pidfile
            /\ sup' = [sup EXCEPT ![s].tracked = None, ![s].handle = None]
            /\ op' = [op EXCEPT ![s].pc = "purge", ![s].ok = TRUE]
            /\ UNCHANGED <<daemon, helper>>
       ELSE /\ op' = [op EXCEPT ![s].pc = "stopWait", ![s].pid = pid]
            /\ \/ /\ mode = "start"
                  /\ helper' = [helper EXCEPT ![pid].pc =
                                    IF @ = "done" THEN "boot" ELSE @]
                  /\ UNCHANGED daemon
               \/ mode = "foreground" /\ SigTerm({pid}) /\ UNCHANGED helper
            /\ UNCHANGED <<pidfile, sup>>
    /\ UNCHANGED <<mode, saved, supfile, pulls, budget>>

\* No escalation.
StopWaitsForEver(s) ==
    /\ FALSE
    /\ UNCHANGED vars

\* 60 s later.  In foreground mode the signal reaches sudo, not the daemon.
StopKill(s) ==
    /\ Pc(s) = "stopWait" /\ Alive(op[s].pid)
    /\ IF mode = "start" THEN SigKill({op[s].pid}) ELSE UNCHANGED daemon
    /\ Goto(s, "stopKilled")
    /\ UNCHANGED <<mode, saved, pidfile, sup, supfile, helper, pulls, budget>>

\* The daemon is gone, or its death was waited for in vain.  The helper has
\* ended, or still polls a daemon that is alive, or has been so slow to start
\* that it has read nothing when its 5 s are over.
HelperWaited(h) ==
    IF helper[h].pc = "boot" THEN Spend("faults")
    ELSE /\ helper[h].pc = "loop" => Alive(helper[h].target)
         /\ UNCHANGED budget

StopDone(s) ==
    /\ \/ Pc(s) = "stopWait" /\ ~Alive(op[s].pid)
       \/ Pc(s) = "stopKilled"
    /\ IF mode = "start" THEN HelperWaited(op[s].pid) ELSE UNCHANGED budget
    /\ pidfile' = IF mode = "start" THEN None ELSE pidfile
    /\ sup' = [sup EXCEPT ![s].tracked = None, ![s].handle = None]
    /\ op' = [op EXCEPT ![s].pc = "purge", ![s].pid = None,
                        ![s].ok = mode = "foreground" \/ ~Alive(op[s].pid)]
    /\ UNCHANGED <<mode, saved, daemon, supfile, helper, pulls>>

\* _reload_child goes on to the launch only if the stop is confirmed; _run
\* leaves in any case.
StopEnd(s) ==
    /\ Pc(s) = "stopEnd"
    /\ \E listed \in SUBSET Pid :
        /\ Ps(listed)
        /\ IF op[s].goal = "reload" /\ op[s].ok /\ listed = {}
           THEN Begin(s, "purgeSups", "main", "launch") /\ UNCHANGED sup
           ELSE /\ Release(s)
                /\ sup' = [sup EXCEPT ![s].main =
                            IF op[s].goal = "stop" THEN "exit" ELSE @]
    /\ UNCHANGED <<mode, saved, daemon, pidfile, supfile, helper, pulls>>

-----------------------------------------------------------------------------
(* The main thread of a supervisor                                         *)

\* Daemon.start: the check of the pid file, then _daemonize.
Start(s) ==
    IF SupAlive(supfile)
    THEN sup' = [sup EXCEPT ![s] = NoSup("dead")] /\ UNCHANGED supfile
    ELSE sup' = [sup EXCEPT ![s].st = "checked"] /\ supfile' = None
SupStart(s) ==
    /\ sup[s].st = "off"
    /\ IF \A r \in Sups : sup[r].st = "off" THEN UNCHANGED budget ELSE Spend("sups")
    /\ Start(s)
    /\ UNCHANGED <<mode, saved, daemon, pidfile, op, helper, pulls>>
SupUp(s) ==
    /\ sup[s].st = "checked"
    /\ sup' = [sup EXCEPT ![s].st = "up", ![s].main = "first"]
    /\ supfile' = IF mode = "start" THEN s ELSE supfile
    /\ Begin(s, "purgeSups", "main", "launch")
    /\ UNCHANGED <<mode, saved, daemon, pidfile, helper, pulls, budget>>

\* A code update, announced by SIGHUP: _handle_reload.
Pull ==
    /\ Spend("pulls") /\ pulls' = pulls + 1
    /\ supfile \in Sups /\ sup[supfile].st = "up"
    /\ sup' = [sup EXCEPT ![supfile].hup = TRUE]
    /\ UNCHANGED <<mode, saved, daemon, pidfile, supfile, op, helper>>

\* _run: the flag is cleared before the lock is taken.
MainReload(s) ==
    /\ sup[s].main = "loop" /\ ~(Pc(s) # "idle" /\ op[s].who = "main")
    /\ ~sup[s].stopping /\ sup[s].hup
    /\ sup' = [sup EXCEPT ![s].hup = FALSE, ![s].main = "waiting"]
    /\ UNCHANGED <<mode, saved, daemon, pidfile, supfile, op, helper, pulls, budget>>
MainLock(s) ==
    /\ sup[s].main = "waiting" /\ Pc(s) = "idle"
    /\ Begin(s, "purgeSups", "main", "reload")
    /\ sup' = [sup EXCEPT ![s].main = "loop"]
    /\ UNCHANGED <<mode, saved, daemon, pidfile, supfile, helper, pulls, budget>>
MainLeave(s) ==
    /\ sup[s].main = "loop" /\ Pc(s) = "idle" /\ sup[s].stopping
    /\ Begin(s, "purgeSups", "main", "stop")
    /\ sup' = [sup EXCEPT ![s].main = "leave"]
    /\ UNCHANGED <<mode, saved, daemon, pidfile, supfile, helper, pulls, budget>>
MainExit(s) ==
    /\ sup[s].main = "exit"
    /\ sup' = [sup EXCEPT ![s] = NoSup("stopped")]
    /\ op' = KilledOps({s})
    /\ supfile' = DelSupPid(s)
    /\ UNCHANGED <<mode, saved, daemon, pidfile, helper, pulls, budget>>

\* kill -9 of a supervisor.
SupCrash(s) ==
    /\ SupAlive(s) /\ Spend("faults")
    /\ sup' = KilledSups({s}) /\ op' = KilledOps({s})
    /\ UNCHANGED <<mode, saved, daemon, pidfile, supfile, helper, pulls>>

-----------------------------------------------------------------------------
(* The watchdog thread: one check, under the lock if it is free            *)

WatchIgnoresStop(s) ==
    /\ sup[s].main \in {"loop", "waiting", "leave", "exit"} /\ Pc(s) = "idle"
    /\ ~sup[s].hup

WatchdogTurn(s) ==
    /\ sup[s].main \in {"loop", "waiting", "leave", "exit"} /\ Pc(s) = "idle"
    /\ ~sup[s].stopping /\ ~sup[s].hup

\* The pid file not repaired when a single daemon runs.
WatchWithoutRepair(s, listed) ==
    \/ /\ Cardinality(listed) > 1
       /\ \E keep \in listed :
            /\ pidfile \in listed => keep = pidfile
            /\ pidfile \notin listed /\ sup[s].tracked \in listed
                    => keep = sup[s].tracked
            /\ SigTerm(listed \ {keep})
            /\ op' = [op EXCEPT ![s] = [Idle EXCEPT !.pc = "dupWait", !.who = "wd",
                            !.pid = keep, !.targets = listed \ {keep}]]
       /\ UNCHANGED <<pidfile, sup>>
    \/ /\ Cardinality(listed) = 1
       /\ \E p \in listed : sup' = [sup EXCEPT ![s].tracked = p]
       /\ UNCHANGED <<daemon, pidfile, op>>
    \/ /\ listed = {} /\ Alive(pidfile)
       /\ sup' = [sup EXCEPT ![s].tracked = pidfile]
       /\ UNCHANGED <<daemon, pidfile, op>>
    \/ /\ listed = {} /\ ~Alive(pidfile) /\ Alive(sup[s].tracked)
       /\ pidfile' = sup[s].tracked
       /\ UNCHANGED <<daemon, sup, op>>
    \/ /\ listed = {} /\ ~Alive(pidfile) /\ ~Alive(sup[s].tracked)
       /\ Begin(s, "backoff", "wd", "launch")
       /\ UNCHANGED <<daemon, pidfile, sup>>

\* What a check of a start-mode daemon finds, given what ps listed.
WatchStart(s, listed) ==
    \/ /\ Cardinality(listed) > 1
       /\ \E keep \in listed :
            /\ pidfile \in listed => keep = pidfile
            /\ pidfile \notin listed /\ sup[s].tracked \in listed
                    => keep = sup[s].tracked
            /\ SigTerm(listed \ {keep})
            /\ op' = [op EXCEPT ![s] = [Idle EXCEPT !.pc = "dupWait", !.who = "wd",
                            !.pid = keep, !.targets = listed \ {keep}]]
       /\ UNCHANGED <<pidfile, sup>>
    \/ /\ Cardinality(listed) = 1
       /\ \E p \in listed : pidfile' = p /\ sup' = [sup EXCEPT ![s].tracked = p]
       /\ UNCHANGED <<daemon, op>>
    \/ /\ listed = {} /\ Alive(pidfile)
       /\ sup' = [sup EXCEPT ![s].tracked = pidfile]
       /\ UNCHANGED <<daemon, pidfile, op>>
    \/ /\ listed = {} /\ ~Alive(pidfile) /\ Alive(sup[s].tracked)
       /\ pidfile' = sup[s].tracked
       /\ UNCHANGED <<daemon, sup, op>>
    \/ /\ listed = {} /\ ~Alive(pidfile) /\ ~Alive(sup[s].tracked)
       /\ Begin(s, "backoff", "wd", "launch")
       /\ UNCHANGED <<daemon, pidfile, sup>>

WatchCheck(s) ==
    /\ WatchdogTurn(s)
    /\ \/ mode = "start" /\ \E listed \in SUBSET Pid : Ps(listed) /\ WatchStart(s, listed)
       \/ /\ mode = "foreground" /\ ~Alive(sup[s].handle)
          /\ Begin(s, "backoff", "wd", "launch")
          /\ UNCHANGED <<daemon, pidfile, sup, budget>>
    /\ UNCHANGED <<mode, saved, supfile, helper, pulls>>

\* _check_daemon_progress: the check reached a single live daemon that has not
\* saved the event id file for too long; _recover_hung_daemon.  No file, no check.
WatchHung(s) ==
    /\ WatchdogTurn(s) /\ saved
    /\ \E p \in Pid :
        /\ IF mode = "start" THEN Listable = {p} ELSE sup[s].handle = p
        /\ St(p) = "silent"
        /\ SigTerm({p})
        /\ op' = [op EXCEPT ![s] = [Idle EXCEPT !.pc = "hungWait", !.who = "wd",
                                                !.goal = "launch", !.pid = p]]
        /\ IF mode = "start"
           THEN pidfile' = p /\ sup' = [sup EXCEPT ![s].tracked = p]
           ELSE UNCHANGED <<pidfile, sup>>
    /\ UNCHANGED <<mode, saved, supfile, helper, pulls, budget>>
HungKill(s) ==
    /\ Pc(s) = "hungWait" /\ Alive(op[s].pid)
    /\ IF mode = "start" THEN SigKill({op[s].pid}) ELSE UNCHANGED daemon
    /\ Goto(s, "hungKilled")
    /\ UNCHANGED <<mode, saved, pidfile, sup, supfile, helper, pulls, budget>>
HungEnd(s) ==
    /\ \/ Pc(s) = "hungWait" /\ ~Alive(op[s].pid)
       \/ Pc(s) = "hungKilled"
    /\ pidfile' = None
    /\ sup' = [sup EXCEPT ![s].tracked = None, ![s].handle = None]
    /\ op' = [op EXCEPT ![s].pc = "purgeSups", ![s].pid = None]
    /\ UNCHANGED <<mode, saved, daemon, supfile, helper, pulls, budget>>

\* Duplicates that outlast SIGTERM are killed, and the file names the kept one.
DupEnd(s) ==
    /\ Pc(s) = "dupWait"
    /\ SigKill(op[s].targets)
    /\ pidfile' = op[s].pid
    /\ sup' = [sup EXCEPT ![s].tracked = op[s].pid]
    /\ Release(s)
    /\ UNCHANGED <<mode, saved, supfile, helper, pulls, budget>>

\* Without a backoff the launch follows at once; after one the flag counts.
BackoffOver(s) ==
    /\ Pc(s) = "backoff"
    /\ Goto(s, "purgeSups") \/ (sup[s].stopping /\ Release(s))
    /\ UNCHANGED <<mode, saved, daemon, pidfile, sup, supfile, helper, pulls, budget>>

-----------------------------------------------------------------------------
(* 'supervisor.py stop'                                                    *)

CliStart ==
    /\ Pc(Cli) = "idle" /\ Spend("stops")
    /\ IF supfile = None THEN Begin(Cli, "purge", "main", "cli")
       ELSE op' = [op EXCEPT ![Cli] = [Idle EXCEPT !.pc = "cliTerm",
                                        !.goal = "cli", !.targets = {supfile}]]
    /\ UNCHANGED <<mode, saved, daemon, pidfile, sup, supfile, helper, pulls>>

\* SIGTERM to the supervisor: _delpid and _cleanup, or death before start
\* has installed the handler.
CliTerm ==
    /\ Pc(Cli) = "cliTerm"
    /\ \E s \in op[Cli].targets :
        \/ /\ sup[s].st = "up" /\ ~sup[s].stopping
           /\ sup' = [sup EXCEPT ![s].stopping = TRUE]
           /\ supfile' = DelSupPid(s)
        \/ /\ sup[s].st = "checked"
           /\ sup' = KilledSups({s}) /\ UNCHANGED supfile
    /\ UNCHANGED <<mode, saved, daemon, pidfile, op, helper, pulls, budget>>
CliGone ==
    /\ Pc(Cli) = "cliTerm" /\ \A s \in op[Cli].targets : ~SupAlive(s)
    /\ supfile' = None
    /\ Begin(Cli, "purge", "main", "cli")
    /\ UNCHANGED <<mode, saved, daemon, pidfile, sup, helper, pulls, budget>>
CliKill ==
    /\ Pc(Cli) = "cliKill"
    /\ \E K \in {{r \in Sups : SupAlive(r)}, {}} :
        /\ IF K = {} /\ \E r \in Sups : SupAlive(r)
           THEN Spend("ps") ELSE UNCHANGED budget
        /\ sup' = KilledSups(K)
        /\ op' = KilledOps(K \cup {Cli})
    /\ supfile' = None
    /\ UNCHANGED <<mode, saved, daemon, pidfile, helper, pulls>>

-----------------------------------------------------------------------------
DaemonStep(p) ==
    Exec(p) \/ Boot(p) \/ WritePid(p) \/ HandleTerm(p) \/ Exit(p) \/ Die(p)
HelperStep(h) == HelperRead(h) \/ HelperTerm(h) \/ HelperEnd(h)
PurgeStep(a) ==
    PurgeList(a) \/ PurgeRead(a) \/ PurgeTerm(a) \/ PurgeKill(a) \/ PurgeEnd(a)
\* What the thread of s that holds the lock does next.
LockedStep(s) ==
    \/ PurgeSups(s) \/ PurgeStep(s)
    \/ Launch(s) \/ StartReturns(s) \/ Confirmed(s) \/ NotConfirmed(s) \/ Polled(s)
    \/ StopRead(s) \/ StopKill(s) \/ StopDone(s) \/ StopEnd(s)
    \/ HungKill(s) \/ HungEnd(s) \/ DupEnd(s) \/ BackoffOver(s)
MainStep(s) ==
    SupUp(s) \/ MainReload(s) \/ MainLock(s) \/ MainLeave(s) \/ MainExit(s)
CliStep == CliTerm \/ CliGone \/ PurgeStep(Cli) \/ CliKill

Next ==
    \/ \E p \in Pid : DaemonStep(p) \/ Crash(p) \/ FallSilent(p) \/ Resume(p)
    \/ \E h \in DOMAIN helper : HelperStep(h)
    \/ \E s \in Sups : \/ MainStep(s) \/ LockedStep(s) \/ StartTimeout(s)
                       \/ WatchCheck(s) \/ WatchHung(s)
                       \/ SupStart(s) \/ SupCrash(s)
                       \/ \E r \in Sups : MutualPurge(r, s)
    \/ CliStart \/ CliStep
    \/ ManualStart \/ ManualStop \/ Pull

Spec == Init /\ [][Next]_vars

\* Every process gets CPU time, every signal arrives and every deadline passes.
\* Nobody has to start a supervisor, to crash, or to resume.
Fairness ==
    /\ \A p \in Pid : WF_vars(DaemonStep(p))
    /\ \A h \in Pid \cup {None} : WF_vars(HelperStep(h))
    /\ \A s \in Sups : /\ WF_vars(MainStep(s)) /\ WF_vars(LockedStep(s))
                       /\ WF_vars(WatchCheck(s)) /\ WF_vars(WatchHung(s))
    /\ WF_vars(CliStep)
FairSpec == Spec /\ Fairness

-----------------------------------------------------------------------------
DaemonProcess == [st : DaemonStates, ver : 0 .. MaxPulls, byHand : BOOLEAN,
                  slipped : BOOLEAN]
SupProcess ==
    [st : {"off", "checked", "up", "stopped", "dead"},
     main : {"none", "first", "launching", "loop", "waiting", "leave", "exit"},
     hup : BOOLEAN, stopping : BOOLEAN,
     tracked : Pid \cup {None}, handle : Pid \cup {None}]
Operation ==
    [pc : {"idle", "purgeSups", "purge", "purgeRead", "purgeTerm", "purgeWait",
           "purgeKilled", "spawn", "launched", "confirm",
           "stopRead", "stopWait", "stopKilled", "stopEnd",
           "hungWait", "hungKilled", "dupWait", "backoff", "cliTerm", "cliKill"},
     who : {"main", "wd"}, goal : {"none", "launch", "reload", "stop", "cli"},
     targets : SUBSET (Pid \cup Sups), pid : Pid \cup {None}, ok : BOOLEAN]

\* Type invariant: process table, pid files, supervisors, operations, helpers.
TypeOK ==
    /\ mode \in {"start", "foreground"} /\ saved \in BOOLEAN
    /\ daemon \in [Pid -> DaemonProcess]
    /\ pidfile \in Pid \cup {None}
    /\ sup \in [Sups -> SupProcess]
    /\ supfile \in Sups \cup {None}
    /\ op \in [Actors -> Operation]
    /\ helper \in [Pid \cup {None} -> [pc : {"boot", "loop", "done"},
                                       target : Pid \cup {None}]]
    /\ pulls \in 0 .. MaxPulls
    /\ budget \in [{"faults", "ps", "starts", "kills", "stops", "pulls",
                                "sups", "all"} -> Nat]

\* ps has listed every process so far.
PsReliable == budget["ps"] = MaxPsFaults

\* Past the purge that begins its first launch (supervisor.py:441).
Active(s) == sup[s].st = "up" /\ sup[s].main # "first"

\* Two supervisors may both pass the check of the pid file, but each kills the
\* others before it touches a daemon: two of them never run daemons at once.
OneActiveSupervisor ==
    PsReliable => \A r, s \in Sups : Active(r) /\ Active(s) => r = s

\* A daemon of the supervisors that will run on unless a signal reaches it.
AtWork(p) == p \in Running /\ ~daemon[p].byHand /\ St(p) # "killed"

\* Supervisors never have two daemons of theirs at work, save the ones that slipped
\* through a purge: whoever launches one has stopped, or at least killed, every other
\* that was more than 'sudo ...' at its listing and not forked between the listing
\* and the SIGTERM (supervisor.py:346, 355).
OneLaunchedDaemon ==
    PsReliable => \A p, q \in Running :
        /\ AtWork(p) /\ ~daemon[p].slipped
        /\ AtWork(q) /\ ~daemon[q].slipped
        => p = q

\* When the only supervisor has ended after a stop, no daemon of its own is left,
\* whatever the watchdog was doing when the stop arrived, save one that slipped
\* through a purge (supervisor.py:1147).
CleanStop ==
    \A s \in Sups :
        /\ PsReliable /\ sup[s].st = "stopped"
        /\ \A r \in Sups \ {s} : sup[r].st = "off"
        => \A p \in Pid : AtWork(p) => daemon[p].slipped

\* No reload request is lost, not even one that arrives during a reload or a
\* relaunch: when nothing is pending, a live daemon runs the announced code, unless
\* it slipped through a purge (supervisor.py:1142).
NoLostReload ==
    \A s \in Sups :
        /\ PsReliable /\ \A r \in Sups \ {s} : sup[r].st = "off"
        /\ sup[s].main = "loop" /\ Pc(s) = "idle" /\ ~sup[s].hup
        => \A p \in Running : daemon[p].ver = pulls \/ St(p) = "killed"
                                  \/ daemon[p].slipped

-----------------------------------------------------------------------------
(* What the safety properties rest on                                      *)

\* No daemon of the supervisors is at work but those that slipped through a purge.
NoneAtWork == \A p \in Pid : AtWork(p) => daemon[p].slipped

\* It runs the code of the last update, or is about to die, or slipped.
Fresh(p) == daemon[p].ver = pulls \/ St(p) = "killed" \/ daemon[p].slipped

\* No other supervisor has ever been started.
Alone(s) == \A r \in Sups \ {s} : sup[r].st = "off"

\* The lock of s is held only by a supervisor that is up, and by its main thread
\* from the first launch on until it leaves; what a purge has signalled can no
\* longer fork, because SIGTERM ends a daemon that has not forked yet.
LockInv ==
    \A s \in Sups :
        /\ Pc(s) # "idle" => sup[s].st = "up"
        /\ sup[s].main # "none" => sup[s].st = "up"
        /\ sup[s].main = "first" => Pc(s) = "purgeSups"
        /\ sup[s].main = "exit" => Pc(s) = "idle" /\ sup[s].stopping
        /\ op[s].goal = "stop" => Pc(s) # "idle" /\ sup[s].stopping
        /\ Pc(s) = "purgeWait" =>
               \A p \in Pid \cap op[s].targets :
                   St(p) \notin {"sudo", "boot", "forked"}

\* The bounds count down.
BudgetInv == budget["ps"] <= MaxPsFaults /\ budget["pulls"] + pulls <= MaxPulls

\* From the listing of a purge on, whatever is at work is in the list, or slipped;
\* once the purge is over nothing is, until the launch; and nothing is when the only
\* supervisor has left its main loop for good.
PurgeInv(s) ==
    /\ Pc(s) \in {"purgeRead", "purgeTerm", "purgeWait"} =>
           \A p \in Pid : AtWork(p) => p \in op[s].targets \/ daemon[p].slipped
    /\ Pc(s) \in {"purgeKilled", "stopEnd", "spawn"} => NoneAtWork
    /\ Alone(s) /\ (sup[s].main = "exit" \/ sup[s].st = "stopped") => NoneAtWork

\* Where the thread of s that holds the lock is when it has either stopped the
\* daemons of older code already or not begun to replace them.
SettledPcs == {"idle", "backoff", "dupWait", "hungWait", "hungKilled", "purgeKilled",
               "stopEnd", "spawn", "launched", "confirm"}
Heeded(s) == Alone(s) /\ sup[s].main \in {"launching", "loop"} /\ ~sup[s].hup

\* A reload that was heeded: older code survives only among the listed.
ReloadInv(s) ==
    Heeded(s) =>
        /\ Pc(s) \in SettledPcs => \A p \in Running : Fresh(p)
        /\ Pc(s) \in {"purgeRead", "purgeTerm", "purgeWait"} =>
               \A p \in Running : Fresh(p) \/ p \in op[s].targets

\* The supervisors and what they run are of their types, the holder of a lock is one
\* that may hold it, and as long as every listing of the processes was complete,
\* what is at work is one daemon, under one active supervisor, and is stopped before
\* another is launched (supervisor.py:338, 434).
SupInv ==
    /\ TypeOK
    /\ BudgetInv
    /\ LockInv
    /\ PsReliable =>
          /\ OneActiveSupervisor /\ OneLaunchedDaemon
          /\ \A s \in Sups : PurgeInv(s) /\ ReloadInv(s)

\* The daemon that the pid file (or the handle) names is at work, or hangs where the
\* code does not look: with no event id file (supervisor.py:896).  In start mode,
\* where the watchdog looks for duplicates, it is the only one.
Healthy(s) ==
    LET p == IF mode = "start" THEN pidfile ELSE sup[s].handle IN
    /\ Alive(p) /\ (St(p) = "up" \/ (St(p) = "silent" /\ ~saved))
    /\ mode = "start" => Running = {p}

\* Once faults and commands stop, a supervisor that goes on working ends with one
\* healthy daemon, and keeps it (supervisor.py:729).
Recovers ==
    \A s \in Sups : <>[](sup[s].st = "up" => Healthy(s))

\* A supervisor that was told to stop ends, even if its daemon hangs.
StopEnds ==
    \A s \in Sups : sup[s].stopping ~> ~SupAlive(s)

=============================================================================
