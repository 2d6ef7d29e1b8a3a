------------------------------- MODULE Repair -------------------------------
(***************************************************************************)
(* diagnose_daemon.py --fix --apply: run_fix takes one snapshot of the     *)
(* processes and the pid files and then asks the user, item by item,       *)
(* whether to apply a repair.  The supervisors, their watchdogs and the    *)
(* daemons of module Supervisor go on meanwhile, so an answer may come     *)
(* long after the observation it is about.                                 *)
(***************************************************************************)
EXTENDS Supervisor, Sequences

CONSTANT Fix      \* the process of the repair

ASSUME RepairAssumption == Tools = {Fix} /\ Fix \notin Sups

VARIABLES
    fix,       \* where run_fix is and what its snapshot said; calm: nothing more
               \* goes wrong from then on (history, for FixLeavesDaemon)
    idfile     \* the event id file: "good", "bad" (cannot be loaded), "rebuilt"

fixVars == <<mode, saved, daemon, pidfile, sup, supfile, op, helper, pulls, budget,
             fix, idfile>>

Items == <<"sups", "daemons", "dfile", "sfile", "idfile", "hup", "launch", "done">>
NextItem(pc) ==
    LET i == CHOOSE j \in 1 .. Len(Items) : Items[j] = pc IN Items[i + 1]

FixInit ==
    /\ InitWith(TRUE)
    /\ fix = [pc |-> "off", asked |-> FALSE, keepSup |-> None,
              extraSups |-> {}, cur |-> None, problem |-> FALSE, partial |-> FALSE,
              calm |-> FALSE]
    /\ idfile \in {"good", "bad"}

\* keep_daemon and the extra daemons still to stop: Referenced sees them.
KeepDaemon == op[Fix].pid
ExtraDaemons == op[Fix].targets

\* Every daemon stopped, the kept one as well.
FixStartSparesNone ==
    /\ fix.pc = "off"
    /\ LET sups == {s \in Sups : SupAlive(s)} IN
       \E s \in sups \cup {None}, p \in Listable \cup {None} :
        /\ s = None <=> sups = {}
        /\ p = None <=> Listable = {}
        /\ supfile \in sups => s = supfile
        /\ pidfile \in Listable => p = pidfile
        /\ fix' = [fix EXCEPT !.pc = "sups", !.keepSup = s, !.extraSups = sups \ {s},
                             !.calm = budget["all"] = 0]
        /\ op' = [op EXCEPT ![Fix] = [Idle EXCEPT !.pid = p, !.targets = Listable]]
    /\ UNCHANGED <<mode, saved, daemon, pidfile, sup, supfile, helper, pulls, budget,
                   idfile>>

\* The snapshot: the process named in the pid file is kept, else the youngest.
FixStart ==
    /\ fix.pc = "off"
    /\ LET sups == {s \in Sups : SupAlive(s)} IN
       \E s \in sups \cup {None}, p \in Listable \cup {None} :
        /\ s = None <=> sups = {}
        /\ p = None <=> Listable = {}
        /\ supfile \in sups => s = supfile
        /\ pidfile \in Listable => p = pidfile
        /\ fix' = [fix EXCEPT !.pc = "sups", !.keepSup = s, !.extraSups = sups \ {s},
                             !.calm = budget["all"] = 0]
        /\ op' = [op EXCEPT ![Fix] = [Idle EXCEPT !.pid = p,
                                                  !.targets = Listable \ {p}]]
    /\ UNCHANGED <<mode, saved, daemon, pidfile, sup, supfile, helper, pulls, budget,
                   idfile>>

\* Whether run_fix proposes the item, at the moment it gets to it.
Proposed(item) ==
    CASE item = "sups"    -> fix.extraSups # {}
      [] item = "daemons" -> ExtraDaemons # {}
      [] item = "dfile"   -> \/ Alive(KeepDaemon) /\ pidfile # KeepDaemon
                             \/ KeepDaemon = None /\ pidfile # None /\ ~Alive(pidfile)
      [] item = "sfile"   -> \/ SupAlive(fix.keepSup) /\ supfile # fix.keepSup
                             \/ /\ fix.keepSup = None /\ supfile # None
                                /\ ~SupAlive(supfile)
      [] item = "idfile"  -> idfile = "bad" /\ KeepDaemon = None
      [] item = "hup"     -> /\ fix.keepSup # None
                             /\ \/ KeepDaemon = None
                                \/ /\ Alive(KeepDaemon) /\ St(KeepDaemon) = "silent"
                                   /\ ~fix.problem
      [] item = "launch"  -> KeepDaemon = None /\ fix.keepSup = None
Questions == {"sups", "daemons", "dfile", "sfile", "idfile", "hup", "launch"}

\* Go past an item; partial: something was declined or failed.
Past(item, partial) ==
    fix' = [fix EXCEPT !.pc = NextItem(item), !.asked = FALSE,
                       !.problem = IF item = "idfile" THEN idfile = "bad" ELSE @,
                       !.partial = @ \/ partial]

\* Look at the state for one item.  Without a resume id the event id file is
\* left alone.
Look(item) ==
    /\ fix.pc = item /\ ~fix.asked
    /\ \/ /\ Proposed(item)
          /\ fix' = [fix EXCEPT !.asked = TRUE,
                                !.problem = @ \/ item = "idfile"]
       \/ (~Proposed(item) \/ item = "idfile") /\ Past(item, FALSE)
    /\ UNCHANGED <<mode, saved, daemon, pidfile, sup, supfile, op, helper, pulls, budget,
                   idfile>>

Decline(item) ==
    /\ fix.pc = item /\ fix.asked /\ item # "daemons"
    /\ Past(item, TRUE)
    /\ UNCHANGED <<mode, saved, daemon, pidfile, sup, supfile, op, helper, pulls, budget,
                   idfile>>

Agreed(item) == fix.pc = item /\ fix.asked

\* Extra supervisors die by SIGKILL, so that none of them stops the daemon.
FixSups ==
    /\ Agreed("sups")
    /\ sup' = KilledSups({s \in fix.extraSups : SupAlive(s)})
    /\ op' = KilledOps({s \in fix.extraSups : SupAlive(s)})
    /\ Past("sups", \E s \in fix.extraSups : ~SupAlive(s))
    /\ UNCHANGED <<mode, saved, daemon, pidfile, supfile, helper, pulls, budget, idfile>>

\* stop_daemon, one extra daemon after the other; each may be declined.
FixDaemon ==
    /\ Agreed("daemons")
    /\ \E p \in ExtraDaemons :
        \/ /\ Alive(p) /\ SigTerm({p})
           /\ fix' = [fix EXCEPT !.pc = "daemonWait", !.asked = FALSE, !.cur = p]
           /\ UNCHANGED op
        \/ /\ op' = [op EXCEPT ![Fix].targets = @ \ {p}]
           /\ fix' = [fix EXCEPT !.asked = FALSE, !.partial = TRUE]
           /\ UNCHANGED daemon
    /\ UNCHANGED <<mode, saved, pidfile, sup, supfile, helper, pulls, budget, idfile>>
FixKill ==
    /\ fix.pc = "daemonWait" /\ Alive(fix.cur)
    /\ SigKill({fix.cur})
    /\ fix' = [fix EXCEPT !.pc = "daemonKilled"]
    /\ UNCHANGED <<mode, saved, pidfile, sup, supfile, op, helper, pulls, budget, idfile>>
FixStopped ==
    /\ \/ fix.pc = "daemonWait" /\ ~Alive(fix.cur)
       \/ fix.pc = "daemonKilled"
    /\ op' = [op EXCEPT ![Fix].targets = @ \ {fix.cur}]
    /\ fix' = [fix EXCEPT !.pc = "daemons", !.cur = None,
                          !.partial = @ \/ Alive(fix.cur)]
    /\ UNCHANGED <<mode, saved, daemon, pidfile, sup, supfile, helper, pulls, budget,
                   idfile>>

\* fix_pid_file: write the kept pid, or remove what was stale when looked at.
FixFile(item) ==
    /\ Agreed(item)
    /\ \/ item = "dfile" /\ pidfile' = KeepDaemon /\ UNCHANGED supfile
       \/ item = "sfile" /\ supfile' = fix.keepSup /\ UNCHANGED pidfile
    /\ Past(item, FALSE)
    /\ UNCHANGED <<mode, saved, daemon, sup, op, helper, pulls, budget, idfile>>

\* rebuild: the file, whatever it holds by now, is moved away and replaced.
FixIdFile ==
    /\ Agreed("idfile")
    /\ idfile' = "rebuilt"
    /\ Past("idfile", FALSE)
    /\ UNCHANGED <<mode, saved, daemon, pidfile, sup, supfile, op, helper, pulls, budget>>

FixHup ==
    /\ Agreed("hup")
    /\ IF SupAlive(fix.keepSup) /\ sup[fix.keepSup].st = "up"
       THEN sup' = [sup EXCEPT ![fix.keepSup].hup = TRUE] /\ UNCHANGED op
       ELSE /\ sup' = KilledSups({s \in {fix.keepSup} : SupAlive(s)})
            /\ op' = KilledOps({s \in {fix.keepSup} : SupAlive(s)})
    /\ Past("hup", ~(SupAlive(fix.keepSup) /\ sup[fix.keepSup].st = "up"))
    /\ UNCHANGED <<mode, saved, daemon, pidfile, supfile, helper, pulls, budget, idfile>>

\* The command not run.
FixLaunchForgotten ==
    /\ Agreed("launch")
    /\ Past("launch", FALSE)
    /\ UNCHANGED <<mode, saved, daemon, pidfile, sup, supfile, op, helper, pulls, budget,
                   idfile>>

\* supervisor.py start
FixLaunch ==
    /\ Agreed("launch")
    /\ \E s \in Sups : sup[s].st = "off" /\ Start(s)
    /\ Past("launch", FALSE)
    /\ UNCHANGED <<mode, saved, daemon, pidfile, op, helper, pulls, budget, idfile>>

\* Engine: a pass of the main loop saves the file.
Save(p) ==
    /\ St(p) = "up" /\ idfile # "good"
    /\ idfile' = "good"
    /\ UNCHANGED <<vars, fix>>

FixStep ==
    \/ FixStart
    \/ \E item \in Questions : Look(item) \/ Decline(item)
    \/ FixSups \/ FixDaemon \/ FixKill \/ FixStopped
    \/ FixFile("dfile") \/ FixFile("sfile")
    \/ FixIdFile \/ FixHup \/ FixLaunch

FixNext ==
    \/ Next /\ UNCHANGED <<fix, idfile>>
    \/ FixStep
    \/ \E p \in Pid : Save(p)

FixSpec == FixInit /\ [][FixNext]_fixVars

FixFairSpec ==
    /\ FixSpec /\ Fairness
    /\ WF_fixVars(FixStep) /\ \A p \in Pid : WF_fixVars(Save(p))

-----------------------------------------------------------------------------
\* Type invariant: the repair and the event id file.
FixTypeOK ==
    /\ fix \in [pc : {"off", "sups", "daemons", "daemonWait", "daemonKilled", "dfile",
                      "sfile", "idfile", "hup", "launch", "done"},
                asked : BOOLEAN, keepSup : Sups \cup {None}, extraSups : SUBSET Sups,
                cur : Pid \cup {None}, problem : BOOLEAN, partial : BOOLEAN,
                calm : BOOLEAN]
    /\ idfile \in {"good", "bad", "rebuilt"}

\* The processes that are kept are never among those that are stopped.
KeptAreSpared ==
    /\ KeepDaemon \notin ExtraDaemons /\ fix.keepSup \notin fix.extraSups
    /\ fix.cur # None => /\ fix.pc \in {"daemonWait", "daemonKilled"}
                         /\ fix.cur \in ExtraDaemons

\* A repair on old observations, beside supervisors that hold a lock it does not know
\* of, breaks nothing they rely on, and spares what it means to keep: one supervisor
\* is active, one daemon at work, a stop leaves none and no reload is lost
\* (diagnose_daemon.py:1371).
RepairInv == SupInv /\ FixTypeOK /\ KeptAreSpared

\* A repair that found no daemon and was applied in full brings one up, however
\* the supervisors acted meanwhile (diagnose_daemon.py:1474).
FixLeavesDaemon ==
    fix.pc = "done" /\ ~fix.partial /\ fix.calm /\ KeepDaemon = None
        ~> \E p \in Pid : St(p) = "up"

=============================================================================
