-------------------------------- MODULE Delivery --------------------------------
(***************************************************************************)
(* What the event daemon promises: every event of the log is delivered to  *)
(* every plugin at least once, or given up for it in one of three          *)
(* situations, over crashes and restarts.  No queue, no backlog, no        *)
(* threads: a plugin has a set of ids it has reached, which a crash takes  *)
(* away, and a set that is saved, which it resumes from.                   *)
(***************************************************************************)
EXTENDS Naturals

CONSTANTS Plugin, EventId

VARIABLES
    published,   \* the events in the log
    handled,     \* handled[p]: delivered to p at least once
    waived,      \* waived[p]: never delivered to p, and given up
    reached,     \* reached[p]: what p, as it runs, will not ask for again
    saved        \* saved[p]: the same, in the checkpoint

vars == <<published, handled, waived, reached, saved>>

Settled(p) == handled[p] \cup waived[p]

Init ==
    /\ published \subseteq EventId
    /\ handled = [p \in Plugin |-> {}]
    /\ waived = [p \in Plugin |-> {}]
    /\ reached = [p \in Plugin |-> {}]
    /\ saved = [p \in Plugin |-> {}]

Publish(e) ==
    /\ published' = published \cup {e}
    /\ UNCHANGED <<handled, waived, reached, saved>>

\* Nothing is delivered that p has reached.  Events before e may be given up with
\* it, and p may have to go back for others.
Deliver(p, e) ==
    /\ e \in published \ reached[p]
    /\ handled' = [handled EXCEPT ![p] = @ \cup {e}]
    /\ \E S \in SUBSET {f \in EventId : f < e} :
        waived' = [waived EXCEPT ![p] = (@ \cup (S \ handled[p])) \ {e}]
    /\ \E R \in SUBSET Settled(p)' :
        e \in R /\ reached' = [reached EXCEPT ![p] = R]
    /\ UNCHANGED <<published, saved>>

\* p has waited long enough for an event that it has not reached.
GiveUp(p, e) ==
    /\ e \notin reached[p]
    /\ waived' = [waived EXCEPT ![p] = @ \cup ({e} \ handled[p])]
    /\ reached' \in {reached, [reached EXCEPT ![p] = @ \cup {e}]}
    /\ UNCHANGED <<published, handled, saved>>

\* Plugins crash, stop or are removed.  Nothing is given up.
Forget ==
    /\ \A p \in Plugin : reached'[p] \in {{}, reached[p]}
    /\ UNCHANGED <<published, handled, waived, saved>>

\* A checkpoint claims nothing that is not settled.
Checkpoint ==
    /\ \A p \in Plugin : saved'[p] = saved[p] \/ saved'[p] \subseteq Settled(p)
    /\ UNCHANGED <<published, handled, waived, reached>>

\* p starts again where its checkpoint says or, if that is too old or there is
\* none, gives up what is older than a later event.
Resume(p) ==
    /\ reached[p] = {}
    /\ \/ reached' = [reached EXCEPT ![p] = saved[p]] /\ UNCHANGED waived
       \/ \E m \in EventId :
            LET older == {e \in EventId : e <= m} IN
            /\ saved[p] \subseteq older
            /\ reached' = [reached EXCEPT ![p] = older]
            /\ waived' = [waived EXCEPT ![p] = @ \cup (older \ handled[p])]
    /\ UNCHANGED <<published, handled, saved>>

Next ==
    \/ \E e \in EventId : Publish(e)
    \/ \E p \in Plugin, e \in EventId : Deliver(p, e) \/ GiveUp(p, e)
    \/ \E p \in Plugin : Resume(p)
    \/ Forget \/ Checkpoint

Spec == Init /\ [][Next]_vars
=================================================================================
