---------------------------- MODULE MCStatusSync ----------------------------
(* Instances of StatusSync for TLC.                                        *)
EXTENDS StatusSync, TLC

\* The first task has two versions, the others have none.
TwoVersions == [t \in Task |-> IF t = 1 THEN 2 ELSE 0]

\* A task in progress goes with a version under review, a final one with an
\* approved one; the other statuses are not mapped.
ToVersion == [s \in TaskStatus |-> CASE s = "ip"  -> "rev"
                                     [] s = "fin" -> "apr"
                                     [] OTHER     -> None]
ToTask == [s \in VersionStatus |-> IF s = "apr" THEN "fin" ELSE "ip"]
=============================================================================
