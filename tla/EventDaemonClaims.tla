--------------------------- MODULE EventDaemonClaims ---------------------------
(***************************************************************************)
(* What comments and docstrings of shotgunEventDaemon.py say of the        *)
(* engine, where the code does otherwise: the run main_crash ends in a     *)
(* behaviour of the code that refutes the claim.                           *)
(***************************************************************************)
EXTENDS EventDaemon

\* _workerLoop (1735-1737): an unexpected error in a plugin "can never escape this
\* thread and take down anything else".  The main thread does not die.
MainThreadSurvives == pc # "crashed"
================================================================================
