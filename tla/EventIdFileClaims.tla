--------------------------- MODULE EventIdFileClaims ---------------------------
(***************************************************************************)
(* What the comments of Engine say of the starting point of a restart, and *)
(* a stop that meets the start breaks.                                     *)
(***************************************************************************)
EXTENDS EventIdFile

\* No start leaves the collections "with no starting point, which would make
\* _getNewEvents() never fetch anything at all" (_loadEventIdData): stop() saves the
\* states of plugins that have none yet, and the next start loads them.
HasStart == At("fetch") /\ continuing => HasCursor
================================================================================
