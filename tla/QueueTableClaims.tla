--------------------------- MODULE QueueTableClaims ---------------------------
(***************************************************************************)
(* What a docstring says of the stop of a plugin, where the code does      *)
(* otherwise.                                                              *)
(***************************************************************************)
EXTENDS QueueTable

\* Plugin.shutdown (1618-1622) asks the worker to stop "once its queue is drained,
\* and wait for it to do so"; Engine.stop (881-885) waits "for whatever event each
\* plugin is currently in the middle of to finish first".  With callbacks that
\* return, a shutdown comes to its end.
ShutdownEnds == \A p \in Plugin : closer[p].pc = "sentinel" ~> closer[p].pc = "done"
===============================================================================
