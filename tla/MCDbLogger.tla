------------------------------- MODULE MCDbLogger -------------------------------
(* Definitions that the .cfg files substitute for the constants of DbLogger. *)
EXTENDS DbLogger

\* The first run failed, the others succeeded.
FirstRunFailed == {1}

================================================================================
