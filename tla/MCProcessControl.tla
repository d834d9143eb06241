--------------------------- MODULE MCProcessControl ---------------------------
(* Two command loops and three pids: two of the program, one of another.   *)
EXTENDS ProcessControl
=============================================================================
