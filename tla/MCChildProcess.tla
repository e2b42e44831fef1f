--------------------------- MODULE MCChildProcess ---------------------------
(* Instances of ChildProcess for TLC.  The .cfg files give the bounds.      *)
EXTENDS ChildProcess
=============================================================================
