------------------------ MODULE MCOutputAccumulator ------------------------
(* Instances of OutputAccumulator for TLC.  The .cfg gives the bounds.     *)
EXTENDS OutputAccumulator
=============================================================================
