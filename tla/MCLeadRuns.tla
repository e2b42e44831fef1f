----------------------------- MODULE MCLeadRuns -----------------------------
(* Instances of LeadRuns for TLC.  The bounds are given by the .cfg files.  *)
EXTENDS LeadRuns
=============================================================================
