----------------------------- MODULE MCAgentRun -----------------------------
(* Instances of AgentRun for TLC.  The bounds are given by the .cfg files.  *)
EXTENDS ProviderContext
=============================================================================
