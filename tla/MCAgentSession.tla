--------------------------- MODULE MCAgentSession ---------------------------
(* Small instances of AgentSession for TLC.                                *)
EXTENDS AgentSession, TLC

CONSTANTS Prompts, Tools, Errors, Acts

\* overlap and slowHandlers; free callers meet one error.
Gated == <<FALSE, FALSE>>
Free == <<TRUE, TRUE>>

OnlyGated == {Gated}
GatedAndFree == {Gated, Free}

Bounds ==
  [s \in Surroundings |->
     ("prompt" :> Prompts) @@ ("tool" :> Tools)
       @@ ("error" :> IF s = Free THEN 1 ELSE Errors) @@ ("act" :> Acts)]
=============================================================================
