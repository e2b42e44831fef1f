\* The constants of AgentSession.cfg, gated.
CONSTANTS
  Callers = {c1}
  None = None
  MaxRetries = 1
  MaxCompactions = 1
  Budget <- Bounds
  Prompts = 2  Tools = 1  Errors = 2  Acts = 1
  Surroundings <- OnlyGated
SPECIFICATION FairSpec
PROPERTY PromptAlwaysReturns
CHECK_DEADLOCK FALSE
