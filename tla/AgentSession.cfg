\* One caller, gated or free.
CONSTANTS
  Callers = {c1}
  None = None
  MaxRetries = 1
  MaxCompactions = 1
  Budget <- Bounds
  Prompts = 2  Tools = 1  Errors = 2  Acts = 1
  Surroundings <- GatedAndFree
SPECIFICATION FairSpec
INVARIANTS ReloadAgrees ResultsFollowCalls RestartsBounded
PROPERTIES NothingForgotten PromptReturns
CHECK_DEADLOCK FALSE
