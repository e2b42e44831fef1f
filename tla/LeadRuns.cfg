\* Two objectives, plans of two steps, aborts, kills and restarts.
SPECIFICATION FairSpec
CONSTANTS
  MaxRuns = 2
  MaxSteps = 2
  MaxAttempts = 2
  MaxArtifacts = 2
  Torn = Torn
INVARIANTS InputsReadable AcceptedMeansDone RetrievedOnce
PROPERTY RunReturns
CHECK_DEADLOCK FALSE
