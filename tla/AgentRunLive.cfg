\* Listeners, callbacks and providers that fail; steering drained all at once.
SPECIFICATION FairSpec
CONSTANTS
  SteeringMode = "all"
  FollowUpMode = "one-at-a-time"
  ListenerThrows = TRUE
  CallbackThrows = TRUE
  ProviderFails = TRUE
  MaxMsgs = 2
  MaxCalls = 2
  MaxBatches = 1
  MaxRuns = 2
INVARIANTS ContextIsTranscript ProviderSeesAnsweredCalls
PROPERTIES RunSettles QueuedWorkRuns
CHECK_DEADLOCK FALSE
