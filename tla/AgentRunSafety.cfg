\* Errors, aborts, retries and failing callbacks; queues drained one at a time.
SPECIFICATION Spec
CONSTANTS
  SteeringMode = "one-at-a-time"
  FollowUpMode = "one-at-a-time"
  ListenerThrows = FALSE
  CallbackThrows = TRUE
  ProviderFails = TRUE
  MaxMsgs = 3
  MaxCalls = 2
  MaxBatches = 2
  MaxRuns = 2
INVARIANTS AnsweredInOrder NothingLostOrRepeated QueuesAreFifo
CHECK_DEADLOCK FALSE
