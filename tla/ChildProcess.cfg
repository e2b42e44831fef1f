\* Both callers; output of up to three chunks, two of which need no file.
SPECIFICATION FairSpec
CONSTANTS
  Kinds = {"bash", "exec"}
  ShownChunks = 2
  MaxChunks = 3
INVARIANTS UpdatesCatchUp OutputComplete StoppedIsReported
PROPERTY CallReturns
CHECK_DEADLOCK FALSE
