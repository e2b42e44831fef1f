\* A tail is cut when it is longer than eight bytes, and for the second time
\* after fourteen bytes of output.
SPECIFICATION OutputSpec
CONSTANTS
  maxLines = 2
  maxBytes = 2
  MaxRaw = 14
  MaxPlain = 2
  MaxChunk = 3
INVARIANTS SnapshotIsTail FullOutputKept
CHECK_DEADLOCK FALSE
