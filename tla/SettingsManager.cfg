\* Two processes and the user, two settings, failing and cut writes.
SPECIFICATION Spec
CONSTANTS
  Processes = {p1, p2}
  Fields = {f1, f2}
  MaxSets = 3
  MaxQueue = 3
INVARIANT NothingForgotten
PROPERTY OwnChangesOnly
CHECK_DEADLOCK FALSE
