\* Kills between and inside writes, restarts, forks and imports.
CONSTANTS
  Ids = {e1, e2, e3}
  NoId = NoId
  SessionFiles = {s1, s2}
  NoFile = NoFile
  PlainKinds = {"user", "assistant"}
  MaxSessions = 3
SPECIFICATION Spec
SYMMETRY Symmetries
INVARIANTS Durable ReloadAgrees
PROPERTIES FilesOnlyGrow ForkCopiesPath
CHECK_DEADLOCK FALSE
