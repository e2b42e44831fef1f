\* Calls on a file and on a symbolic link to it.
CONSTANTS
  Calls = {c1, c2, c3}
  NoCall = NoCall
  real = real  link = link  file1 = file1
  Paths = {real, link}
  Files = {file1}
  FileOf <- LinkedPaths
  RealPath <- LinkedReal
  Existing = {file1}
SPECIFICATION FairSpec
INVARIANTS QueueEntryIsPending FileExclusion
PROPERTIES NoLostUpdate ChainIsFifoLock QueuedCallSettles
CHECK_DEADLOCK FALSE
