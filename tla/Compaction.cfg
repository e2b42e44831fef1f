\* Repeated compactions while entries are appended and the leaf is moved.
CONSTANTS
  KeepRecentTokens = 2
  Sizes = {1}
  MaxCalls = 2
  MaxEntries = 6
SPECIFICATION Spec
INVARIANTS EveryMessageAccounted ResultsFollowTheirCall
PROPERTY KeepsNoMoreThanAsked
CHECK_DEADLOCK FALSE
