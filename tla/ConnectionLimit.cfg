SPECIFICATION MCSpec
CONSTANTS
  Links <- MCLinks
  MAX_LEN = 6
  RioSize = 3
  Capacity = 4
  Letters = {"x"}
  MaxMessages = 2
CHECK_DEADLOCK FALSE
INVARIANTS
  DocumentedLengthArrivesWhole
