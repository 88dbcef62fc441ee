SPECIFICATION FairSpec
CONSTANTS
  Values <- MCValues
  MaxLength = 4
  Jobs <- MCJobs
CHECK_DEADLOCK FALSE
INVARIANTS
  TypeOK
  SuccessMeansSorted
  NoSharedElements
PROPERTY EveryProcessEnds
