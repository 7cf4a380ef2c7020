CONSTANTS
  N = 3
  Jobs <- MCJobs
SPECIFICATION FairSpec
INVARIANTS
  TypeOK
  VerdictRight
  CancelledIsOwn
PROPERTIES
  WatcherLeaves
  CheckReturns
CHECK_DEADLOCK FALSE
