CONSTANTS
  N = 1
  Jobs <- MCFewJobs
SPECIFICATION FairSpec
PROPERTIES
  CancelEndsCheck
CHECK_DEADLOCK FALSE
