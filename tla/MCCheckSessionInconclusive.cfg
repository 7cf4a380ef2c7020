CONSTANTS
  N = 1
  Jobs <- MCFewJobs
SPECIFICATION Spec
INVARIANTS
  PassIsProved
CHECK_DEADLOCK FALSE
