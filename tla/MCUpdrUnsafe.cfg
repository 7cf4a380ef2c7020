CONSTANTS
  State <- MCState
  Programs <- MCUnsafePrograms
  Diagram <- MCDiagram
  MaxFrames = 3
  MaxGoalSteps = 9
  MaxRuns = 1
SPECIFICATION FairSpec
INVARIANT
  ProvedIsSafe
CHECK_DEADLOCK FALSE
