CONSTANTS
  State <- MCState
  Programs <- MCCounterexamplePrograms
  Diagram <- MCDiagram
  MaxFrames = 3
  MaxGoalSteps = 9
  MaxRuns = 1
SPECIFICATION FairSpec
INVARIANT
  CounterexampleReported
CHECK_DEADLOCK FALSE
