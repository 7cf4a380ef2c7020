CONSTANTS
  State <- MCState
  Programs <- MCPrograms
  Diagram <- MCDiagram
  MaxFrames = 3
  MaxGoalSteps = 9
  MaxRuns = 2
SPECIFICATION FairSpec
INVARIANTS
  TypeOK
  FramesOverApproximate
  ProvedToDepth
  AlwaysProgress
  CounterexampleNotProved
PROPERTIES
  Terminates
CHECK_DEADLOCK FALSE
