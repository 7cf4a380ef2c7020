CONSTANTS
  m1 = m1
  m2 = m2
  m3 = m3
  m4 = m4
  NoModel = NoModel
  Models <- MCModels
  NMeasures <- MCNMeasures
  Size <- MCSize
  Calls <- MCCalls
SPECIFICATION FairSpec
INVARIANTS
  TypeOK
  VerdictExact
  ResultMatchesCheckers
  ModelIsCounterexample
  ModelIsSmallest
PROPERTY
  Terminates
CHECK_DEADLOCK FALSE
