CONSTANTS
  s1 = s1
  s2 = s2
  l1 = l1
  l2 = l2
  e1 = e1
  e2 = e2
  f = f
  NoLine = NoLine
  NoAct = NoAct
  NoStruct = NoStruct
  Structs <- MCStructs
  Lines <- MCLines
  Acts <- MCActs
  Sources <- MCSources
  Options <- MCOptions
SPECIFICATION FairSpec
INVARIANTS
  TypeOK
  Sound
  VerdictExact
PROPERTY
  Terminates
CHECK_DEADLOCK FALSE
