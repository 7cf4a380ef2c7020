CONSTANTS
  l1 = l1
  l2 = l2
  NoLine = NoLine
  NoneIvy = NoneIvy
  Lines <- MCLines
  Jobs <- MCJobs
SPECIFICATION Spec
INVARIANTS
  TypeOK
  OkIsProved
  BoundedExact
  MacroFinderScope
CHECK_DEADLOCK FALSE
