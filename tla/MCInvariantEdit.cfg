CONSTANTS
  Conjs <- MCConjs
  Selectable = {"a", "c"}
  Texts <- MCTexts
  Invariants <- MCInvariants
  Wrappers = {"wrapper"}
  Compiling = {"two", "wrapper"}
  States <- MCStates
  Steps <- MCSteps
  Meaning <- MCMeaning
  Runs = {r1, r2}
  MaxEdits = 2
  None = None
SPECIFICATION FairSpec
INVARIANTS
  TypeOK
  ListsAligned
  CounterexampleIsCurrent
  OverlayMatches
  VerdictOfEditor
  WeakenExact
PROPERTIES
  OverlayEnds
CHECK_DEADLOCK FALSE
