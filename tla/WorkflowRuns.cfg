SPECIFICATION Spec
CONSTANTS
  r1 = r1
  r2 = r2
  Runs <- MCTwoRuns
  Steps = 2
  DaxSteps <- MCBothSteps
  WithInput <- MCBothSteps
  MaxDbFailures = 1
  MaxCrashes = 1
SYMMETRY MCSymmetry
INVARIANTS
  StepsInOrder
  CompletedIsComplete
  CountersMatchRows
  RowsShowLastPoll
  NoSilentDelegation
CHECK_DEADLOCK FALSE
