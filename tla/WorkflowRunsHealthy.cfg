SPECIFICATION Spec
CONSTANTS
  r1 = r1
  r2 = r2
  Runs <- MCOneRun
  Steps = 3
  DaxSteps <- MCMixedSteps
  WithInput <- MCMixedSteps
  MaxDbFailures = 0
  MaxCrashes = 1
PROPERTIES
  RunsSettle
  RowLifecycle
CHECK_DEADLOCK FALSE
