SPECIFICATION Spec
CONSTANTS
  Streams = {s}
  Records = {r}
  Limit = 1
  MaxOutput = 2
  MaxCrashes = 1
  MaxFailures = 1
INVARIANTS
  ResultIsTrue
  RunningIsMinded
  LeavingStopsCommands
PROPERTIES
  RunsEnd
CHECK_DEADLOCK FALSE
