SPECIFICATION Spec
CONSTANTS
  a = a
  b = b
  Jobs <- MCJobs
  Attempts = 2
  Concurrency = 1
  Kept = 1
  KeptFailed = 1
  MaxStalls = 1
  MaxCrashes = 2
INVARIANTS
  RunsBounded
  AnswersAreTrue
PROPERTIES
  JobsSettle
CHECK_DEADLOCK FALSE
