SPECIFICATION Spec
CONSTANTS
  MaxEvents = 2
  MaxReads = 2
  MaxReconnects = 1
  ReadsFail = TRUE
INVARIANTS
  EndIsTrue
PROPERTIES
  EndIsNoticed
CHECK_DEADLOCK FALSE
