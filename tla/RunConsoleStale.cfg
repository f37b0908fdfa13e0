SPECIFICATION Spec
CONSTANTS
  MaxEvents = 2
  MaxReads = 2
  MaxReconnects = 1
  ReadsFail = FALSE
PROPERTIES
  ApprovalsReachUser
CHECK_DEADLOCK FALSE
