CONSTANTS
  a = a
  b = b
  c = c
  d = d
  Calls <- MCThree
  Allowlisted <- MCTwo
  MaxConcurrent = 1
  MaxQueue = 1
SPECIFICATION Spec
PROPERTIES
  EveryCallAnswered
CHECK_DEADLOCK FALSE
