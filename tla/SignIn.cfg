SPECIFICATION Spec
CONSTANTS
  Tabs <- MCTabs
  a = a
  b = b
  Resets = {1, 2}
  NoTab = NoTab
  MaxCalls = 3
  MaxUpsets = 1
INVARIANTS
  SignedOutForAReason
  EndedForGood
PROPERTIES
  CallsSettle
CHECK_DEADLOCK FALSE
