CONSTANTS
  a = a
  b = b
  c = c
  d = d
  Calls <- MCFour
  Allowlisted <- MCFour
  MaxConcurrent = 1
  MaxQueue = 2
SPECIFICATION Spec
CONSTRAINT MCStarted
SYMMETRY MCSymmetry
INVARIANTS
  SlotAccounting
  QueueDiscipline
  EffectsMatchOutcomes
  ProcessesAreMinded
PROPERTIES
  NoOvertaking
  SettledForGood
CHECK_DEADLOCK FALSE
