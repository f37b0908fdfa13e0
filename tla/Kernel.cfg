SPECIFICATION Spec
CONSTANTS
  o1 = o1
  o2 = o2
  nobody = nobody
  norun = norun
  d1 = d1
  Owners <- MCOwners
  Nobody = nobody
  NoRun = norun
  Tools <- MCTools
  Diffs <- MCDiffs
  MaxExplained = 1
  RunLimits <- MCRunLimits
  BundleLimits <- MCBundleLimits
  AuditLimits <- MCBundleLimits
  MaxRuns = 1
  MaxCalls = 3
  MaxTime = 2
SYMMETRY MCSymmetry
INVARIANTS
  FiguresMatchLog
  OnlyOwnersSucceed
PROPERTIES
  EndedRunsAreFrozen
  BundlesKeepTheirOwner
CHECK_DEADLOCK FALSE
