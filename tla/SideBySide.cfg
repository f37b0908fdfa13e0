SPECIFICATION SideSpec
CONSTANTS
  None = None
  Edits = {"r1", "r2", "r3", "r4"}
  MaxFailures = 1
  Keys = {"k1", "k2", "k3"}
  Values = {"v1", "v2"}
  MaxSize = 2
  Ttl = 2
  StoreTime = 4
  Commands = {"c1", "c2"}
  Own = {"c1"}
  Presses = {"p1", "p2", "p3"}
  Loads = {"l1", "l2"}
  Users = {"u1", "u2"}
  Providers = {"github", "slack"}
  Calls = {"q1", "q2"}
  LinkTtl = 1
  LinkTime = 3
  Workflows = {"w1", "w2", "w3"}
  Names = {"a", "b", "c"}
  Templates <- MCTemplates
  MaxAttempts = 2
  Saves = {e1, e2, e3}
INVARIANTS
  HistoryIsWhole
  AgreesWithUse
  Retained
  CommandsRunOnce
  TokensAreOfMembers
  SlugsFollowNames
PROPERTIES
  ExpiredNeverServed
CHECK_DEADLOCK FALSE
