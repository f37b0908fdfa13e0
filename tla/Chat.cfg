SPECIFICATION Spec
CONSTANTS
  Convs = {x, y}
  MaxSends = 2
  MaxLoads = 2
  Take = 3
  MaxFailures = 1
INVARIANTS
  PageShowsConversation
  RepliesFollowQuestions
  RunsAreAccountedFor
SYMMETRY Symmetry
CHECK_DEADLOCK FALSE
