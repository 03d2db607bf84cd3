CONSTANTS
  MaxTurns = 2
  MaxCalls = 3
  MaxEmpty = 2
  MaxReviews = 1
  MaxCompacts = 0
SPECIFICATION Spec
INVARIANTS RecentRoundsSent
CHECK_DEADLOCK FALSE
