CONSTANTS
  Pids = {p1, p2}
  Projects = {j1}
  Overlap = TRUE
  MaxTokens = 2
  MaxLeaseFailures = 0
SPECIFICATION LeaseSpec
INVARIANTS AtMostOneRuntime
CHECK_DEADLOCK FALSE
