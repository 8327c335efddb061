SPECIFICATION HistorySpec
CONSTANTS
  c1 = c1
  c2 = c2
  c3 = c3
  c4 = c4
  Clients = {c1, c2, c3, c4}
  Request <- MCRequest
  Refused = {"bad"}
  NoKey = "none"
  PlanSize = 2
  MaxPosts = 2
  MaxFaults = 1
  MaxPolls = 2
  Authors = {c1, c4}
  Calm = TRUE
  Legacy = 1
  Limit = 1
INVARIANTS
  IdempotentCreation
  ReadsAreConsistent
PROPERTIES
  PollsOnlyAdvance
CHECK_DEADLOCK FALSE
