SPECIFICATION FairSpec
CONSTANTS
  Cases = 2
  CapabilityAttempts = 3
  OomEventAttempts = 3
  MaxFaults = 4
INVARIANTS
  VerdictIsJustified
  NothingLeftRunning
PROPERTIES
  EvaluationEnds
CHECK_DEADLOCK FALSE
