SPECIFICATION TestsSpec
CONSTANTS
  OFFICIAL_CASES <- Official
  Arbitrary = {"async-batch-processor"}
  Limits = {1, 2}
  Timeouts = {2}
  MaxSteps = 128
  MaxStartFailures = 1
  MaxLines = 2
  MaxCalls = 4
  MaxItems = 3
  MaxTime = 4
  MaxFed = 6
  Nodes = {1, 2, 3}
  Alphabet = {"0", "1", "2", ":"}
INVARIANTS
  ReferencePasses
  ReportIsEarned
  BoundedConcurrency
  BatchLeavesNothing
  AnswersFollowHistory
  DecoderIsExact
  ResolverIsLeast
CHECK_DEADLOCK FALSE
