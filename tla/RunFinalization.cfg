SPECIFICATION Spec
CONSTANTS
  a1 = a1
  a2 = a2
  b1 = b1
  b2 = b2
  Samples <- MCSamples
  Runs = {1, 2}
  RunOf <- MCRunOf
  Tasks = {t1, t2, t3}
  NoTask = NoTask
SYMMETRY Symmetry
INVARIANTS
  RunFollowsSamples
  DeadlocksSpareWorkers
PROPERTIES
  ClosedByLastSample
CHECK_DEADLOCK FALSE
