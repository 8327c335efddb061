SPECIFICATION FairSpec
CONSTANTS
  Jobs = {j1}
  Workers = {w1, w2}
  Publishers = {p1}
  NoWorker = NoWorker
  MaxAttempts = 2
  LeaseSeconds = 1
  RetryBaseDelay = 1
  MaxFaults = 1
INVARIANTS
  NoStrandedJob
  RowsAreOwned
PROPERTIES
  ImplementsLeasedWork
  EveryJobEnds
