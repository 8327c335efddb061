SPECIFICATION FairSpec
CONSTANTS
  w1 = w1
  w2 = w2
  w3 = w3
  Samples = {s1}
  Workers = {w1, w2, w3}
  Replaces <- InTurn
  NoWorker = NoWorker
  MaxAttempts = 2
  LeaseSeconds = 1
  RetryBaseDelay = 1
  MaxFaults = 2
PROPERTIES
  RunEnds
