SPECIFICATION Spec
CONSTANTS
  w1 = w1
  w2 = w2
  w3 = w3
  Samples = {s1}
  Workers = {w1, w2}
  Replaces <- AtOnce
  NoWorker = NoWorker
  MaxAttempts = 2
  LeaseSeconds = 1
  RetryBaseDelay = 1
  MaxFaults = 1
SYMMETRY Symmetry
INVARIANTS
  NoStrandedSample
  ConfirmedLeaseHolds
  OneArtifact
PROPERTIES
  OnlyCurrentAttemptWrites
  DelayKeptByOutbox
  ImplementsLeasedWork
