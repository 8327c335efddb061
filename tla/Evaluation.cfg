SPECIFICATION FairSpec
CONSTANTS
  Instances <- MCInstances
  MaxFaults = 1
INVARIANTS
  EvidenceIsWhole
  NoProcessOutlivesItsCommand
  ScoreIsExplained
  AnsweredIsStored
PROPERTIES
  EvaluationAnswered
