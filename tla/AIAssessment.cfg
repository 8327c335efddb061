SPECIFICATION FairAISpec
CONSTANTS
  JudgeCount = 2
  Slots = 1
  MaxAttempts = 2
  JudgeAnswers <- MCJudgeAnswers
  Threshold = 3333
  Drafts <- MCDrafts
  MaxAdversarialTests = 3
INVARIANTS
  ScoreIsSound
  
PROPERTIES
  AssessmentEnds
