SPECIFICATION Spec
CONSTANTS
  Versions = {1, 2}
  Arts <- MCArts
  Answers <- MCAnswers
  MaxBytes = 2
  MaxFiles = 2
  Lifetime = 2
  MaxNow = 2
  MaxTokens = 2
INVARIANTS CompleteArtifact WithinLimits TokenIsGood
