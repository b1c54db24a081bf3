SPECIFICATION Spec
CONSTANTS
  v1 = v1
  v2 = v2
  Vectors = {v1, v2}
  Near <- MCNear
  Epochs = {1, 2}
  VectorOf <- MCVectorOf
  CommitReveal = TRUE
  RetryAttempts = 2
  AbandonAge = 4
  SnapshotMaxAge = 1
  RateLimit = 1
  Mortality = 1
  FinalityLag = 1
  SubmitWindow = 1
  MaxBlock = 5
  MaxIntents = 2
INVARIANTS OneOpenRowUnderCommitReveal
