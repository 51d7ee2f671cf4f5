CONSTANTS
  SKUs <- MCSKUs
  SkuOf <- MCSkuOf
  CreatedAt <- MCCreatedAt
  Jobs = {j1, j2}
  Attempts = {a1, a2}
  Handlers = {h1, h2}
  MaxRetries = 1
  RetryLimit = 1
  MaxFaults = 1
  NoAttempt = NoAttempt
  NoJob = NoJob
SPECIFICATION Spec
SYMMETRY Symmetry
INVARIANTS
  TypeOK
  AttemptBudget
  RetryCountReadIsCurrent
  RunningIsReapable
  CompletionIsEarned
  LogAgreesWithRows
  NoLostCompletion
CHECK_DEADLOCK FALSE
