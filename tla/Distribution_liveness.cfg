CONSTANTS
  SKUs <- MCSKUs
  SkuOf <- MCSkuOf
  CreatedAt <- MCCreatedAt
  Jobs = {j1}
  Attempts = {a1, a2}
  Handlers = {h1}
  MaxRetries = 1
  RetryLimit = 1
  MaxFaults = 1
  NoAttempt = NoAttempt
  NoJob = NoJob
SPECIFICATION FairAgentsSpec
PROPERTIES
  ImplementsSkuWorkflow
  ZombiesAreReclaimed
  JobsSettle
CHECK_DEADLOCK FALSE
