SPECIFICATION FairSpec
CONSTANTS
  Files <- OnlyDocumented
  Drafts <- OnlyDocumented
  Shipped <- OnlyDocumented
  Signers = {}
  MaxRuns = 1
  Replicas = 1
  MaxRetries = 0
  MaxFaults = 0
PROPERTIES
  DocumentedUrlIsReady
CHECK_DEADLOCK FALSE
