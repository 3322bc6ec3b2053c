SPECIFICATION FairSpec
CONSTANTS
  Files <- Candidates
  Drafts <- Later
  Shipped <- Sent
  Signers <- Anybody
  MaxRuns = 2
  Replicas = 1
  MaxRetries = 1
  MaxFaults = 1
INVARIANTS
  TypeOK
  NewPodsFindTheirTables
  PassedRunRules
  RolesAreApart
  SessionsSurvive
PROPERTIES
  PreparedIsStable
  AcceptedFilesStart
  ProcessesStart
CHECK_DEADLOCK FALSE
