\* One worker, an administrator, one fault, and partners that answer.
SPECIFICATION FairJointSpec
CONSTANTS
  o1 = o1
  foreign = foreign
  Orders = {o1}
  ForeignOrder = foreign
  Workers = {w1}
  Threads = {t1}
  OtherTypes = {"EXECUTION_QUEUED"}
  Inputs <- PeerInputs
  AdminTypes = {"QUOTE_CREATED", "PAYMENT_FAILED"}
  MaxSends = 7
  MaxQueue = 16
  MaxRequests = 1
  MaxFaults = 1
INVARIANTS PeersAreHeard OrdersCanGoOn PaidBeforeExecuted NoFailureIsLate
PROPERTIES EchoesDieOut OrdersEnd CompensationFollows
CHECK_DEADLOCK FALSE
