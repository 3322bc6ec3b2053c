\* An administrator and the worker on one order, no fault.
SPECIFICATION Spec
CONSTANTS
  o1 = o1
  foreign = foreign
  Orders = {o1}
  ForeignOrder = foreign
  Workers = {w1}
  Threads = {t1}
  OtherTypes = {"EXECUTION_QUEUED"}
  Inputs <- HappyInputs
  AdminTypes = {"PAYMENT_FAILED"}
  MaxSends = 2
  MaxQueue = 2
  MaxRequests = 1
  MaxFaults = 0
PROPERTIES TerminalIsFinal
CHECK_DEADLOCK FALSE
