\* Two workers (a rolling update) and one lost connection.
SPECIFICATION Spec
CONSTANTS
  o1 = o1
  foreign = foreign
  Orders = {o1}
  ForeignOrder = foreign
  Workers = {w1, w2}
  Threads = {t1}
  OtherTypes = {"EXECUTION_QUEUED"}
  Inputs <- HappyInputs
  AdminTypes = {}
  MaxSends = 1
  MaxQueue = 2
  MaxRequests = 0
  MaxFaults = 1
INVARIANTS AnnouncedOnce
CHECK_DEADLOCK FALSE
