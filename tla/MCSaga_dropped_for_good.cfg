\* One worker and one failed database call.
SPECIFICATION FairSpec
CONSTANTS
  o1 = o1
  foreign = foreign
  Orders = {o1}
  ForeignOrder = foreign
  Workers = {w1}
  Threads = {t1}
  OtherTypes = {"EXECUTION_QUEUED"}
  Inputs <- ShortInputs
  AdminTypes = {}
  MaxSends = 1
  MaxQueue = 2
  MaxRequests = 0
  MaxFaults = 1
PROPERTIES DroppedIsRetried
CHECK_DEADLOCK FALSE
