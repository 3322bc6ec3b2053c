\* One worker and one API thread that opens the order; one fault.
SPECIFICATION Spec
CONSTANTS
  o1 = o1
  foreign = foreign
  Orders = {o1}
  ForeignOrder = foreign
  Workers = {w1}
  Threads = {t1}
  OtherTypes = {"EXECUTION_QUEUED"}
  Inputs <- WorkerInputs
  AdminTypes = {}
  MaxSends = 6
  MaxQueue = 2
  MaxRequests = 0
  MaxFaults = 1
INVARIANTS TypeOK AnnouncedOnce AnnouncedIsSaved EchoesAreRefused
PROPERTIES HistoryOnlyGrows ImplementsLifecycle
CHECK_DEADLOCK FALSE
