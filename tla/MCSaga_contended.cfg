\* Two workers and an administrator on one order; one fault.
SPECIFICATION Spec
CONSTANTS
  o1 = o1
  foreign = foreign
  Orders = {o1}
  ForeignOrder = foreign
  Workers = {w1, w2}
  Threads = {t1}
  OtherTypes = {"EXECUTION_QUEUED"}
  Inputs <- ContendedInputs
  AdminTypes = {"QUOTE_CREATED", "QUOTE_FAILED"}
  MaxSends = 3
  MaxQueue = 1
  MaxRequests = 1
  MaxFaults = 1
SYMMETRY WorkerSymmetry
INVARIANTS RowsAreCoherent AckedIsProcessed ProcessedIsAnswered SavedIsOwed
CHECK_DEADLOCK FALSE
