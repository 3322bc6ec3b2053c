\* An administrator's request that names two orders.
SPECIFICATION Spec
CONSTANTS
  Orders = {o1, o2}
  Customers = {c1}
  Admin = admin
  Free = free
  Threads = {t1, t2}
  AdminTypes = {"QUOTE_APPROVED"}
  MaxRequests = 3
  MaxFaults = 0
PROPERTIES OnlyItsPathMoves
CHECK_DEADLOCK FALSE
