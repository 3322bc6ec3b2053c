\* Two threads on two customers, two vehicles, an account and an order.
SPECIFICATION Spec
CONSTANTS
  Customers = {c1, c2}
  Vehicles = {v1, v2}
  Admins = {a1}
  ServiceOrders = {so1}
  Unknown = nobody
  Emails = {e1, e2}
  Documents = {d1}
  Plates = {p1, p2}
  NoDocument = none
  Threads = {t1, t2}
  MaxRequests = 4
SYMMETRY RegistrySymmetry
INVARIANTS TypeOK KeysAreUnique ConflictsAreReal OwnersWereCustomers OrdersWereValid
PROPERTIES DeletedStaysDeleted ImplementsDirectory
CHECK_DEADLOCK FALSE
