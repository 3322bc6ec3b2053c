\* Two threads of one replica, in either runtime mode.
SPECIFICATION FairSpec
CONSTANTS
  Orders = {o1}
  Customers = {c1, c2}
  Admin = admin
  Free = free
  Threads = {t1, t2}
  AdminTypes = {"QUOTE_APPROVED", "PAYMENT_PREFERENCE_CREATED", "PAYMENT_CONFIRMED", "PAYMENT_FAILED"}
  MaxRequests = 4
  MaxFaults = 1
INVARIANTS TypeOK EvidenceIsExact EvidenceErrsByFaults OnlyRacesLose WaitersAreServed
PROPERTIES SharedHistoryGrows ImplementsEvidenceLog RequestsEnd
CHECK_DEADLOCK FALSE
