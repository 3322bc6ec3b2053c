--------------------------- MODULE OrderLifecycle ---------------------------
(***************************************************************************)
(* What the os-service promises about its orders, with no queue, no tables *)
(* and no processes: an order moves atomically along the saga, each move   *)
(* decides one event, a decided event is announced at most once, and a     *)
(* failure or a completion is the last thing that happens to the order.    *)
(* A fault may lose an event that was decided and not yet announced.       *)
(***************************************************************************)
CONSTANT Orders

VARIABLES
  status,     \* where each order stands; "none" before it is opened
  decided,    \* the events its moves have decided and nobody announced yet
  announced   \* the events the service has announced for it

vars == <<status, decided, announced>>

Failures == {"QUOTE_FAILED", "PAYMENT_FAILED", "EXECUTION_ENQUEUE_FAILED", "EXECUTION_FAILED"}

Ends == Failures \cup {"COMPLETED"}

\* A stage, the next one, and the event that tells the others.
Advances ==
  { <<"none", "QUOTE_REQUESTED", "OS_OPENED">>,
    <<"QUOTE_REQUESTED", "QUOTE_APPROVED", "QUOTE_APPROVED">>,
    <<"QUOTE_APPROVED", "PAYMENT_PENDING", "PAYMENT_PENDING">>,
    <<"PAYMENT_PENDING", "EXECUTION_REQUESTED", "EXECUTION_REQUESTED">>,
    <<"EXECUTION_REQUESTED", "EXECUTION_IN_PROGRESS", "EXECUTION_STARTED">>,
    <<"EXECUTION_IN_PROGRESS", "COMPLETED", "OS_COMPLETED">> }

Init ==
  /\ status = [o \in Orders |-> "none"]
  /\ decided = [o \in Orders |-> {}]
  /\ announced = [o \in Orders |-> {}]

Moves(o, s, ev) ==
  /\ status' = [status EXCEPT ![o] = s]
  /\ decided' = [decided EXCEPT ![o] = @ \cup {ev}]
  /\ UNCHANGED announced

Advance(o) == \E a \in Advances : status[o] = a[1] /\ Moves(o, a[2], a[3])

Fail(o) ==
  /\ status[o] \notin Ends \cup {"none"}
  /\ \E s \in Failures : Moves(o, s, "OS_COMPENSATION_REQUIRED")

\* An event is announced once, by whoever decided it.
Announce(o) ==
  \E ev \in decided[o] \ announced[o] :
    /\ decided' = [decided EXCEPT ![o] = @ \ {ev}]
    /\ announced' = [announced EXCEPT ![o] = @ \cup {ev}]
    /\ UNCHANGED status

\* A crash between the move and the announcement.
Forget(o) ==
  \E ev \in decided[o] :
    /\ decided' = [decided EXCEPT ![o] = @ \ {ev}]
    /\ UNCHANGED <<status, announced>>

Next == \E o \in Orders : Advance(o) \/ Fail(o) \/ Announce(o) \/ Forget(o)

Spec == Init /\ [][Next]_vars
=============================================================================
