---------------------------- MODULE ServiceOrder ----------------------------
(***************************************************************************)
(* The ServiceOrder aggregate (src/src/domain/service_order.py) and the    *)
(* event table of HandleSagaEventUseCase._apply, as operators on values.   *)
(*                                                                         *)
(* An order is its status and its history; the customer, the vehicle, the  *)
(* description, reasons and timestamps never decide a step and are left    *)
(* out.  A method that raises leaves the aggregate as it was, so a call is *)
(* a record: does it raise, the order after it, the event it returns.      *)
(***************************************************************************)
EXTENDS Naturals, Sequences

ServiceOrderStatus ==
  { "OPENED", "QUOTE_REQUESTED", "QUOTE_FAILED", "QUOTE_APPROVED",
    "PAYMENT_PENDING", "PAYMENT_CONFIRMED", "PAYMENT_FAILED",
    "EXECUTION_REQUESTED", "EXECUTION_ENQUEUE_FAILED",
    "EXECUTION_IN_PROGRESS", "EXECUTION_FAILED", "COMPLETED" }

FAILURE_STATUSES ==
  { "QUOTE_FAILED", "PAYMENT_FAILED", "EXECUTION_ENQUEUE_FAILED",
    "EXECUTION_FAILED" }

TERMINAL_STATUSES == FAILURE_STATUSES \cup {"COMPLETED"}

INTEGRATION_EVENT_TYPES ==
  { "OS_OPENED", "QUOTE_CREATED", "QUOTE_APPROVED",
    "PAYMENT_PREFERENCE_CREATED", "PAYMENT_PENDING", "PAYMENT_CONFIRMED",
    "EXECUTION_REQUESTED", "EXECUTION_STARTED", "EXECUTION_COMPLETED",
    "QUOTE_FAILED", "PAYMENT_FAILED", "EXECUTION_ENQUEUE_FAILED",
    "EXECUTION_FAILED", "OS_COMPLETED", "OS_COMPENSATION_REQUIRED" }

\* The use case's "next_event is None".
NoEvent == "NoEvent"

Order == [status : ServiceOrderStatus, history : Seq(ServiceOrderStatus)]

-----------------------------------------------------------------------------
(* The methods of the aggregate *)

\* ServiceOrder.open: a fresh aggregate with its first history entry.
Opened == [status |-> "OPENED", history |-> <<"OPENED">>]

\* Mutant: the new entry replaces the history.
RecordedAfresh(o, s) == [status |-> s, history |-> <<s>>]

\* _transition and _record: the status changes and the history grows by it.
Recorded(o, s) == [status |-> s, history |-> Append(o.history, s)]

Raise(o) == [raises |-> TRUE, order |-> o, event |-> NoEvent]

\* Mutant: _transition no longer looks at the terminal statuses.
MoveFromAnywhere(o, from, to, ev) ==
  IF o.status \in from
    THEN [raises |-> FALSE, order |-> Recorded(o, to), event |-> ev]
    ELSE Raise(o)

\* A method that demands a status of "from", moves to "to" and returns "ev";
\* _transition refuses to leave a terminal status whatever the method.
Move(o, from, to, ev) ==
  IF o.status \in from \ TERMINAL_STATUSES
    THEN [raises |-> FALSE, order |-> Recorded(o, to), event |-> ev]
    ELSE Raise(o)

\* request_quote and fail name no stage: any status _transition lets go.
RequestQuote(o) == Move(o, ServiceOrderStatus, "QUOTE_REQUESTED", "OS_OPENED")

\* Mutant: the approval forgets its stage.
ApproveAtAnyStage(o) ==
  Move(o, ServiceOrderStatus, "QUOTE_APPROVED", "QUOTE_APPROVED")

MarkQuoteApproved(o) ==
  Move(o, {"QUOTE_REQUESTED"}, "QUOTE_APPROVED", "QUOTE_APPROVED")

\* Mutant: a payment preference requests the execution.
PendingIsPaid(o) ==
  Move(o, {"QUOTE_APPROVED"}, "PAYMENT_PENDING", "EXECUTION_REQUESTED")

\* Mutant: a payment preference is recorded as a payment.
PendingIsConfirmed(o) ==
  Move(o, {"QUOTE_APPROVED"}, "PAYMENT_CONFIRMED", "PAYMENT_PENDING")

MarkPaymentPending(o) ==
  Move(o, {"QUOTE_APPROVED"}, "PAYMENT_PENDING", "PAYMENT_PENDING")

MarkPaymentConfirmed(o) ==
  Move(o, {"PAYMENT_PENDING"}, "PAYMENT_CONFIRMED", "PAYMENT_CONFIRMED")

RequestExecution(o) ==
  Move(o, {"PAYMENT_CONFIRMED"}, "EXECUTION_REQUESTED", "EXECUTION_REQUESTED")

\* Mutant: a start is accepted again while the execution runs.
StartAgain(o) ==
  Move(o, {"EXECUTION_REQUESTED", "EXECUTION_IN_PROGRESS"},
       "EXECUTION_IN_PROGRESS", "EXECUTION_STARTED")

MarkExecutionStarted(o) ==
  Move(o, {"EXECUTION_REQUESTED"}, "EXECUTION_IN_PROGRESS", "EXECUTION_STARTED")

Complete(o) == Move(o, {"EXECUTION_IN_PROGRESS"}, "COMPLETED", "OS_COMPLETED")

\* Mutant: a failure is recorded and nobody is told.
FailSilently(o, s) == Move(o, ServiceOrderStatus, s, NoEvent)

Fail(o, s) == Move(o, ServiceOrderStatus, s, "OS_COMPENSATION_REQUIRED")

-----------------------------------------------------------------------------
(* HandleSagaEventUseCase._apply *)

\* The keys _apply reads from the payload; a missing one is a KeyError.
RequiredKeys(type) ==
  CASE type = "QUOTE_APPROVED" -> {"quote_id"}
    [] type \in {"PAYMENT_PREFERENCE_CREATED", "PAYMENT_CONFIRMED"} -> {"payment_id"}
    [] OTHER -> {}

\* Mutant: a confirmed payment requests no execution.
ConfirmOnly(o) == MarkPaymentConfirmed(o)

\* PAYMENT_CONFIRMED is two moves of the aggregate and one returned event.
ConfirmAndRequest(o) ==
  LET confirmed == MarkPaymentConfirmed(o)
  IN  IF confirmed.raises THEN confirmed ELSE RequestExecution(confirmed.order)

\* Mutant: QUOTE_CREATED is not known to the handler.
DispatchMoves(type, o) ==
  CASE type = "QUOTE_APPROVED"             -> MarkQuoteApproved(o)
    [] type = "PAYMENT_PREFERENCE_CREATED" -> MarkPaymentPending(o)
    [] type = "PAYMENT_CONFIRMED"          -> ConfirmAndRequest(o)
    [] type = "EXECUTION_STARTED"          -> MarkExecutionStarted(o)
    [] type = "EXECUTION_COMPLETED"        -> Complete(o)
    [] type \in FAILURE_STATUSES           -> Fail(o, type)
    [] OTHER                               -> Raise(o)

Dispatch(type, o) ==
  CASE type = "QUOTE_CREATED" -> [raises |-> FALSE, order |-> o, event |-> NoEvent]
    [] type = "QUOTE_APPROVED"             -> MarkQuoteApproved(o)
    [] type = "PAYMENT_PREFERENCE_CREATED" -> MarkPaymentPending(o)
    [] type = "PAYMENT_CONFIRMED"          -> ConfirmAndRequest(o)
    [] type = "EXECUTION_STARTED"          -> MarkExecutionStarted(o)
    [] type = "EXECUTION_COMPLETED"        -> Complete(o)
    [] type \in FAILURE_STATUSES           -> Fail(o, type)
    [] OTHER                               -> Raise(o)

Apply(type, keys, o) ==
  IF RequiredKeys(type) \subseteq keys THEN Dispatch(type, o) ELSE Raise(o)

-----------------------------------------------------------------------------
(* What the lifecycle allows, for the properties *)

\* An entry of a history and the entry that may follow it.
Lifecycle ==
  { <<"OPENED", "QUOTE_REQUESTED">>, <<"QUOTE_REQUESTED", "QUOTE_APPROVED">>,
    <<"QUOTE_APPROVED", "PAYMENT_PENDING">>,
    <<"PAYMENT_PENDING", "PAYMENT_CONFIRMED">>,
    <<"PAYMENT_CONFIRMED", "EXECUTION_REQUESTED">>,
    <<"EXECUTION_REQUESTED", "EXECUTION_IN_PROGRESS">>,
    <<"EXECUTION_IN_PROGRESS", "COMPLETED">> }
  \cup (ServiceOrderStatus \ TERMINAL_STATUSES) \X FAILURE_STATUSES

\* The history of an order tells a path of the lifecycle that ends in its status.
IsCoherent(o) ==
  /\ o.history # <<>>
  /\ o.history[1] = "OPENED"
  /\ o.history[Len(o.history)] = o.status
  /\ \A i \in 1 .. Len(o.history) - 1 :
       <<o.history[i], o.history[i + 1]>> \in Lifecycle

\* The status whose entry stands for the event the service announces.
Announces(s) ==
  CASE s = "QUOTE_REQUESTED"       -> "OS_OPENED"
    [] s = "QUOTE_APPROVED"        -> "QUOTE_APPROVED"
    [] s = "PAYMENT_PENDING"       -> "PAYMENT_PENDING"
    [] s = "EXECUTION_REQUESTED"   -> "EXECUTION_REQUESTED"
    [] s = "EXECUTION_IN_PROGRESS" -> "EXECUTION_STARTED"
    [] s = "COMPLETED"             -> "OS_COMPLETED"
    [] s \in FAILURE_STATUSES      -> "OS_COMPENSATION_REQUIRED"
    [] OTHER                       -> NoEvent
=============================================================================
