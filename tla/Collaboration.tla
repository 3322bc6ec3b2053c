---------------------------- MODULE Collaboration ----------------------------
(***************************************************************************)
(* SagaHandling together with the services it orchestrates.  SagaHandling  *)
(* lets Billing and Execution send anything at any time; here each sends   *)
(* a message once, because of something the service published or of its    *)
(* own previous message, in the order of the documented flow               *)
(* (docs/architecture/fase4-final.md).  What the broker does with the      *)
(* messages, and what the service does, is unchanged.                      *)
(***************************************************************************)
EXTENDS SagaGuarantees

VARIABLE sent  \* the messages Billing and Execution have sent

jointVars == <<vars, sent>>

-----------------------------------------------------------------------------
HasSent(o, type) == \E m \in sent : m.order = o /\ m.type = type

\* What makes another service send a message of this type about an order.
Prompted(o, type) ==
  CASE type \in {"QUOTE_CREATED", "QUOTE_FAILED"}  -> HasPublished(o, "OS_OPENED")
    [] type = "QUOTE_APPROVED"                     -> HasSent(o, "QUOTE_CREATED")
    [] type = "PAYMENT_PREFERENCE_CREATED"         -> HasSent(o, "QUOTE_APPROVED")
    [] type \in {"PAYMENT_CONFIRMED", "PAYMENT_FAILED"} ->
         HasSent(o, "PAYMENT_PREFERENCE_CREATED")
    [] type \in {"EXECUTION_QUEUED", "EXECUTION_ENQUEUE_FAILED"} ->
         HasPublished(o, "EXECUTION_REQUESTED")
    [] type = "EXECUTION_STARTED"                  -> HasSent(o, "EXECUTION_QUEUED")
    [] type \in {"EXECUTION_COMPLETED", "EXECUTION_FAILED"} ->
         HasSent(o, "EXECUTION_STARTED")
    [] OTHER                                       -> FALSE

\* A quote, a payment, a queued job and an execution end one way only.
Alternatives ==
  { {"QUOTE_CREATED", "QUOTE_FAILED"}, {"PAYMENT_CONFIRMED", "PAYMENT_FAILED"},
    {"EXECUTION_QUEUED", "EXECUTION_ENQUEUE_FAILED"},
    {"EXECUTION_COMPLETED", "EXECUTION_FAILED"} }

Settled(o, type) ==
  \/ HasSent(o, type)
  \/ \E pair \in Alternatives : type \in pair /\ \E other \in pair : HasSent(o, other)

Reply(m) ==
  /\ Prompted(m.order, m.type)
  /\ ~Settled(m.order, m.type)
  /\ Send(m)
  /\ sent' = sent \cup {m}

\* Everything that happens inside the service and to its processes.
ServiceStep ==
  \/ \E w \in Workers : WorkerStep(w)
  \/ \E t \in Threads : Request(t) \/ UseCaseStep(t)
  \/ Fault

JointInit == Init /\ sent = {}

JointNext == (\E m \in Inputs : Reply(m)) \/ (ServiceStep /\ UNCHANGED sent)

JointSpec == JointInit /\ [][JointNext]_jointVars

\* The service's own fairness, and that its partners and the customers behind
\* them answer in the end, one way or the other.
JointFairness ==
  /\ \A w \in Workers : WF_jointVars(WorkerStep(w) /\ UNCHANGED sent)
  /\ \A t \in Threads : WF_jointVars(UseCaseStep(t) /\ UNCHANGED sent)
  /\ \A o \in Orders : WF_jointVars(\E m \in Inputs : m.order = o /\ Reply(m))

FairJointSpec == JointSpec /\ JointFairness

-----------------------------------------------------------------------------
Undisturbed == faults = 0 /\ requests = 0

\* The stages the service accepts are the stages its partners go through: as long
\* as nothing fails and no administrator interferes, no message of theirs within
\* the contract is discarded, whatever the service's echoes do to the queue.
PeersAreHeard ==
  Undisturbed => \A w \in Workers : At(w, "nack") =>
    IsOwn(job[w].msg) \/ job[w].msg.type \notin INTEGRATION_EVENT_TYPES

\* Nobody waits for everybody: when the service has nothing left to do, an order that
\* has not ended is waiting for a message that a partner may send now.  An announcement
\* the partners depend on is never missing, and no message of theirs was used up.
OrdersCanGoOn ==
  Undisturbed /\ Quiet => \A o \in Orders : HasRow(o) =>
    \/ orders[o].status \in TERMINAL_STATUSES
    \/ \E type \in EventTypes : Prompted(o, type) /\ ~Settled(o, type)

\* An order that was saved reaches a terminal status, unless something fails or
\* an administrator interferes: no stage waits for a message nobody will send.
OrdersEnd ==
  \A o \in Orders : HasRow(o) ~>
    (~Undisturbed \/ orders[o].status \in TERMINAL_STATUSES)

\* Execution is asked to work only on orders Billing reported as paid, so "falha ou
\* recusa do pagamento: PAYMENT_FAILED, sem solicitar execução" holds among partners
\* that keep to the flow, through crashes, redeliveries and echoes.
PaidBeforeExecuted ==
  requests = 0 => \A o \in Orders :
    HasPublished(o, "EXECUTION_REQUESTED") => HasSent(o, "PAYMENT_CONFIRMED")

\* The entry of a history that says what the failure denies.
Denied(failure) ==
  CASE failure = "QUOTE_FAILED"             -> "QUOTE_APPROVED"
    [] failure = "PAYMENT_FAILED"           -> "PAYMENT_CONFIRMED"
    [] failure = "EXECUTION_ENQUEUE_FAILED" -> "EXECUTION_IN_PROGRESS"
    [] failure = "EXECUTION_FAILED"         -> "COMPLETED"

\* fail looks at no stage, yet no order is ended by a late failure: none that is saved
\* as failed had already passed the stage that fails.  Crashes, redeliveries and echoes
\* do not bring one about, as long as no administrator posts events.
NoFailureIsLate ==
  requests = 0 => \A o \in Orders : orders[o].status \in FAILURE_STATUSES =>
    \A i \in DOMAIN orders[o].history :
      orders[o].history[i] # Denied(orders[o].status)

\* Whoever wins a race on its row, the compensation of an order that was saved as
\* failed goes out, unless something fails.
CompensationFollows ==
  \A o \in Orders : (orders[o].status \in FAILURE_STATUSES) ~>
    (HasPublished(o, "OS_COMPENSATION_REQUIRED") \/ faults > 0)
=============================================================================
