----------------------------- MODULE SagaProofs -----------------------------
(***************************************************************************)
(* Theorems about SagaHandling, for any number of orders, workers and      *)
(* threads, any inputs and any bounds.                                     *)
(***************************************************************************)
EXTENDS SagaGuarantees, TLAPS

\* What an actor carries between its calls: one that is about to save, or has
\* saved and is about to publish, holds a coherent copy of one of the service's
\* orders, and one that is about to publish has an event to publish.
JobOK(j) ==
  /\ j.phase \in {"save", "publish"} => /\ j.msg.order \in Orders
                                        /\ j.copy \in Order
                                        /\ IsCoherent(j.copy)
  /\ j.phase = "publish" => j.next # NoEvent

SagaInv ==
  /\ TypeOK
  /\ RowsAreCoherent
  /\ \A a \in Actors : JobOK(job[a])

-----------------------------------------------------------------------------
(* The aggregate *)

\* Appending a status that may follow the last one keeps an order coherent.
LEMMA RecordedCoherent ==
  ASSUME NEW o \in Order, IsCoherent(o),
         NEW s \in ServiceOrderStatus, <<o.status, s>> \in Lifecycle
  PROVE  Recorded(o, s) \in Order /\ IsCoherent(Recorded(o, s))
<1> DEFINE h == o.history
           g == Append(h, s)
<1>1. h \in Seq(ServiceOrderStatus) /\ h # <<>> /\ o.status \in ServiceOrderStatus
  BY DEF Order, IsCoherent
<1>2. g \in Seq(ServiceOrderStatus) /\ Len(g) = Len(h) + 1 /\ g[Len(g)] = s
  BY <1>1
<1>3. \A i \in 1 .. Len(h) : g[i] = h[i]
  BY <1>1
<1>4. Len(h) \in Nat /\ Len(h) >= 1
  BY <1>1
<1>5. Recorded(o, s) = [status |-> s, history |-> g]
  BY DEF Recorded
<1>6. Recorded(o, s) \in Order
  BY <1>2, <1>5 DEF Order
<1>7. \A i \in 1 .. Len(g) - 1 : <<g[i], g[i + 1]>> \in Lifecycle
  <2> TAKE i \in 1 .. Len(g) - 1
  <2>1. CASE i = Len(h)
    BY <2>1, <1>2, <1>3, <1>4 DEF IsCoherent
  <2>2. CASE i # Len(h)
    <3>1. i \in 1 .. Len(h) - 1 /\ i + 1 \in 1 .. Len(h)
      BY <2>2, <1>2, <1>4
    <3>2. QED BY <3>1, <1>3 DEF IsCoherent
  <2>3. QED BY <2>1, <2>2
<1>8. g # <<>> /\ g[1] = "OPENED"
  BY <1>1, <1>2, <1>3, <1>4 DEF IsCoherent
<1>9. QED BY <1>2, <1>5, <1>6, <1>7, <1>8 DEF IsCoherent

\* A call of the aggregate returns an order and, unless it raises, a coherent one.
IsOutcome(r) ==
  /\ r = [raises |-> r.raises, order |-> r.order, event |-> r.event]
  /\ r.raises \in BOOLEAN
  /\ r.order \in Order
  /\ IsCoherent(r.order)
  /\ r.event \in INTEGRATION_EVENT_TYPES \cup {NoEvent}

LEMMA MoveOutcome ==
  ASSUME NEW o \in Order, IsCoherent(o), NEW from, NEW to \in ServiceOrderStatus,
         NEW ev \in INTEGRATION_EVENT_TYPES,
         \A s \in from \cap (ServiceOrderStatus \ TERMINAL_STATUSES) : <<s, to>> \in Lifecycle
  PROVE  /\ IsOutcome(Move(o, from, to, ev))
         /\ ~Move(o, from, to, ev).raises => /\ Move(o, from, to, ev).order.status = to
                                             /\ Move(o, from, to, ev).event = ev
<1>1. CASE o.status \in from \ TERMINAL_STATUSES
  <2>1. <<o.status, to>> \in Lifecycle
    BY <1>1 DEF Order
  <2>2. Recorded(o, to) \in Order /\ IsCoherent(Recorded(o, to)) /\ Recorded(o, to).status = to
    BY <2>1, RecordedCoherent DEF Recorded
  <2>3. QED BY <1>1, <2>2 DEF Move, IsOutcome
<1>2. CASE o.status \notin from \ TERMINAL_STATUSES
  BY <1>2 DEF Move, Raise, IsOutcome
<1>3. QED BY <1>1, <1>2

\* A method that demands one status.
LEMMA StageOutcome ==
  ASSUME NEW o \in Order, IsCoherent(o), NEW from, NEW to \in ServiceOrderStatus,
         NEW ev \in INTEGRATION_EVENT_TYPES, <<from, to>> \in Lifecycle
  PROVE  /\ IsOutcome(Move(o, {from}, to, ev))
         /\ ~Move(o, {from}, to, ev).raises => /\ Move(o, {from}, to, ev).order.status = to
                                               /\ Move(o, {from}, to, ev).event = ev
BY MoveOutcome

\* _apply returns a coherent order whatever the event; unless it raises, the
\* event it returns is the answer of that type, none for QUOTE_CREATED.
LEMMA ApplyOutcome ==
  ASSUME NEW o \in Order, IsCoherent(o), NEW type, NEW keys
  PROVE  LET r == Apply(type, keys, o)
         IN  /\ IsOutcome(r)
             /\ ~r.raises => r.event = Answer(type)
<1>1. IsOutcome(MarkQuoteApproved(o))
      /\ (~MarkQuoteApproved(o).raises => MarkQuoteApproved(o).event = "QUOTE_APPROVED")
  <2>1. "QUOTE_APPROVED" \in ServiceOrderStatus /\ "QUOTE_APPROVED" \in INTEGRATION_EVENT_TYPES
    BY DEF ServiceOrderStatus, INTEGRATION_EVENT_TYPES
  <2>2. <<"QUOTE_REQUESTED", "QUOTE_APPROVED">> \in Lifecycle
    BY DEF Lifecycle
  <2>3. QED BY <2>1, <2>2, StageOutcome DEF MarkQuoteApproved
<1>2. IsOutcome(MarkPaymentPending(o))
      /\ (~MarkPaymentPending(o).raises => MarkPaymentPending(o).event = "PAYMENT_PENDING")
  <2>1. "PAYMENT_PENDING" \in ServiceOrderStatus /\ "PAYMENT_PENDING" \in INTEGRATION_EVENT_TYPES
    BY DEF ServiceOrderStatus, INTEGRATION_EVENT_TYPES
  <2>2. <<"QUOTE_APPROVED", "PAYMENT_PENDING">> \in Lifecycle
    BY DEF Lifecycle
  <2>3. QED BY <2>1, <2>2, StageOutcome DEF MarkPaymentPending
<1>3. IsOutcome(ConfirmAndRequest(o))
      /\ (~ConfirmAndRequest(o).raises => ConfirmAndRequest(o).event = "EXECUTION_REQUESTED")
  <2> DEFINE c == MarkPaymentConfirmed(o)
  <2>1. /\ "PAYMENT_CONFIRMED" \in ServiceOrderStatus /\ "PAYMENT_CONFIRMED" \in INTEGRATION_EVENT_TYPES
        /\ "EXECUTION_REQUESTED" \in ServiceOrderStatus /\ "EXECUTION_REQUESTED" \in INTEGRATION_EVENT_TYPES
    BY DEF ServiceOrderStatus, INTEGRATION_EVENT_TYPES
  <2>2. <<"PAYMENT_PENDING", "PAYMENT_CONFIRMED">> \in Lifecycle
        /\ <<"PAYMENT_CONFIRMED", "EXECUTION_REQUESTED">> \in Lifecycle
    BY DEF Lifecycle
  <2>3. IsOutcome(c)
    BY <2>1, <2>2, StageOutcome DEF MarkPaymentConfirmed
  <2>4. c.order \in Order /\ IsCoherent(c.order)
    BY <2>3 DEF IsOutcome
  <2> HIDE DEF c
  <2>5. ASSUME NEW d \in Order, IsCoherent(d)
        PROVE  IsOutcome(RequestExecution(d))
               /\ (~RequestExecution(d).raises
                     => RequestExecution(d).event = "EXECUTION_REQUESTED")
    BY <2>1, <2>2, <2>5, StageOutcome DEF RequestExecution
  <2>6. ConfirmAndRequest(o) = IF c.raises THEN c ELSE RequestExecution(c.order)
    BY DEF ConfirmAndRequest, c
  <2>7. QED BY <2>3, <2>4, <2>5, <2>6
<1>4. IsOutcome(MarkExecutionStarted(o))
      /\ (~MarkExecutionStarted(o).raises => MarkExecutionStarted(o).event = "EXECUTION_STARTED")
  <2>1. "EXECUTION_IN_PROGRESS" \in ServiceOrderStatus /\ "EXECUTION_STARTED" \in INTEGRATION_EVENT_TYPES
    BY DEF ServiceOrderStatus, INTEGRATION_EVENT_TYPES
  <2>2. <<"EXECUTION_REQUESTED", "EXECUTION_IN_PROGRESS">> \in Lifecycle
    BY DEF Lifecycle
  <2>3. QED BY <2>1, <2>2, StageOutcome DEF MarkExecutionStarted
<1>5. IsOutcome(Complete(o))
      /\ (~Complete(o).raises => Complete(o).event = "OS_COMPLETED")
  <2>1. "COMPLETED" \in ServiceOrderStatus /\ "OS_COMPLETED" \in INTEGRATION_EVENT_TYPES
    BY DEF ServiceOrderStatus, INTEGRATION_EVENT_TYPES
  <2>2. <<"EXECUTION_IN_PROGRESS", "COMPLETED">> \in Lifecycle
    BY DEF Lifecycle
  <2>3. QED BY <2>1, <2>2, StageOutcome DEF Complete
<1>6. ASSUME NEW s \in FAILURE_STATUSES
      PROVE  IsOutcome(Fail(o, s))
             /\ (~Fail(o, s).raises => Fail(o, s).event = "OS_COMPENSATION_REQUIRED")
  <2>1. s \in ServiceOrderStatus /\ "OS_COMPENSATION_REQUIRED" \in INTEGRATION_EVENT_TYPES
    BY DEF FAILURE_STATUSES, ServiceOrderStatus, INTEGRATION_EVENT_TYPES
  <2>2. \A t \in ServiceOrderStatus \cap (ServiceOrderStatus \ TERMINAL_STATUSES) :
          <<t, s>> \in Lifecycle
    BY DEF Lifecycle
  <2>3. QED BY <2>1, <2>2, MoveOutcome DEF Fail
<1>7. IsOutcome(Raise(o)) /\ Raise(o).raises
  BY DEF IsOutcome, Raise
<1>8. IsOutcome([raises |-> FALSE, order |-> o, event |-> NoEvent])
  BY DEF IsOutcome
<1>9. CASE type = "QUOTE_CREATED"
  <2>1. Dispatch(type, o) = [raises |-> FALSE, order |-> o, event |-> NoEvent]
    BY <1>9, Zenon DEF Dispatch, FAILURE_STATUSES
  <2>2. Answer(type) = NoEvent
    BY <1>9, Zenon DEF Answer, FAILURE_STATUSES
  <2>3. QED BY <2>1, <2>2, <1>7, <1>8 DEF Apply
<1>10. CASE type = "QUOTE_APPROVED"
  <2>1. Dispatch(type, o) = MarkQuoteApproved(o) /\ Answer(type) = "QUOTE_APPROVED"
    BY <1>10, Zenon DEF Dispatch, Answer, FAILURE_STATUSES
  <2>2. QED BY <2>1, <1>7, <1>1 DEF Apply
<1>11. CASE type = "PAYMENT_PREFERENCE_CREATED"
  <2>1. Dispatch(type, o) = MarkPaymentPending(o) /\ Answer(type) = "PAYMENT_PENDING"
    BY <1>11, Zenon DEF Dispatch, Answer, FAILURE_STATUSES
  <2>2. QED BY <2>1, <1>7, <1>2 DEF Apply
<1>12. CASE type = "PAYMENT_CONFIRMED"
  <2>1. Dispatch(type, o) = ConfirmAndRequest(o) /\ Answer(type) = "EXECUTION_REQUESTED"
    BY <1>12, Zenon DEF Dispatch, Answer, FAILURE_STATUSES
  <2>2. QED BY <2>1, <1>7, <1>3 DEF Apply
<1>13. CASE type = "EXECUTION_STARTED"
  <2>1. Dispatch(type, o) = MarkExecutionStarted(o) /\ Answer(type) = "EXECUTION_STARTED"
    BY <1>13, Zenon DEF Dispatch, Answer, FAILURE_STATUSES
  <2>2. QED BY <2>1, <1>7, <1>4 DEF Apply
<1>14. CASE type = "EXECUTION_COMPLETED"
  <2>1. Dispatch(type, o) = Complete(o) /\ Answer(type) = "OS_COMPLETED"
    BY <1>14, Zenon DEF Dispatch, Answer, FAILURE_STATUSES
  <2>2. QED BY <2>1, <1>7, <1>5 DEF Apply
<1>15. CASE type \in FAILURE_STATUSES
  <2>1. Dispatch(type, o) = Fail(o, type) /\ Answer(type) = "OS_COMPENSATION_REQUIRED"
    BY <1>15, Zenon DEF Dispatch, Answer, FAILURE_STATUSES
  <2>2. QED BY <2>1, <1>7, <1>6, <1>15 DEF Apply
<1>16. CASE type \notin {"QUOTE_CREATED", "QUOTE_APPROVED", "PAYMENT_PREFERENCE_CREATED",
                        "PAYMENT_CONFIRMED", "EXECUTION_STARTED", "EXECUTION_COMPLETED"}
                       \cup FAILURE_STATUSES
  <2>1. Dispatch(type, o) = Raise(o)
    BY <1>16, Zenon DEF Dispatch, FAILURE_STATUSES
  <2>2. QED BY <2>1, <1>7 DEF Apply
<1>17. QED BY <1>9, <1>10, <1>11, <1>12, <1>13, <1>14, <1>15, <1>16

-----------------------------------------------------------------------------
(* The inductive invariant *)

LEMMA ApiMessageType ==
  ASSUME NEW type \in EventTypes, NEW o \in OrderIds
  PROVE  ApiMessage(type, o) \in Messages
<1>1. <<"api", 0>> \in EventIds
  BY DEF EventIds
<1>2. QED BY <1>1 DEF ApiMessage, Messages

\* What it takes for an actor's state to be sound.
LEMMA BusySound ==
  ASSUME NEW phase \in Phases, NEW m \in Messages, NEW o \in Row,
         NEW ev \in INTEGRATION_EVENT_TYPES \cup {NoEvent},
         phase \in {"save", "publish"} => m.order \in Orders /\ o \in Order /\ IsCoherent(o),
         phase = "publish" => ev # NoEvent
  PROVE  Busy(phase, m, o, ev) \in Job /\ JobOK(Busy(phase, m, o, ev))
BY DEF Busy, Job, JobOK

LEMMA IdleSound == Idle \in Job /\ JobOK(Idle)
<1>1. NoMessage \in Messages
  BY ApiMessageType DEF NoMessage, EventTypes, OrderIds
<1>2. QED BY <1>1, BusySound DEF Idle, Phases, Row

LEMMA InitSaga == Init => SagaInv
<1> SUFFICES ASSUME Init PROVE SagaInv
  OBVIOUS
<1>1. Idle \in Job /\ JobOK(Idle)
  BY IdleSound
<1>2. TypeOK
  BY <1>1 DEF Init, TypeOK, Row
<1>3. RowsAreCoherent
  BY DEF Init, RowsAreCoherent, HasRow
<1>4. \A a \in Actors : JobOK(job[a])
  BY <1>1 DEF Init
<1>5. QED BY <1>2, <1>3, <1>4 DEF SagaInv

\* An actor that becomes something sound leaves the others as sound as they were.
LEMMA BecomeSound ==
  ASSUME SagaInv, NEW a \in Actors, NEW j \in Job, JobOK(j), Become(a, j)
  PROVE  job' \in [Actors -> Job] /\ \A b \in Actors : JobOK(job'[b])
<1>1. Idle \in Job /\ JobOK(Idle)
  BY IdleSound
<1> DEFINE k == IF j.phase = "idle" THEN Idle ELSE j
<1>2. k \in Job /\ JobOK(k)
  BY <1>1
<1>3. job' = [job EXCEPT ![a] = k]
  BY DEF Become
<1>4. job \in [Actors -> Job] /\ \A b \in Actors : JobOK(job[b])
  BY DEF SagaInv, TypeOK
<1> HIDE DEF k
<1>5. job' \in [Actors -> Job]
  BY <1>2, <1>3, <1>4
<1>6. \A b \in Actors : job'[b] = IF b = a THEN k ELSE job[b]
  BY <1>3, <1>4
<1>7. QED BY <1>2, <1>4, <1>5, <1>6

\* Going to a phase that promises no more than the present one.
LEMMA GotoSound ==
  ASSUME SagaInv, NEW a \in Actors, NEW phase \in Phases, Goto(a, phase),
         phase # "save",
         phase = "publish" => At(a, "save") /\ job[a].next # NoEvent
  PROVE  job' \in [Actors -> Job] /\ \A b \in Actors : JobOK(job'[b])
<1> DEFINE j == Busy(phase, job[a].msg, job[a].copy, job[a].next)
<1>1. job[a] \in Job /\ JobOK(job[a])
  BY DEF SagaInv, TypeOK
<1>2. j \in Job /\ JobOK(j)
  BY <1>1, BusySound DEF Job, JobOK, At
<1>3. Become(a, j)
  BY DEF Goto
<1> HIDE DEF j
<1>4. QED BY <1>2, <1>3, BecomeSound

\* What the other variables contribute to the invariant.
StoreOK ==
  /\ orders \in [Orders -> Row]
  /\ RowsAreCoherent
  /\ processed \subseteq EventIds

BrokerOK ==
  /\ queue \in Seq(Messages)
  /\ published \in Seq({m \in Messages : m.type \in INTEGRATION_EVENT_TYPES})
  /\ unacked \in [Workers -> BOOLEAN]

JobsOK == job \in [Actors -> Job] /\ \A b \in Actors : JobOK(job[b])

BoundsOK == {sends, requests, faults} \subseteq Nat

LEMMA SagaInvParts == SagaInv <=> StoreOK /\ BrokerOK /\ JobsOK /\ BoundsOK
BY DEF SagaInv, TypeOK, StoreOK, BrokerOK, JobsOK, BoundsOK

LEMMA SagaInvPartsNext == SagaInv' <=> StoreOK' /\ BrokerOK' /\ JobsOK' /\ BoundsOK'
BY DEF SagaInv, TypeOK, StoreOK, BrokerOK, JobsOK, BoundsOK

LEMMA StoreKept == ASSUME StoreOK, UNCHANGED tables PROVE StoreOK'
BY DEF StoreOK, RowsAreCoherent, HasRow, tables

LEMMA BrokerKept == ASSUME BrokerOK, UNCHANGED broker PROVE BrokerOK'
BY DEF BrokerOK, broker

LEMMA BoundsKept == ASSUME BoundsOK, UNCHANGED bounds PROVE BoundsOK'
BY DEF BoundsOK, bounds

-----------------------------------------------------------------------------
(* Each action keeps it *)

LEMMA StepSend == ASSUME SagaInv, NEW m \in Inputs, Send(m) PROVE SagaInv'
<1>1. StoreOK /\ BrokerOK /\ JobsOK /\ BoundsOK
  BY SagaInvParts
<1>2. BrokerOK'
  BY <1>1, SagaConstants DEF Send, BrokerOK
<1>3. BoundsOK' /\ JobsOK'
  BY <1>1 DEF Send, BoundsOK, JobsOK
<1>4. QED BY <1>1, <1>2, <1>3, StoreKept, SagaInvPartsNext DEF Send

LEMMA StepDeliver == ASSUME SagaInv, NEW w \in Workers, Deliver(w) PROVE SagaInv'
<1>1. StoreOK /\ BrokerOK /\ JobsOK /\ BoundsOK /\ w \in Actors
  BY SagaInvParts DEF Actors
<1>2. Head(queue) \in Messages /\ Tail(queue) \in Seq(Messages)
  BY <1>1 DEF Deliver, BrokerOK
<1>3. BrokerOK'
  BY <1>1, <1>2 DEF Deliver, BrokerOK
<1>4. PICK phase \in {"check", "nack"} : Become(w, Busy(phase, Head(queue), NoRow, NoEvent))
  BY DEF Deliver
<1>5. Busy(phase, Head(queue), NoRow, NoEvent) \in Job
      /\ JobOK(Busy(phase, Head(queue), NoRow, NoEvent))
  BY <1>2, <1>4, BusySound DEF Phases, Row
<1>6. JobsOK'
  BY <1>1, <1>4, <1>5, BecomeSound DEF JobsOK
<1>7. UNCHANGED tables /\ UNCHANGED bounds
  BY DEF Deliver
<1>8. QED BY <1>1, <1>3, <1>6, <1>7, StoreKept, BoundsKept, SagaInvPartsNext

LEMMA StepGoto ==
  ASSUME SagaInv, NEW a \in Actors, NEW phase \in Phases, Goto(a, phase),
         phase \notin {"save", "publish"}
  PROVE  JobsOK'
BY GotoSound DEF JobsOK

LEMMA StepSettle ==
  ASSUME SagaInv, NEW w \in Workers, NEW phase, Settle(w, phase) PROVE SagaInv'
<1>1. StoreOK /\ BrokerOK /\ JobsOK /\ BoundsOK /\ w \in Actors
  BY SagaInvParts DEF Actors
<1>2. BrokerOK'
  BY <1>1 DEF Settle, BrokerOK
<1>3. Goto(w, "idle") /\ UNCHANGED tables /\ UNCHANGED bounds
  BY DEF Settle
<1>4. JobsOK'
  BY <1>1, <1>3, StepGoto DEF Phases
<1>5. QED BY <1>1, <1>2, <1>3, <1>4, StoreKept, BoundsKept, SagaInvPartsNext

LEMMA StepLook ==
  ASSUME SagaInv, NEW w \in Workers, IsProcessed(w) \/ MarkProcessed(w) PROVE SagaInv'
<1>1. StoreOK /\ BrokerOK /\ JobsOK /\ BoundsOK /\ w \in Actors
  BY SagaInvParts DEF Actors
<1>2. PICK phase \in {"ack", "get", "insert"} : Goto(w, phase)
  BY DEF IsProcessed, MarkProcessed
<1>3. JobsOK'
  BY <1>1, <1>2, StepGoto DEF Phases
<1>4. UNCHANGED tables /\ UNCHANGED broker /\ UNCHANGED bounds
  BY DEF IsProcessed, MarkProcessed
<1>5. QED BY <1>1, <1>3, <1>4, StoreKept, BrokerKept, BoundsKept, SagaInvPartsNext

LEMMA StepInsert == ASSUME SagaInv, NEW w \in Workers, InsertProcessed(w) PROVE SagaInv'
<1>1. StoreOK /\ BrokerOK /\ JobsOK /\ BoundsOK /\ w \in Actors
  BY SagaInvParts DEF Actors
<1>2. PICK phase \in {"ack", "nack"} : Goto(w, phase)
  BY DEF InsertProcessed
<1>3. JobsOK'
  BY <1>1, <1>2, StepGoto DEF Phases
<1>4. job[w].msg.id \in EventIds
  BY <1>1 DEF JobsOK, Job, Messages
<1>5. StoreOK'
  BY <1>1, <1>4 DEF InsertProcessed, StoreOK, RowsAreCoherent, HasRow
<1>6. UNCHANGED broker /\ UNCHANGED bounds
  BY DEF InsertProcessed
<1>7. QED BY <1>1, <1>3, <1>5, <1>6, BrokerKept, BoundsKept, SagaInvPartsNext

LEMMA StepLoad == ASSUME SagaInv, NEW a \in Actors, LoadAndApply(a) PROVE SagaInv'
<1> DEFINE m == job[a].msg
           r == IF HasRow(m.order) THEN Apply(m.type, m.keys, orders[m.order]) ELSE Raise(NoRow)
           phase == IF r.raises THEN Failed(a) ELSE "save"
<1>1. StoreOK /\ BrokerOK /\ JobsOK /\ BoundsOK
  BY SagaInvParts
<1>2. m \in Messages
  BY <1>1 DEF JobsOK, Job
<1>3. /\ r.order \in Row
      /\ r.event \in INTEGRATION_EVENT_TYPES \cup {NoEvent}
      /\ ~r.raises => m.order \in Orders /\ r.order \in Order /\ IsCoherent(r.order)
  <2>1. CASE HasRow(m.order)
    <3>1. m.order \in Orders /\ orders[m.order] \in Order /\ IsCoherent(orders[m.order])
      BY <1>1, <2>1 DEF StoreOK, RowsAreCoherent, HasRow, Row
    <3>2. IsOutcome(Apply(m.type, m.keys, orders[m.order]))
      BY <3>1, ApplyOutcome
    <3>3. QED BY <2>1, <3>1, <3>2 DEF IsOutcome, Row
  <2>2. CASE ~HasRow(m.order)
    BY <2>2 DEF Raise, Row
  <2>3. QED BY <2>1, <2>2
<1>4. Become(a, Busy(phase, m, r.order, r.event))
  BY DEF LoadAndApply
<1>5. UNCHANGED tables /\ UNCHANGED broker /\ UNCHANGED bounds
  BY DEF LoadAndApply
<1> HIDE DEF m, r
<1>6. phase \in {"nack", "idle", "save"} /\ (phase = "save" => ~r.raises)
  BY DEF Failed
<1> HIDE DEF phase
<1>7. Busy(phase, m, r.order, r.event) \in Job /\ JobOK(Busy(phase, m, r.order, r.event))
  BY <1>2, <1>3, <1>6, BusySound DEF Phases
<1>8. JobsOK'
  BY <1>4, <1>7, BecomeSound DEF JobsOK
<1>9. QED BY <1>1, <1>5, <1>8, StoreKept, BrokerKept, BoundsKept, SagaInvPartsNext

LEMMA StepSave == ASSUME SagaInv, NEW a \in Actors, Save(a) PROVE SagaInv'
<1>1. StoreOK /\ BrokerOK /\ JobsOK /\ BoundsOK
  BY SagaInvParts
<1>2. job[a].msg.order \in Orders /\ job[a].copy \in Order /\ IsCoherent(job[a].copy)
  BY <1>1 DEF JobsOK, JobOK, Save, At
<1>3. StoreOK'
  BY <1>1, <1>2 DEF Save, StoreOK, RowsAreCoherent, HasRow, Row
<1>4. PICK phase \in {"mark", "idle", "publish"} :
        Goto(a, phase) /\ (phase = "publish" => job[a].next # NoEvent)
  BY DEF Save, Handled
<1>5. JobsOK'
  BY <1>4, GotoSound DEF JobsOK, Save, Phases
<1>6. UNCHANGED broker /\ UNCHANGED bounds
  BY DEF Save
<1>7. QED BY <1>1, <1>3, <1>5, <1>6, BrokerKept, BoundsKept, SagaInvPartsNext

LEMMA StepPublish == ASSUME SagaInv, NEW a \in Actors, Publish(a) PROVE SagaInv'
<1> DEFINE m == Outgoing(job[a])
<1>1. StoreOK /\ BrokerOK /\ JobsOK /\ BoundsOK
  BY SagaInvParts
<1>2. job[a].next \in INTEGRATION_EVENT_TYPES /\ job[a].msg.order \in OrderIds
  BY <1>1 DEF JobsOK, JobOK, Job, Messages, Publish, At
<1>3. Len(published) + 1 \in Nat
  BY <1>1 DEF BrokerOK
<1>4. <<"os", Len(published) + 1>> \in EventIds
  BY <1>3 DEF EventIds
<1>5. OwnKeys(job[a].next) \in SUBSET {"quote_id", "payment_id"}
  BY DEF OwnKeys
<1>6. m \in Messages /\ m.type \in INTEGRATION_EVENT_TYPES
  BY <1>2, <1>4, <1>5 DEF Outgoing, Messages, EventTypes
<1> HIDE DEF m
<1>7. BrokerOK'
  BY <1>1, <1>6 DEF Publish, BrokerOK, m
<1>8. PICK phase \in {"mark", "idle"} : Goto(a, phase)
  BY DEF Publish, Handled
<1>9. JobsOK'
  BY <1>8, StepGoto DEF Phases
<1>10. UNCHANGED tables /\ UNCHANGED bounds
  BY DEF Publish
<1>11. QED BY <1>1, <1>7, <1>9, <1>10, StoreKept, BoundsKept, SagaInvPartsNext

\* What open followed by request_quote makes of a new order.
LEMMA OpeningOutcome ==
  /\ RequestQuote(Opened) = [raises |-> FALSE, order |-> Recorded(Opened, "QUOTE_REQUESTED"),
                             event |-> "OS_OPENED"]
  /\ Recorded(Opened, "QUOTE_REQUESTED") \in Order
  /\ IsCoherent(Recorded(Opened, "QUOTE_REQUESTED"))
<1>1. Opened.status = "OPENED" /\ Opened.history = <<"OPENED">>
  BY DEF Opened
<1>2. "OPENED" \in ServiceOrderStatus \ TERMINAL_STATUSES /\ "QUOTE_REQUESTED" \in ServiceOrderStatus
  BY DEF ServiceOrderStatus, TERMINAL_STATUSES, FAILURE_STATUSES
<1>3. Opened \in Order
  BY <1>2 DEF Opened, Order
<1>4. IsCoherent(Opened)
  BY <1>1 DEF IsCoherent
<1>5. <<"OPENED", "QUOTE_REQUESTED">> \in Lifecycle
  BY DEF Lifecycle
<1>6. Recorded(Opened, "QUOTE_REQUESTED") \in Order
      /\ IsCoherent(Recorded(Opened, "QUOTE_REQUESTED"))
  BY <1>1, <1>2, <1>3, <1>4, <1>5, RecordedCoherent
<1>7. QED BY <1>1, <1>2, <1>6 DEF RequestQuote, Move

LEMMA StepOpen ==
  ASSUME SagaInv, NEW t \in Threads, NEW o \in Orders, Open(t, o) PROVE SagaInv'
<1> DEFINE new == Recorded(Opened, "QUOTE_REQUESTED")
<1>1. StoreOK /\ BrokerOK /\ JobsOK /\ BoundsOK /\ t \in Actors
  BY SagaInvParts DEF Actors
<1>2. new \in Order
  BY OpeningOutcome
<1>3. IsCoherent(new)
  BY OpeningOutcome
<1>4. Become(t, Busy("save", ApiMessage(NoEvent, o), new, "OS_OPENED"))
  BY OpeningOutcome DEF Open
<1>5. UNCHANGED tables /\ UNCHANGED broker /\ UNCHANGED bounds
  BY DEF Open
<1>6. ApiMessage(NoEvent, o) \in Messages /\ ApiMessage(NoEvent, o).order = o
  BY ApiMessageType DEF EventTypes, OrderIds, ApiMessage
<1> HIDE DEF new
<1>7. Busy("save", ApiMessage(NoEvent, o), new, "OS_OPENED") \in Job
      /\ JobOK(Busy("save", ApiMessage(NoEvent, o), new, "OS_OPENED"))
  BY <1>2, <1>3, <1>6, BusySound DEF Phases, Row, INTEGRATION_EVENT_TYPES
<1>8. JobsOK'
  BY <1>1, <1>4, <1>7, BecomeSound DEF JobsOK
<1>9. QED BY <1>1, <1>5, <1>8, StoreKept, BrokerKept, BoundsKept, SagaInvPartsNext

LEMMA StepPost ==
  ASSUME SagaInv, NEW t \in Threads, NEW type \in AdminTypes, NEW o \in OrderIds,
         PostEvent(t, type, o)
  PROVE  SagaInv'
<1>1. StoreOK /\ BrokerOK /\ JobsOK /\ BoundsOK /\ t \in Actors
  BY SagaInvParts DEF Actors
<1>2. ApiMessage(type, o) \in Messages
  BY ApiMessageType, SagaConstants
<1>3. Busy("get", ApiMessage(type, o), NoRow, NoEvent) \in Job
      /\ JobOK(Busy("get", ApiMessage(type, o), NoRow, NoEvent))
  BY <1>2, BusySound DEF Phases, Row
<1>4. JobsOK'
  BY <1>1, <1>3, BecomeSound DEF JobsOK, PostEvent
<1>5. UNCHANGED tables /\ UNCHANGED broker
  BY DEF PostEvent
<1>6. BoundsOK'
  BY <1>1 DEF PostEvent, BoundsOK
<1>7. QED BY <1>1, <1>4, <1>5, <1>6, StoreKept, BrokerKept, SagaInvPartsNext

LEMMA StepRequeue ==
  ASSUME SagaInv, NEW w \in Workers, Requeue(w), UNCHANGED published
  PROVE  BrokerOK'
<1>1. BrokerOK /\ job[w].msg \in Messages
  BY SagaInvParts DEF JobsOK, Job, Actors
<1>2. <<job[w].msg>> \o queue \in Seq(Messages)
  BY <1>1 DEF BrokerOK
<1>3. QED BY <1>1, <1>2 DEF Requeue, BrokerOK

LEMMA StepFault == ASSUME SagaInv, Fault PROVE SagaInv'
<1>1. StoreOK /\ BrokerOK /\ JobsOK /\ BoundsOK
  BY SagaInvParts
<1>2. UNCHANGED tables /\ Fails
  BY DEF Fault, Crash, CallFails, ConnectionLost, BrokerRestart
<1>3. BoundsOK'
  BY <1>1, <1>2 DEF Fails, BoundsOK
<1>4. BrokerOK' /\ JobsOK'
  <2>1. ASSUME NEW a \in Actors, Crash(a) PROVE BrokerOK' /\ JobsOK'
    <3>1. JobsOK'
      BY <2>1, StepGoto DEF Crash, Phases
    <3>2. CASE a \in Workers
      BY <2>1, <3>1, <3>2, StepRequeue DEF Crash
    <3>3. CASE a \notin Workers
      BY <1>1, <2>1, <3>1, <3>3 DEF Crash, BrokerOK
    <3>4. QED BY <3>2, <3>3
  <2>2. ASSUME NEW a \in Actors, CallFails(a) PROVE BrokerOK' /\ JobsOK'
    <3>1. PICK phase \in {"nack", "idle"} : Goto(a, phase)
      BY <2>2 DEF CallFails, Failed
    <3>2. JobsOK'
      BY <3>1, StepGoto DEF Phases
    <3>3. QED BY <1>1, <2>2, <3>2, BrokerKept DEF CallFails
  <2>3. ASSUME NEW w \in Workers, ConnectionLost(w) PROVE BrokerOK' /\ JobsOK'
    BY <1>1, <2>3, StepRequeue DEF ConnectionLost, JobsOK
  <2>4. CASE BrokerRestart
    BY <1>1, <2>4 DEF BrokerRestart, BrokerOK, JobsOK
  <2>5. QED BY <2>1, <2>2, <2>3, <2>4 DEF Fault
<1>5. QED BY <1>1, <1>2, <1>3, <1>4, StoreKept, SagaInvPartsNext

LEMMA StepSaga == SagaInv /\ [Next]_vars => SagaInv'
<1> SUFFICES ASSUME SagaInv, [Next]_vars PROVE SagaInv'
  OBVIOUS
<1>1. ASSUME NEW m \in Inputs, Send(m) PROVE SagaInv'
  BY <1>1, StepSend
<1>2. ASSUME NEW a \in Actors, UseCaseStep(a) PROVE SagaInv'
  BY <1>2, StepLoad, StepSave, StepPublish DEF UseCaseStep
<1>3. ASSUME NEW w \in Workers, WorkerStep(w) PROVE SagaInv'
  <2>1. w \in Actors
    BY DEF Actors
  <2>2. QED BY <1>2, <1>3, <2>1, StepDeliver, StepLook, StepInsert, StepSettle
            DEF WorkerStep, Ack, Nack
<1>4. ASSUME NEW t \in Threads, Request(t) PROVE SagaInv'
  BY <1>4, StepOpen, StepPost DEF Request
<1>5. CASE Fault
  BY <1>5, StepFault
<1>6. CASE UNCHANGED vars
  BY <1>6, SagaInvParts, SagaInvPartsNext, StoreKept, BrokerKept, BoundsKept DEF vars, JobsOK
<1>7. QED BY <1>1, <1>2, <1>3, <1>4, <1>5, <1>6 DEF Next, Actors

LEMMA SagaInvariant == Spec => []SagaInv
BY InitSaga, StepSaga, PTL DEF Spec

\* Every reachable state of the service is well typed: tables, queue, the events
\* published (all of the contract) and what each actor holds.
THEOREM TypeCorrect == Spec => []TypeOK
<1>1. SagaInv => TypeOK
  BY DEF SagaInv
<1>2. QED BY <1>1, SagaInvariant, PTL

\* However many workers and administrators overwrite each other's rows, crash and
\* are redelivered to, a saved history is a path of the saga that ends in the
\* saved status.
THEOREM SavedHistoryIsAPath == Spec => []RowsAreCoherent
<1>1. SagaInv => RowsAreCoherent
  BY DEF SagaInv
<1>2. QED BY <1>1, SagaInvariant, PTL

-----------------------------------------------------------------------------
(* Acknowledged, recorded, answered *)

\* What only a message's producer decides: it came from another service, or the
\* service reads back its own.
Received(m) == m \in Inputs \/ IsOwn(m)

AnsweredIn(pub, m) ==
  \/ Answer(m.type) = NoEvent
  \/ \E i \in DOMAIN pub : pub[i].order = m.order /\ pub[i].type = Answer(m.type)

\* A worker's promises at each phase, given what is published and recorded.
WorkerOK(j, pub, done) ==
  /\ j.phase # "idle" => Received(j.msg)
  /\ j.phase \in {"save", "publish"} => j.next = Answer(j.msg.type)
  /\ j.phase \in {"mark", "insert"} => AnsweredIn(pub, j.msg)
  /\ j.phase = "ack" => j.msg.id \in done

QueueOK == queue \in Seq({m \in Messages : Received(m)})

WorkersOK == \A w \in Workers : WorkerOK(job[w], published, processed)

RecordedOK == \A m \in Inputs : m.id \in processed => AnsweredIn(published, m)

AnswerInv == QueueOK /\ WorkersOK /\ RecordedOK

LEMMA InitAnswer == Init => AnswerInv
<1> SUFFICES ASSUME Init PROVE AnswerInv
  OBVIOUS
<1>1. Idle.phase = "idle"
  BY DEF Idle, Busy
<1>2. \A w \in Workers : job[w] = Idle
  BY DEF Init, Actors
<1>3. WorkersOK
  BY <1>1, <1>2 DEF WorkersOK, WorkerOK
<1>4. QED BY <1>3 DEF Init, AnswerInv, QueueOK, RecordedOK

\* Nothing published or recorded is taken back.
LEMMA OnlyGrows ==
  ASSUME SagaInv, [Next]_vars
  PROVE  /\ processed \subseteq processed'
         /\ \A m : AnsweredIn(published, m) => AnsweredIn(published', m)
<1>1. published \in Seq(Messages)
  BY DEF SagaInv, TypeOK
<1>2. processed \subseteq processed' /\ (published' = published \/ \E x \in Messages : published' = Append(published, x))
  <2>1. ASSUME NEW a \in Actors, Publish(a)
        PROVE  published' = Append(published, Outgoing(job[a])) /\ UNCHANGED processed
    BY <2>1 DEF Publish, tables
  <2>2. ASSUME NEW a \in Actors, UseCaseStep(a), ~Publish(a) PROVE UNCHANGED <<processed, published>>
    BY <2>2 DEF UseCaseStep, LoadAndApply, Save, tables, broker
  <2>3. ASSUME NEW w \in Workers, WorkerStep(w), ~UseCaseStep(w)
        PROVE  processed \subseteq processed' /\ UNCHANGED published
    BY <2>3 DEF WorkerStep, Deliver, IsProcessed, MarkProcessed, InsertProcessed, Ack, Nack,
                Settle, tables, broker
  <2>4. ASSUME NEW t \in Threads, Request(t) PROVE UNCHANGED <<processed, published>>
    BY <2>4 DEF Request, Open, PostEvent, tables, broker
  <2>5. CASE Fault
    BY <2>5 DEF Fault, Crash, CallFails, ConnectionLost, BrokerRestart, tables, broker
  <2>6. ASSUME NEW m \in Inputs, Send(m) PROVE UNCHANGED <<processed, published>>
    BY <2>6 DEF Send, tables
  <2>7. ASSUME NEW a \in Actors, Publish(a) PROVE Outgoing(job[a]) \in Messages
    <3>1. SagaInv'
      BY StepSaga
    <3>2. published'[Len(published')] = Outgoing(job[a]) /\ Len(published') \in 1 .. Len(published')
      BY <1>1, <2>1, <2>7
    <3>3. published' \in Seq(Messages)
      BY <3>1 DEF SagaInv, TypeOK
    <3>4. QED BY <3>2, <3>3
  <2>8. CASE UNCHANGED vars
    BY <2>8 DEF vars, tables, broker
  <2>9. QED BY <2>1, <2>2, <2>3, <2>4, <2>5, <2>6, <2>7, <2>8 DEF Next, Actors
<1>3. DOMAIN published \subseteq DOMAIN published'
      /\ \A i \in DOMAIN published : published'[i] = published[i]
  BY <1>1, <1>2
<1>4. QED BY <1>2, <1>3 DEF AnsweredIn

LEMMA WorkersKept ==
  ASSUME SagaInv, AnswerInv, [Next]_vars, NEW a \in Actors, NEW j, Become(a, j),
         a \in Workers => WorkerOK(j, published', processed')
  PROVE  WorkersOK'
<1> SUFFICES ASSUME NEW w \in Workers PROVE WorkerOK(job'[w], published', processed')
  BY DEF WorkersOK
<1>1. WorkerOK(Idle, published', processed')
  BY DEF WorkerOK, Idle, Busy
<1>2. WorkerOK(job[w], published', processed')
  BY OnlyGrows DEF AnswerInv, WorkersOK, WorkerOK
<1>3. job \in [Actors -> Job] /\ w \in Actors
  BY DEF SagaInv, TypeOK, Actors
<1>4. job'[w] = IF w = a THEN (IF j.phase = "idle" THEN Idle ELSE j) ELSE job[w]
  BY <1>3 DEF Become
<1>5. QED BY <1>1, <1>2, <1>4

LEMMA WorkersIdle ==
  ASSUME SagaInv, AnswerInv, [Next]_vars, UNCHANGED job
  PROVE  WorkersOK'
BY OnlyGrows DEF AnswerInv, WorkersOK, WorkerOK

LEMMA RecordedKept ==
  ASSUME SagaInv, AnswerInv, [Next]_vars, UNCHANGED processed
  PROVE  RecordedOK'
BY OnlyGrows DEF AnswerInv, RecordedOK

\* The state an actor leaves: what it was given, and what it promised.
LEMMA GotoAnswer ==
  ASSUME SagaInv, AnswerInv, [Next]_vars, NEW a \in Actors, NEW phase, Goto(a, phase),
         job[a].phase # "idle" \/ phase = "idle",
         phase \in {"save", "publish"} => At(a, "save"),
         a \in Workers /\ phase \in {"mark", "insert"} => AnsweredIn(published', job[a].msg),
         a \in Workers /\ phase = "ack" => job[a].msg.id \in processed'
  PROVE  WorkersOK'
<1> DEFINE j == Busy(phase, job[a].msg, job[a].copy, job[a].next)
<1>1. j.phase = phase /\ j.msg = job[a].msg /\ j.next = job[a].next
  BY DEF Busy
<1>2. a \in Workers => WorkerOK(job[a], published, processed)
  BY DEF AnswerInv, WorkersOK
<1>3. a \in Workers => WorkerOK(j, published', processed')
  BY <1>1, <1>2 DEF WorkerOK, At
<1>4. Become(a, j)
  BY DEF Goto
<1> HIDE DEF j
<1>5. QED BY <1>3, <1>4, WorkersKept

LEMMA AnswerSend ==
  ASSUME SagaInv, AnswerInv, [Next]_vars, NEW m \in Inputs, Send(m) PROVE AnswerInv'
<1>1. QueueOK'
  BY SagaConstants DEF AnswerInv, QueueOK, Send, Received
<1>2. UNCHANGED <<job, processed>>
  BY DEF Send, tables
<1>3. QED BY <1>1, <1>2, WorkersIdle, RecordedKept DEF AnswerInv

LEMMA AnswerDeliver ==
  ASSUME SagaInv, AnswerInv, [Next]_vars, NEW w \in Workers, Deliver(w) PROVE AnswerInv'
<1>1. Received(Head(queue)) /\ QueueOK'
  BY DEF AnswerInv, QueueOK, Deliver
<1>2. PICK phase \in {"check", "nack"} : Become(w, Busy(phase, Head(queue), NoRow, NoEvent))
  BY DEF Deliver
<1>3. WorkerOK(Busy(phase, Head(queue), NoRow, NoEvent), published', processed')
  BY <1>1, <1>2 DEF WorkerOK, Busy
<1>4. UNCHANGED processed
  BY DEF Deliver, tables
<1>5. QED BY <1>1, <1>2, <1>3, <1>4, WorkersKept, RecordedKept DEF AnswerInv, Actors

LEMMA AnswerSettle ==
  ASSUME SagaInv, AnswerInv, [Next]_vars, NEW w \in Workers, NEW phase, Settle(w, phase)
  PROVE  AnswerInv'
<1>1. QueueOK' /\ UNCHANGED processed
  BY DEF AnswerInv, QueueOK, Settle, tables
<1>2. WorkersOK'
  BY GotoAnswer DEF Settle, Actors
<1>3. QED BY <1>1, <1>2, RecordedKept DEF AnswerInv

LEMMA AnswerLook ==
  ASSUME SagaInv, AnswerInv, [Next]_vars, NEW w \in Workers, IsProcessed(w) \/ MarkProcessed(w)
  PROVE  AnswerInv'
<1>1. QueueOK' /\ UNCHANGED <<processed, published>>
  BY DEF AnswerInv, QueueOK, IsProcessed, MarkProcessed, tables, broker
<1>2. WorkerOK(job[w], published, processed) /\ w \in Actors
  BY DEF AnswerInv, WorkersOK, Actors
<1>3. PICK phase : /\ Goto(w, phase)
                   /\ phase \in {"ack", "get", "insert"}
                   /\ phase = "ack" => job[w].msg.id \in processed
                   /\ phase = "insert" => At(w, "mark")
                   /\ job[w].phase # "idle"
  BY DEF IsProcessed, MarkProcessed, At
<1>4. phase = "insert" => AnsweredIn(published, job[w].msg)
  BY <1>2, <1>3 DEF WorkerOK, At
<1>5. WorkersOK'
  BY <1>1, <1>2, <1>3, <1>4, GotoAnswer
<1>6. QED BY <1>1, <1>5, RecordedKept DEF AnswerInv

LEMMA AnswerInsert ==
  ASSUME SagaInv, AnswerInv, [Next]_vars, NEW w \in Workers, InsertProcessed(w)
  PROVE  AnswerInv'
<1> DEFINE m == job[w].msg
<1>1. QueueOK' /\ UNCHANGED published /\ processed' = processed \cup {m.id}
  BY DEF AnswerInv, QueueOK, InsertProcessed, broker
<1>2. WorkerOK(job[w], published, processed) /\ w \in Actors /\ At(w, "insert")
  BY DEF AnswerInv, WorkersOK, Actors, InsertProcessed
<1>3. Received(m) /\ AnsweredIn(published, m)
  BY <1>2 DEF WorkerOK, At
<1>4. PICK phase \in {"nack", "ack"} : Goto(w, phase)
  BY DEF InsertProcessed
<1>5. WorkersOK'
  BY <1>1, <1>2, <1>4, GotoAnswer DEF At
<1>6. RecordedOK'
  <2> SUFFICES ASSUME NEW n \in Inputs, n.id \in processed'
               PROVE  AnsweredIn(published, n)
    BY <1>1 DEF RecordedOK
  <2>1. CASE n.id \in processed
    BY <2>1 DEF AnswerInv, RecordedOK
  <2>2. CASE n.id = m.id
    <3>1. ~IsOwn(m)
      BY <2>2, SagaConstants DEF IsOwn
    <3>2. m = n
      BY <1>3, <2>2, <3>1, SagaConstants DEF Received
    <3>3. QED BY <1>3, <3>2
  <2>3. QED BY <1>1, <2>1, <2>2
<1>7. QED BY <1>1, <1>5, <1>6 DEF AnswerInv

LEMMA AnswerLoad ==
  ASSUME SagaInv, AnswerInv, [Next]_vars, NEW a \in Actors, LoadAndApply(a)
  PROVE  AnswerInv'
<1> DEFINE m == job[a].msg
           r == IF HasRow(m.order) THEN Apply(m.type, m.keys, orders[m.order]) ELSE Raise(NoRow)
           phase == IF r.raises THEN Failed(a) ELSE "save"
           j == Busy(phase, m, r.order, r.event)
<1>1. QueueOK' /\ UNCHANGED processed
  BY DEF AnswerInv, QueueOK, LoadAndApply, tables, broker
<1>2. ~r.raises => r.event = Answer(m.type)
  <2>1. CASE HasRow(m.order)
    <3>1. orders[m.order] \in Order /\ IsCoherent(orders[m.order])
      BY <2>1 DEF SagaInv, TypeOK, RowsAreCoherent, HasRow, Row
    <3>2. QED BY <2>1, <3>1, ApplyOutcome
  <2>2. CASE ~HasRow(m.order)
    BY <2>2 DEF Raise
  <2>3. QED BY <2>1, <2>2
<1>3. Become(a, j) /\ At(a, "get")
  BY DEF LoadAndApply
<1>4. phase \in {"nack", "idle", "save"} /\ (phase = "save" => ~r.raises)
  BY DEF Failed
<1>5. a \in Workers => Received(m)
  BY <1>3 DEF AnswerInv, WorkersOK, WorkerOK, At
<1>6. j.phase = phase /\ j.msg = m /\ j.next = r.event
  BY DEF Busy
<1> HIDE DEF j, phase, r, m
<1>7. a \in Workers => WorkerOK(j, published', processed')
  BY <1>2, <1>4, <1>5, <1>6 DEF WorkerOK
<1>8. WorkersOK'
  BY <1>3, <1>7, WorkersKept
<1>9. QED BY <1>1, <1>8, RecordedKept DEF AnswerInv

LEMMA AnswerSave ==
  ASSUME SagaInv, AnswerInv, [Next]_vars, NEW a \in Actors, Save(a) PROVE AnswerInv'
<1>1. QueueOK' /\ UNCHANGED processed
  BY DEF AnswerInv, QueueOK, Save, broker
<1>2. At(a, "save") /\ (a \in Workers => job[a].next = Answer(job[a].msg.type))
  BY DEF Save, AnswerInv, WorkersOK, WorkerOK, At
<1>3. PICK phase \in {"mark", "idle", "publish"} :
        Goto(a, phase) /\ (phase = "mark" => job[a].next = NoEvent)
  BY DEF Save, Handled
<1>4. a \in Workers /\ phase = "mark" => AnsweredIn(published', job[a].msg)
  BY <1>2, <1>3 DEF AnsweredIn
<1>5. WorkersOK'
  BY <1>2, <1>3, <1>4, GotoAnswer DEF At
<1>6. QED BY <1>1, <1>5, RecordedKept DEF AnswerInv

LEMMA AnswerPublish ==
  ASSUME SagaInv, AnswerInv, [Next]_vars, NEW a \in Actors, Publish(a) PROVE AnswerInv'
<1> DEFINE m == Outgoing(job[a])
<1>1. published \in Seq(Messages) /\ published' = Append(published, m)
      /\ queue' = Append(queue, m) /\ UNCHANGED processed
  BY DEF SagaInv, TypeOK, Publish, tables
<1>2. m \in Messages
  <2>1. queue' \in Seq(Messages) /\ queue \in Seq(Messages)
    BY StepSaga DEF SagaInv, TypeOK
  <2>2. queue'[Len(queue')] = m /\ Len(queue') \in 1 .. Len(queue')
    BY <1>1, <2>1
  <2>3. QED BY <2>1, <2>2
<1>3. m.order = job[a].msg.order /\ m.type = job[a].next /\ IsOwn(m)
  BY DEF Outgoing, IsOwn
<1>4. At(a, "publish") /\ (a \in Workers => job[a].next = Answer(job[a].msg.type))
  BY DEF Publish, AnswerInv, WorkersOK, WorkerOK, At
<1> HIDE DEF m
<1>5. QueueOK'
  BY <1>1, <1>2, <1>3 DEF AnswerInv, QueueOK, Received
<1>6. published'[Len(published) + 1] = m /\ Len(published) + 1 \in DOMAIN published'
  BY <1>1, <1>2
<1>7. a \in Workers => AnsweredIn(published', job[a].msg)
  BY <1>3, <1>4, <1>6 DEF AnsweredIn
<1>8. PICK phase \in {"mark", "idle"} : Goto(a, phase)
  BY DEF Publish, Handled
<1>9. WorkersOK'
  BY <1>4, <1>7, <1>8, GotoAnswer DEF At
<1>10. QED BY <1>1, <1>5, <1>9, RecordedKept DEF AnswerInv

LEMMA AnswerRequest ==
  ASSUME SagaInv, AnswerInv, [Next]_vars, NEW t \in Threads, Request(t) PROVE AnswerInv'
<1>1. QueueOK' /\ UNCHANGED processed
  BY DEF AnswerInv, QueueOK, Request, Open, PostEvent, tables, broker
<1>2. t \in Actors /\ t \notin Workers
  BY SagaConstants DEF Actors
<1>3. PICK j : Become(t, j)
  BY DEF Request, Open, PostEvent
<1>4. WorkersOK'
  BY <1>2, <1>3, WorkersKept
<1>5. QED BY <1>1, <1>4, RecordedKept DEF AnswerInv

\* The broker waits only for a worker that handles something.
UnsettledInv == \A w \in Workers : unacked[w] => job[w].phase # "idle"

LEMMA UnsettledKept ==
  ASSUME SagaInv, UnsettledInv, NEW a \in Actors, NEW j, Become(a, j), UNCHANGED unacked,
         a \in Workers => j.phase # "idle"
  PROVE  UnsettledInv'
BY DEF SagaInv, TypeOK, UnsettledInv, Become, Actors

LEMMA UnsettledGoto ==
  ASSUME SagaInv, UnsettledInv, NEW a \in Actors, NEW phase, Goto(a, phase), UNCHANGED unacked,
         a \in Workers => phase # "idle"
  PROVE  UnsettledInv'
<1>1. Busy(phase, job[a].msg, job[a].copy, job[a].next).phase = phase
  BY DEF Busy
<1>2. QED BY <1>1, UnsettledKept DEF Goto

\* A worker that is idle again has nothing left to settle.
LEMMA UnsettledIdle ==
  ASSUME SagaInv, UnsettledInv, NEW w \in Workers, Goto(w, "idle"),
         unacked' = [unacked EXCEPT ![w] = FALSE]
  PROVE  UnsettledInv'
BY DEF SagaInv, TypeOK, UnsettledInv, Goto, Become, Busy, Actors

LEMMA StepUnsettled == SagaInv /\ UnsettledInv /\ [Next]_vars => UnsettledInv'
<1> SUFFICES ASSUME SagaInv, UnsettledInv, [Next]_vars PROVE UnsettledInv'
  OBVIOUS
<1>1. ASSUME NEW m \in Inputs, Send(m) PROVE UnsettledInv'
  BY <1>1 DEF Send, UnsettledInv
<1>2. ASSUME NEW a \in Actors, UseCaseStep(a) PROVE UnsettledInv'
  <2>1. CASE LoadAndApply(a)
    <3>1. PICK j : Become(a, j) /\ j.phase \in {Failed(a), "save"}
      BY <2>1 DEF LoadAndApply, Busy
    <3>2. QED BY <2>1, <3>1, UnsettledKept DEF LoadAndApply, broker, Failed
  <2>2. CASE Save(a) \/ Publish(a)
    <3>1. PICK phase \in {Handled(a), "publish"} : Goto(a, phase)
      BY <2>2 DEF Save, Publish
    <3>2. QED BY <2>2, <3>1, UnsettledGoto DEF Save, Publish, broker, Handled
  <2>3. QED BY <1>2, <2>1, <2>2 DEF UseCaseStep
<1>3. ASSUME NEW w \in Workers, WorkerStep(w) PROVE UnsettledInv'
  <2>0. w \in Actors
    BY DEF Actors
  <2>1. CASE Deliver(w)
    <3>1. PICK j : Become(w, j) /\ j.phase # "idle"
      BY <2>1 DEF Deliver, Busy
    <3>2. QED BY <2>0, <2>1, <3>1 DEF SagaInv, TypeOK, UnsettledInv, Become, Deliver, Actors
  <2>2. CASE IsProcessed(w) \/ MarkProcessed(w) \/ InsertProcessed(w)
    <3>1. PICK phase \in {"ack", "nack", "get", "insert"} : Goto(w, phase)
      BY <2>2 DEF IsProcessed, MarkProcessed, InsertProcessed
    <3>2. QED BY <2>0, <2>2, <3>1, UnsettledGoto DEF IsProcessed, MarkProcessed, InsertProcessed, broker
  <2>3. CASE Ack(w) \/ Nack(w)
    BY <2>3, UnsettledIdle DEF Ack, Nack, Settle
  <2>4. QED BY <1>2, <1>3, <2>0, <2>1, <2>2, <2>3 DEF WorkerStep
<1>4. ASSUME NEW t \in Threads, Request(t) PROVE UnsettledInv'
  <2>1. t \in Actors /\ t \notin Workers
    BY SagaConstants DEF Actors
  <2>2. (\E j : Become(t, j)) /\ UNCHANGED unacked
    BY <1>4 DEF Request, Open, PostEvent, broker
  <2>3. QED BY <2>1, <2>2, UnsettledKept
<1>5. CASE Fault
  <2>1. ASSUME NEW a \in Actors, Crash(a), a \in Workers PROVE UnsettledInv'
    BY <2>1, UnsettledIdle DEF Crash, Requeue
  <2>2. ASSUME NEW a \in Actors, Crash(a), a \notin Workers PROVE UnsettledInv'
    BY <2>2, UnsettledGoto DEF Crash
  <2>3. ASSUME NEW a \in Actors, CallFails(a) PROVE UnsettledInv'
    BY <2>3, UnsettledGoto DEF CallFails, Failed, broker
  <2>4. CASE BrokerRestart
    BY <2>4 DEF BrokerRestart, UnsettledInv
  <2>5. ASSUME NEW w \in Workers, ConnectionLost(w) PROVE UnsettledInv'
    BY <2>5 DEF SagaInv, TypeOK, ConnectionLost, Requeue, UnsettledInv
  <2>6. QED BY <1>5, <2>1, <2>2, <2>3, <2>4, <2>5 DEF Fault
<1>6. CASE UNCHANGED vars
  BY <1>6 DEF vars, broker, UnsettledInv
<1>7. QED BY <1>1, <1>2, <1>3, <1>4, <1>5, <1>6 DEF Next, Actors

LEMMA AnswerFault ==
  ASSUME SagaInv, AnswerInv, UnsettledInv, [Next]_vars, Fault PROVE AnswerInv'
<1>1. UNCHANGED processed
  BY DEF Fault, Crash, CallFails, ConnectionLost, BrokerRestart, tables
<1>2. ASSUME NEW w \in Workers, Requeue(w), unacked[w] => ~At(w, "idle") PROVE QueueOK'
  <2>1. job[w].msg \in Messages
    BY DEF SagaInv, TypeOK, Job, Actors
  <2>2. unacked[w] => Received(job[w].msg)
    BY <1>2 DEF AnswerInv, WorkersOK, WorkerOK, At
  <2> DEFINE R == {m \in Messages : Received(m)}
  <2>3. queue \in Seq(R)
    BY DEF AnswerInv, QueueOK
  <2>4. CASE unacked[w]
    <3>1. job[w].msg \in R
      BY <2>1, <2>2, <2>4
    <3> HIDE DEF R
    <3>2. <<job[w].msg>> \o queue \in Seq(R)
      BY <2>3, <3>1
    <3>3. queue' = <<job[w].msg>> \o queue
      BY <1>2, <2>4 DEF Requeue
    <3>4. QED BY <3>2, <3>3 DEF QueueOK, R, Received, IsOwn
  <2>5. CASE ~unacked[w]
    BY <1>2, <2>3, <2>5 DEF Requeue, QueueOK
  <2>6. QED BY <2>4, <2>5
<1>3. ASSUME NEW a \in Actors, Crash(a) PROVE QueueOK' /\ WorkersOK'
  <2>1. WorkersOK'
    BY <1>3, GotoAnswer DEF Crash
  <2>2. CASE a \in Workers
    BY <1>2, <1>3, <2>1, <2>2 DEF Crash
  <2>3. CASE a \notin Workers
    BY <1>3, <2>1, <2>3 DEF Crash, AnswerInv, QueueOK
  <2>4. QED BY <2>2, <2>3
<1>4. ASSUME NEW a \in Actors, CallFails(a) PROVE QueueOK' /\ WorkersOK'
  <2>1. PICK phase \in {"nack", "idle"} : Goto(a, phase)
    BY <1>4 DEF CallFails, Failed
  <2>2. WorkersOK'
    BY <1>4, <2>1, GotoAnswer DEF CallFails
  <2>3. QED BY <1>4, <2>2 DEF CallFails, AnswerInv, QueueOK, broker
<1>5. CASE BrokerRestart
  BY <1>1, <1>5, WorkersIdle, RecordedKept DEF BrokerRestart, AnswerInv, QueueOK
<1>6. ASSUME NEW w \in Workers, ConnectionLost(w) PROVE QueueOK' /\ WorkersOK'
  BY <1>2, <1>6, WorkersIdle DEF ConnectionLost, UnsettledInv, At
<1>7. QED BY <1>1, <1>3, <1>4, <1>5, <1>6, RecordedKept DEF Fault, AnswerInv

LEMMA StepAnswer == SagaInv /\ UnsettledInv /\ AnswerInv /\ [Next]_vars => AnswerInv'
<1> SUFFICES ASSUME SagaInv, UnsettledInv, AnswerInv, [Next]_vars PROVE AnswerInv'
  OBVIOUS
<1>1. ASSUME NEW m \in Inputs, Send(m) PROVE AnswerInv'
  BY <1>1, AnswerSend
<1>2. ASSUME NEW a \in Actors, UseCaseStep(a) PROVE AnswerInv'
  BY <1>2, AnswerLoad, AnswerSave, AnswerPublish DEF UseCaseStep
<1>3. ASSUME NEW w \in Workers, WorkerStep(w) PROVE AnswerInv'
  <2>1. w \in Actors
    BY DEF Actors
  <2>2. QED BY <1>2, <1>3, <2>1, AnswerDeliver, AnswerLook, AnswerInsert, AnswerSettle
            DEF WorkerStep, Ack, Nack
<1>4. ASSUME NEW t \in Threads, Request(t) PROVE AnswerInv'
  BY <1>4, AnswerRequest
<1>5. CASE Fault
  BY <1>5, AnswerFault
<1>6. CASE UNCHANGED vars
  BY <1>6, WorkersIdle, RecordedKept DEF vars, tables, broker, AnswerInv, QueueOK
<1>7. QED BY <1>1, <1>2, <1>3, <1>4, <1>5, <1>6 DEF Next, Actors

LEMMA AnswerInvariant == Spec => [](UnsettledInv /\ AnswerInv)
<1>1. Init => UnsettledInv
  BY DEF Init, UnsettledInv
<1>2. QED BY <1>1, InitAnswer, StepAnswer, StepUnsettled, SagaInvariant, PTL DEF Spec

\* The broker is never told to forget a message whose id is not recorded, with
\* any number of workers, faults and redeliveries.
THEOREM AcknowledgedIsRecorded == Spec => []AckedIsProcessed
<1>1. AnswerInv => AckedIsProcessed
  BY DEF AnswerInv, WorkersOK, WorkerOK, AckedIsProcessed, At
<1>2. QED BY <1>1, AnswerInvariant, PTL

\* Once a message's id is recorded, and every further copy of it skipped, the
\* event that answers it has been published: skipping loses nothing.
THEOREM RecordedIsAnswered == Spec => []ProcessedIsAnswered
<1>1. AnswerInv => ProcessedIsAnswered
  BY DEF AnswerInv, RecordedOK, AnsweredIn, ProcessedIsAnswered, HasPublished, PublishedOf
<1>2. QED BY <1>1, AnswerInvariant, PTL
=============================================================================
